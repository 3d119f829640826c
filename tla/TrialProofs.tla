----------------------------- MODULE TrialProofs -----------------------------
(***************************************************************************)
(* Theorems about the trials of UpdateEngine, for any components, versions *)
(* and budgets, with crashes, failed writes and requests on top of a trial.*)
(*                                                                         *)
(* Neither property is inductive.  TrialBracketsLive speaks of what is     *)
(* armed and what is live, which a request moves in different steps: in    *)
(* between it holds because of what the request remembers (`from`, `to`).  *)
(* TrialWithinBudget speaks of the end of startup recovery; while recovery *)
(* runs, a trial past its budget is one still to do or being reverted.     *)
(* With both, the engine implements ReleaseTrial.                          *)
(***************************************************************************)
EXTENDS UpdateEngineProofs

\* What a request will go back to is what is live when its trial is armed.
FromIsLive ==
    pc \in {"publish", "publishing", "arm"} => req.from = current[req.comp]

\* What is about to be put on trial is a release.
ToIsRelease ==
    pc \in {"stage", "publish", "publishing", "arm"} => req.to \in Versions

\* Until the gate has answered, the trial is the running request's.
TrialOfMove ==
    pc \in {"swap", "act", "gate"} =>
        /\ pending[req.comp].version = req.to
        /\ pending[req.comp].previous = req.from

\* A revert that has somewhere to go settles a trial, and goes where that says
\* or to golden.
WayBackOnRecord ==
    pc = "revert" /\ req.from # None =>
        /\ OnTrial(req.comp)
        /\ req.from \in {pending[req.comp].previous, Golden[req.comp]}

\* Startup recovery uses the last steps of a request only.
BootSteps == req.kind = "boot" => pc \in {"revert", "disarm", "failed"}

\* While recovery runs, a trial past its budget is still to do or in hand, and
\* what is still to do is a trial.
BudgetKept ==
    pc = "trials" \/ req.kind = "boot" =>
        /\ \A c \in Components :
             \/ c \in todo
             \/ req.kind = "boot" /\ c = req.comp /\ pc # "failed"
             \/ pending[c].boots < MaxBootAttempts
        /\ \A c \in todo : OnTrial(c) /\ (req.kind = "boot" => c # req.comp)

TrialInv ==
    /\ FromIsLive
    /\ ToIsRelease
    /\ TrialOfMove
    /\ WayBackOnRecord
    /\ BootSteps
    /\ BudgetKept
    /\ TrialBracketsLive

-----------------------------------------------------------------------------
(* What the writes of the boot counter leave for each component.           *)

LEMMA PendingValues ==
    ASSUME pending \in [Components -> Trials]
    PROVE  /\ \A c \in Components : \A v, p :
                /\ Armed(c, v, p)[c] = [version |-> v, previous |-> p, boots |-> 0]
                /\ \A x \in Components : x # c => Armed(c, v, p)[x] = pending[x]
           /\ \A c \in Components :
                /\ Confirmed(c)[c] = NoTrial
                /\ \A x \in Components : x # c => Confirmed(c)[x] = pending[x]
BY DEF Armed, Confirmed

\* A start moves no trial and ends none, and what is not exhausted afterwards
\* is within its budget.
LEMMA BootsValues ==
    ASSUME pending \in [Components -> Trials], NEW c \in Components
    PROVE  /\ BootsRecorded[c].version = pending[c].version
           /\ BootsRecorded[c].previous = pending[c].previous
           /\ pending[c] = NoTrial <=> BootsRecorded[c] = NoTrial
           /\ ~Exhausted(BootsRecorded[c]) => BootsRecorded[c].boots < MaxBootAttempts
<1>1. pending[c] \in Trials
  OBVIOUS
<1>2. /\ pending[c].boots \in 0..MaxBootAttempts
      /\ MaxBootAttempts \in Nat \ {0}
  BY <1>1, JournalAssumption DEF Trials
<1>3. CASE pending[c] = NoTrial \/ pending[c].boots = MaxBootAttempts
  <2>1. BootsRecorded[c] = pending[c]
    BY <1>3 DEF BootsRecorded
  <2> QED
    BY <1>2, <2>1 DEF Exhausted, NoTrial
<1>4. CASE ~(pending[c] = NoTrial \/ pending[c].boots = MaxBootAttempts)
  <2>1. BootsRecorded[c] = [pending[c] EXCEPT !.boots = @ + 1]
    BY <1>4 DEF BootsRecorded
  <2>2. /\ BootsRecorded[c].version = pending[c].version
        /\ BootsRecorded[c].previous = pending[c].previous
        /\ BootsRecorded[c].boots = pending[c].boots + 1
    BY <1>1, <2>1 DEF Trials
  <2>3. BootsRecorded[c] # NoTrial
    BY <1>2, <2>2 DEF NoTrial
  <2> QED
    BY <1>2, <1>4, <2>2, <2>3 DEF Exhausted
<1> QED
  BY <1>3, <1>4

\* It is enough to look at the component that moved.
LEMMA BracketsKept ==
    ASSUME TrialBracketsLive, NEW c \in Components,
           \A x \in Components :
             x # c => current'[x] = current[x] /\ pending'[x] = pending[x],
           pending'[c] # NoTrial =>
             current'[c] \in {pending'[c].version, pending'[c].previous, Golden[c]}
    PROVE  TrialBracketsLive'
BY DEF TrialBracketsLive, OnTrial

\* Confirming one component, or failing to, moves no bracket.
LEMMA ConfirmKeepsBrackets ==
    ASSUME IInv, TrialBracketsLive, NEW c \in Components, UNCHANGED current,
           pending' \in {pending, Confirmed(c)}
    PROVE  TrialBracketsLive'
<1>1. pending \in [Components -> Trials]
  BY DEF IInv, TypeInv, TypeOK, JournalTypeOK
<1>2. CASE pending' = pending
  BY <1>2 DEF TrialBracketsLive, OnTrial
<1>3. CASE pending' = Confirmed(c)
  BY <1>1, <1>3, PendingValues, BracketsKept
<1> QED
  BY <1>2, <1>3

\* When nothing runs, only the brackets are left to show.
LEMMA AtRest ==
    ASSUME pc' \notin RequestPcs \union {"trials"}, req' = NoReq,
           TrialBracketsLive'
    PROVE  TrialInv'
BY DEF TrialInv, FromIsLive, ToIsRelease, TrialOfMove, WayBackOnRecord, BootSteps, BudgetKept,
       RequestPcs, NoReq

-----------------------------------------------------------------------------
(* TrialInv is preserved.                                                  *)

\* The steps of a running request.
LEMMA MoveKeepsTrialInv ==
    ASSUME IInv, TrialInv, MoveStep
    PROVE  TrialInv'
<1> DEFINE c == req.comp
<1> USE DEF RequestPcs
<1>p. /\ pending \in [Components -> Trials]
      /\ current \in [Components -> VersionOrNone]
  BY DEF IInv, TypeInv, TypeOK, JournalTypeOK, StoreTypeOK
<1>r. pc \in RequestPcs => c \in Components
  BY DEF IInv, TypeInv, RequestNamed
<1>b. pc \in RequestPcs /\ pc \notin {"revert", "disarm", "failed"} => req.kind # "boot"
  BY DEF TrialInv, BootSteps
<1>t. TrialBracketsLive
  BY DEF TrialInv
<1>m. todo \subseteq Components
  BY DEF IInv, TypeInv, TypeOK, EngineTypeOK
\* An error, with the trial as it was or confirmed.
<1>f. ASSUME Fail, pc \in RequestPcs, UNCHANGED current,
             \/ UNCHANGED pending
             \/ pending' = Confirmed(c)
             \/ FailedWrite(Confirmed(c))
      PROVE  TrialInv'
  <2>1. pending' \in {pending, Confirmed(c)}
    BY <1>f DEF FailedWrite
  <2>2. TrialBracketsLive'
    <3> HIDE DEF c
    <3> QED
      BY <1>f, <1>r, <1>t, <2>1, ConfirmKeepsBrackets
  <2> QED
    BY <1>f, <2>2, AtRest DEF Fail
\* A step that moves neither the trials nor the link.
<1>g. ASSUME pc \in RequestPcs, UNCHANGED <<current, pending, req, todo>>,
             pc' \in RequestPcs, req.kind # "boot",
             pc' \in {"publish", "publishing", "arm"}
               => pc \in {"publish", "publishing", "arm"},
             pc' \in {"swap", "act", "gate"} => pc \in {"swap", "act", "gate"},
             pc' = "revert" => pc \in {"swap", "act", "gate", "revert"},
             pc' # "stage"
      PROVE  TrialInv'
  <2>1. TrialBracketsLive'
    BY <1>g, <1>t DEF TrialBracketsLive, OnTrial
  <2>2. WayBackOnRecord'
    BY <1>g DEF TrialInv, TrialOfMove, WayBackOnRecord, OnTrial, NoTrial
  <2> QED
    BY <1>g, <2>1, <2>2
      DEF TrialInv, FromIsLive, ToIsRelease, TrialOfMove, BootSteps, BudgetKept
<1>1. ASSUME StageEnds PROVE TrialInv'
  <2>1. CASE Fail
    BY <1>1, <1>f, <2>1 DEF StageEnds, storeVars
  <2>2. CASE Return
    <3>1. TrialBracketsLive'
      BY <1>1, <1>t DEF StageEnds, storeVars, TrialBracketsLive, OnTrial
    <3>2. pc' = "idle" /\ req' = NoReq
      BY <1>1, <1>b, <2>2 DEF StageEnds, Return
    <3> QED
      BY <3>1, <3>2, AtRest
  <2> QED
    BY <1>1, <2>1, <2>2 DEF StageEnds
<1>2. ASSUME Stage PROVE TrialInv'
  <2>1. /\ pc = "stage" /\ pc' = "publish"
        /\ UNCHANGED <<current, pending>>
        /\ req' = [req EXCEPT !.from = current[req.comp]]
        /\ req \in Reqs
    BY <1>2 DEF Stage, storeVars, journalVars, IInv, TypeInv, TypeOK, EngineTypeOK
  <2>2. req'.from = current[req'.comp] /\ req'.to = req.to /\ req'.kind # "boot"
    BY <1>b, <2>1 DEF Reqs
  <2>3. TrialBracketsLive'
    BY <1>t, <2>1 DEF TrialBracketsLive, OnTrial
  <2> QED
    BY <2>1, <2>2, <2>3
      DEF TrialInv, FromIsLive, ToIsRelease, TrialOfMove, WayBackOnRecord, BootSteps, BudgetKept
<1>3. ASSUME ClearRelease PROVE TrialInv'
  BY <1>3, <1>b, <1>g DEF ClearRelease, Goto, journalVars
<1>4. ASSUME PublishRelease PROVE TrialInv'
  BY <1>4, <1>b, <1>g DEF PublishRelease, Goto, journalVars
<1>5. ASSUME PublishFails PROVE TrialInv'
  BY <1>5, <1>f DEF PublishFails, storeVars
<1>6. ASSUME Arm PROVE TrialInv'
  <2>1. /\ pc = "arm" /\ pc' = "swap" /\ req' = req /\ current' = current
        /\ pending' = Armed(c, req.to, req.from)
    BY <1>6 DEF Arm, Goto, storeVars
  <2>2. req.from = current[c]
    BY <2>1 DEF TrialInv, FromIsLive
  <2>3. /\ pending'[c] = [version |-> req.to, previous |-> req.from, boots |-> 0]
        /\ \A x \in Components : x # c => pending'[x] = pending[x]
    BY <1>p, <1>r, <2>1, PendingValues
  <2>4. TrialBracketsLive'
    BY <1>r, <1>t, <2>1, <2>2, <2>3, BracketsKept
  <2> QED
    BY <1>b, <2>1, <2>3, <2>4
      DEF TrialInv, FromIsLive, ToIsRelease, TrialOfMove, WayBackOnRecord, BootSteps, BudgetKept
<1>7. ASSUME ArmFails PROVE TrialInv'
  <2>1. /\ pc = "arm" /\ current' = current
        /\ pending' \in {pending, Armed(c, req.to, req.from)}
    BY <1>7 DEF ArmFails, FailedWrite, storeVars
  <2>2. req.from = current[c]
    BY <2>1 DEF TrialInv, FromIsLive
  <2>3. TrialBracketsLive'
    <3>1. CASE pending' = pending
      BY <1>t, <2>1, <3>1 DEF TrialBracketsLive, OnTrial
    <3>2. CASE pending' = Armed(c, req.to, req.from)
      <4>1. /\ pending'[c] = [version |-> req.to, previous |-> req.from, boots |-> 0]
            /\ \A x \in Components : x # c => pending'[x] = pending[x]
        BY <1>p, <1>r, <2>1, <3>2, PendingValues
      <4> QED
        BY <1>r, <1>t, <2>1, <2>2, <4>1, BracketsKept
    <3> QED
      BY <2>1, <3>1, <3>2
  <2> QED
    BY <1>7, <2>3, AtRest DEF ArmFails, Fail
\* The link moves to the release on trial.
<1>s. ASSUME pc = "swap", SwapTo(c, req.to), UNCHANGED pending
      PROVE  TrialBracketsLive'
  <2>1. /\ current'[c] = req.to
        /\ \A x \in Components : x # c => current'[x] = current[x]
    BY <1>p, <1>r, <1>s DEF SwapTo
  <2>2. pending[c].version = req.to
    BY <1>s DEF TrialInv, TrialOfMove
  <2> QED
    BY <1>r, <1>s, <1>t, <2>1, <2>2, BracketsKept
<1>8. ASSUME Swap PROVE TrialInv'
  <2>1. /\ pc = "swap" /\ pc' \in {"gate", "act"} /\ SwapTo(c, req.to)
        /\ UNCHANGED <<pending, req, todo>>
    BY <1>8 DEF Swap, Goto, journalVars
  <2>2. TrialBracketsLive'
    BY <1>s, <2>1
  <2> QED
    BY <1>b, <2>1, <2>2
      DEF TrialInv, FromIsLive, ToIsRelease, TrialOfMove, WayBackOnRecord, BootSteps, BudgetKept
<1>9. ASSUME SwapFails PROVE TrialInv'
  <2>1. /\ pc = "swap" /\ Fail
        /\ UNCHANGED current \/ SwapTo(c, req.to)
        /\ pending' \in {pending, Confirmed(c)}
    BY <1>9 DEF SwapFails, TryConfirm, FailedWrite
  <2>2. CASE UNCHANGED current
    BY <1>f, <1>9, <2>1, <2>2 DEF SwapFails, TryConfirm
  <2>3. CASE SwapTo(c, req.to) /\ pending' = pending
    BY <1>s, <2>1, <2>3, AtRest DEF Fail
  <2>4. CASE SwapTo(c, req.to) /\ pending' = Confirmed(c)
    <3>1. /\ pending'[c] = NoTrial
          /\ \A x \in Components : x # c =>
               current'[x] = current[x] /\ pending'[x] = pending[x]
      BY <1>p, <1>r, <2>1, <2>4, PendingValues DEF SwapTo
    <3>2. TrialBracketsLive'
      BY <1>r, <1>t, <2>1, <3>1, BracketsKept
    <3> QED
      BY <2>1, <3>2, AtRest DEF Fail
  <2> QED
    BY <2>1, <2>2, <2>3, <2>4
<1>10. ASSUME Act PROVE TrialInv'
  BY <1>10, <1>b, <1>g DEF Act, Goto, storeVars, journalVars
<1>11. ASSUME ActFails PROVE TrialInv'
  BY <1>11, <1>f DEF ActFails, TryConfirm, storeVars
<1>12. ASSUME GatePasses PROVE TrialInv'
  BY <1>12, <1>b, <1>g DEF GatePasses, Goto, storeVars, journalVars
<1>13. ASSUME GateFails PROVE TrialInv'
  BY <1>13, <1>b, <1>g DEF GateFails, Goto, storeVars, journalVars
<1>14. ASSUME Commit PROVE TrialInv'
  <2>1. /\ pc = "commit" /\ pc' = "prune" /\ UNCHANGED <<current, req>>
        /\ pending' = Confirmed(c)
    BY <1>14 DEF Commit, storeVars
  <2>2. TrialBracketsLive'
    BY <1>r, <1>t, <2>1, ConfirmKeepsBrackets
  <2> QED
    BY <1>b, <2>1, <2>2
      DEF TrialInv, FromIsLive, ToIsRelease, TrialOfMove, WayBackOnRecord, BootSteps, BudgetKept
<1>15. ASSUME CommitFails PROVE TrialInv'
  BY <1>15, <1>f DEF CommitFails, storeVars
<1>16. ASSUME PruneOne PROVE TrialInv'
  BY <1>16, <1>b, <1>g DEF PruneOne, journalVars
<1>17. ASSUME PruneFails PROVE TrialInv'
  BY <1>17, <1>b, <1>g DEF PruneFails, storeVars, journalVars
<1>18. ASSUME RecordApplied PROVE TrialInv'
  <2>1. TrialBracketsLive'
    BY <1>18, <1>t DEF RecordApplied, storeVars, TrialBracketsLive, OnTrial
  <2>2. pc' = "idle" /\ req' = NoReq
    BY <1>18, <1>b DEF RecordApplied, Return
  <2> QED
    BY <2>1, <2>2, AtRest
\* Back to startup recovery, or to rest, with the trial confirmed.
<1>e. ASSUME pc \in RequestPcs, Return, TrialBracketsLive',
             req.kind = "boot" => c \in todo \/ pending'[c].boots < MaxBootAttempts,
             \A x \in Components : x # c => pending'[x] = pending[x]
      PROVE  TrialInv'
  <2>1. CASE req.kind # "boot"
    BY <1>e, <2>1, AtRest DEF Return
  <2>2. CASE req.kind = "boot"
    <3>1. pc' = "trials" /\ req' = NoReq /\ todo' = todo
      BY <1>e, <2>2 DEF Return
    <3>2. /\ \A x \in Components : x # c => x \in todo \/ pending[x].boots < MaxBootAttempts
          /\ \A x \in todo : OnTrial(x) /\ x # c
      BY <2>2 DEF TrialInv, BudgetKept
    <3>3. \A x \in todo : OnTrial(x)'
      BY <1>e, <1>m, <3>2 DEF OnTrial
    <3> QED
      BY <1>e, <2>2, <3>1, <3>2, <3>3
        DEF TrialInv, FromIsLive, ToIsRelease, TrialOfMove, WayBackOnRecord, BootSteps, BudgetKept, NoReq
  <2> QED
    BY <2>1, <2>2
<1>n. NoTrial.boots < MaxBootAttempts
  BY JournalAssumption DEF NoTrial
<1>19. ASSUME StuckLive PROVE TrialInv'
  <2>1. /\ pc = "revert" /\ Return /\ pending' = Confirmed(c) /\ current' = current
    BY <1>19 DEF StuckLive, storeVars
  <2>2. /\ pending'[c] = NoTrial
        /\ \A x \in Components : x # c => pending'[x] = pending[x]
    BY <1>p, <1>r, <2>1, PendingValues
  <2>3. TrialBracketsLive'
    BY <1>r, <1>t, <2>1, ConfirmKeepsBrackets
  <2> QED
    BY <1>e, <1>n, <2>1, <2>2, <2>3
\* The link moves back.
<1>v. ASSUME pc = "revert", req.from # None, SwapTo(c, req.from), UNCHANGED pending
      PROVE  TrialBracketsLive'
  <2>1. /\ current'[c] = req.from
        /\ \A x \in Components : x # c => current'[x] = current[x]
    BY <1>p, <1>r, <1>v DEF SwapTo
  <2>2. req.from \in {pending[c].previous, Golden[c]}
    BY <1>v DEF TrialInv, WayBackOnRecord
  <2> QED
    BY <1>r, <1>v, <1>t, <2>1, <2>2, BracketsKept
<1>20. ASSUME SwapBack PROVE TrialInv'
  <2>1. /\ pc = "revert" /\ pc' = "disarm" /\ req.from # None
        /\ SwapTo(c, req.from) /\ UNCHANGED <<pending, req, todo>>
    BY <1>20 DEF SwapBack, Goto, journalVars
  <2>2. TrialBracketsLive'
    BY <1>v, <2>1
  <2> QED
    BY <2>1, <2>2
      DEF TrialInv, FromIsLive, ToIsRelease, TrialOfMove, WayBackOnRecord, BootSteps, BudgetKept,
          OnTrial
<1>21. ASSUME SwapBackFails PROVE TrialInv'
  <2>1. /\ pc = "revert" /\ req.from # None /\ Fail /\ UNCHANGED pending
        /\ UNCHANGED current \/ SwapTo(c, req.from)
    BY <1>21 DEF SwapBackFails
  <2>2. CASE UNCHANGED current
    BY <1>f, <2>1, <2>2
  <2>3. CASE SwapTo(c, req.from)
    BY <1>v, <2>1, <2>3, AtRest DEF Fail
  <2> QED
    BY <2>1, <2>2, <2>3
<1>22. ASSUME Disarm PROVE TrialInv'
  <2>1. /\ pc = "disarm" /\ pc' = "failed" /\ UNCHANGED <<current, req, todo>>
        /\ pending' = Confirmed(c)
    BY <1>22 DEF Disarm, Goto, storeVars
  <2>2. /\ pending'[c] = NoTrial
        /\ \A x \in Components : x # c => pending'[x] = pending[x]
    BY <1>p, <1>r, <2>1, PendingValues
  <2>3. TrialBracketsLive'
    BY <1>r, <1>t, <2>1, ConfirmKeepsBrackets
  <2>4. BudgetKept'
    BY <1>m, <1>n, <2>1, <2>2 DEF TrialInv, BudgetKept, OnTrial
  <2> QED
    BY <2>1, <2>3, <2>4
      DEF TrialInv, FromIsLive, ToIsRelease, TrialOfMove, WayBackOnRecord, BootSteps
<1>23. ASSUME DisarmFails PROVE TrialInv'
  BY <1>23, <1>f DEF DisarmFails, storeVars
<1>24. ASSUME RecordRolledBack PROVE TrialInv'
  <2>1. /\ pc = "failed" /\ Return /\ UNCHANGED <<pending, current>>
    BY <1>24 DEF RecordRolledBack, storeVars
  <2>2. TrialBracketsLive'
    BY <1>t, <2>1 DEF TrialBracketsLive, OnTrial
  <2>3. req.kind = "boot" => c \in todo \/ pending[c].boots < MaxBootAttempts
    BY <1>r, <2>1 DEF TrialInv, BudgetKept
  <2> QED
    BY <1>e, <2>1, <2>2, <2>3
<1> QED
  BY <1>1, <1>2, <1>3, <1>4, <1>5, <1>6, <1>7, <1>8, <1>9, <1>10, <1>11, <1>12,
     <1>13, <1>14, <1>15, <1>16, <1>17, <1>18, <1>19, <1>20, <1>21, <1>22, <1>23,
     <1>24 DEF MoveStep

\* The steps of startup recovery.
LEMMA StartupKeepsTrialInv ==
    ASSUME IInv, TrialInv, StartupStep
    PROVE  TrialInv'
<1> USE DEF RequestPcs
<1>p. pending \in [Components -> Trials]
  BY DEF IInv, TypeInv, TypeOK, JournalTypeOK
<1>t. TrialBracketsLive
  BY DEF TrialInv
<1>m. todo \subseteq Components
  BY DEF IInv, TypeInv, TypeOK, EngineTypeOK
<1>i. pc \notin RequestPcs => req = NoReq
  BY DEF IInv, TypeInv, NothingAsked
\* Before recovery looks at the trials, and after.
<1>q. ASSUME pc \notin RequestPcs, pc' \notin RequestPcs \union {"trials"},
             req' \in {req, NoReq}, TrialBracketsLive'
      PROVE  TrialInv'
  BY <1>i, <1>q, AtRest
<1>k. ASSUME UNCHANGED <<current, pending>>
      PROVE  TrialBracketsLive'
  BY <1>k, <1>t DEF TrialBracketsLive, OnTrial
<1>1. ASSUME Start PROVE TrialInv'
  BY <1>1, <1>k, <1>q DEF Start, Goto, storeVars, journalVars
<1>2. ASSUME RecordRescue PROVE TrialInv'
  BY <1>2, <1>k, <1>q DEF RecordRescue, Goto, storeVars
<1>3. ASSUME ClearRescuedTrial PROVE TrialInv'
  <2>1. TrialBracketsLive'
    <3>1. CASE crumb.comp = None
      BY <1>3, <1>k, <3>1 DEF ClearRescuedTrial, storeVars
    <3>2. CASE crumb.comp # None
      <4>1. crumb.comp \in Components
        BY <3>2 DEF IInv, TypeInv, TypeOK, JournalTypeOK, Crumbs
      <4> QED
        BY <1>3, <1>t, <3>2, <4>1, ConfirmKeepsBrackets
          DEF ClearRescuedTrial, TryConfirm, FailedWrite, storeVars
    <3> QED
      BY <3>1, <3>2
  <2> QED
    BY <1>3, <1>q, <2>1 DEF ClearRescuedTrial, Goto
<1>4. ASSUME RemoveCrumb PROVE TrialInv'
  BY <1>4, <1>k, <1>q DEF RemoveCrumb, Goto, storeVars
<1>5. ASSUME PublishGolden PROVE TrialInv'
  BY <1>5, <1>k, <1>q DEF PublishGolden, Goto, journalVars
\* Counting a start moves no trial.
<1>b. ASSUME UNCHANGED current, pending' = BootsRecorded
      PROVE  TrialBracketsLive'
  <2> SUFFICES ASSUME NEW c \in Components, pending'[c] # NoTrial
               PROVE  current'[c] \in
                        {pending'[c].version, pending'[c].previous, Golden[c]}
    BY DEF TrialBracketsLive, OnTrial
  <2>1. /\ pending'[c].version = pending[c].version
        /\ pending'[c].previous = pending[c].previous
        /\ pending[c] # NoTrial
    BY <1>b, <1>p, BootsValues
  <2> QED
    BY <1>b, <1>t, <2>1 DEF TrialBracketsLive, OnTrial
<1>6. ASSUME CountBoot PROVE TrialInv'
  <2>1. /\ pc' = "trials" /\ req' = NoReq /\ pending' = BootsRecorded
        /\ todo' = {c \in Components : Exhausted(pending'[c])}
    BY <1>6, <1>i DEF CountBoot
  <2>2. TrialBracketsLive'
    BY <1>6, <1>b, <2>1 DEF CountBoot, storeVars
  <2>3. /\ \A c \in Components : c \in todo' \/ pending'[c].boots < MaxBootAttempts
        /\ \A c \in todo' : OnTrial(c)'
    BY <1>p, <2>1, BootsValues DEF Exhausted, OnTrial
  <2> QED
    BY <2>1, <2>2, <2>3
      DEF TrialInv, FromIsLive, ToIsRelease, TrialOfMove, WayBackOnRecord, BootSteps, BudgetKept, NoReq
<1>7. ASSUME CountBootFails PROVE TrialInv'
  <2>1. TrialBracketsLive'
    BY <1>7, <1>b, <1>k DEF CountBootFails, FailedWrite, storeVars
  <2> QED
    BY <1>7, <2>1, AtRest DEF CountBootFails, Fail
<1>8. ASSUME NEW c \in Components, CommitTrial(c) PROVE TrialInv'
  <2>1. /\ pc = "trials" /\ pc' = "trials" /\ req' = req /\ req = NoReq
        /\ pending' = Confirmed(c) /\ todo' = todo \ {c} /\ UNCHANGED current
    BY <1>8, <1>i DEF CommitTrial, storeVars
  <2>2. TrialBracketsLive'
    BY <1>t, <2>1, ConfirmKeepsBrackets
  <2>3. /\ pending'[c] = NoTrial
        /\ \A x \in Components : x # c => pending'[x] = pending[x]
    BY <1>p, <2>1, PendingValues
  <2>4. NoTrial.boots < MaxBootAttempts
    BY JournalAssumption DEF NoTrial
  <2>5. /\ \A x \in Components : x \in todo' \/ pending'[x].boots < MaxBootAttempts
        /\ \A x \in todo' : OnTrial(x)'
    BY <1>m, <2>1, <2>3, <2>4 DEF TrialInv, BudgetKept, NoReq, OnTrial
  <2> QED
    BY <2>1, <2>2, <2>5
      DEF TrialInv, FromIsLive, ToIsRelease, TrialOfMove, WayBackOnRecord, BootSteps, BudgetKept, NoReq
<1>9. ASSUME NEW c \in Components, CommitTrialFails(c) PROVE TrialInv'
  <2>1. TrialBracketsLive'
    BY <1>9, <1>t, ConfirmKeepsBrackets DEF CommitTrialFails, FailedWrite, storeVars
  <2> QED
    BY <1>9, <2>1, AtRest DEF CommitTrialFails, Fail
<1>10. ASSUME NEW c \in Components, RevertTrial(c) PROVE TrialInv'
  <2>1. /\ pc = "trials" /\ pc' = "revert" /\ todo' = todo \ {c}
        /\ req'.kind = "boot" /\ req'.comp = c /\ req'.from = BootTarget(c)
        /\ UNCHANGED <<current, pending>>
    BY <1>10 DEF RevertTrial, storeVars, journalVars
  <2>2. BootTarget(c) \in {None, pending[c].previous, Golden[c]}
    BY DEF BootTarget
  <2>3. /\ \A x \in Components : x \in todo \/ pending[x].boots < MaxBootAttempts
        /\ \A x \in todo : OnTrial(x)
        /\ c \in todo
    BY <1>i, <1>10, <2>1 DEF TrialInv, BudgetKept, NoReq, RevertTrial
  <2>4. WayBackOnRecord'
    BY <2>1, <2>2, <2>3 DEF WayBackOnRecord, OnTrial
  <2> QED
    BY <1>k, <2>1, <2>3, <2>4
      DEF TrialInv, FromIsLive, ToIsRelease, TrialOfMove, BootSteps, BudgetKept, OnTrial
<1>11. ASSUME Serve PROVE TrialInv'
  BY <1>11, <1>k, <1>q DEF Serve, Goto, storeVars, journalVars
<1> QED
  BY <1>1, <1>2, <1>3, <1>4, <1>5, <1>6, <1>7, <1>8, <1>9, <1>10, <1>11
    DEF StartupStep

\* A request that begins has armed nothing yet; the process dies with what it
\* remembers.
LEMMA OthersKeepTrialInv ==
    ASSUME IInv, TrialInv, ClientStep \/ Die \/ UNCHANGED vars
    PROVE  TrialInv'
<1>t. TrialBracketsLive
  BY DEF TrialInv
<1>k. ASSUME UNCHANGED <<current, pending>>
      PROVE  TrialBracketsLive'
  BY <1>k, <1>t DEF TrialBracketsLive, OnTrial
<1>1. ASSUME Die PROVE TrialInv'
  BY <1>1, <1>k, AtRest DEF Die, storeVars, journalVars, RequestPcs
<1>2. ASSUME UNCHANGED vars PROVE TrialInv'
  BY <1>2, <1>k
    DEF vars, storeVars, journalVars, procVars, TrialInv, FromIsLive, ToIsRelease, TrialOfMove,
        WayBackOnRecord, BootSteps, BudgetKept, OnTrial
<1>3. ASSUME pc = "idle", UNCHANGED <<current, pending, procVars>> PROVE TrialInv'
  BY <1>3, <1>k, AtRest
    DEF procVars, IInv, TypeInv, NothingAsked, RequestPcs
<1>4. ASSUME NEW k \in Kinds \ {"boot"}, NEW c \in Components, NEW v \in Versions,
             NEW at \in {"stage", "arm"}, Begin(k, c, v, at)
      PROVE  TrialInv'
  <2>1. /\ pc' = at /\ req'.kind = k /\ req'.comp = c /\ req'.from = current[c]
        /\ req'.to = v
        /\ UNCHANGED <<current, pending>>
    BY <1>4 DEF Begin, storeVars, journalVars
  <2> QED
    BY <1>k, <2>1
      DEF TrialInv, FromIsLive, ToIsRelease, TrialOfMove, WayBackOnRecord, BootSteps, BudgetKept
<1>5. ASSUME ClientStep PROVE TrialInv'
  <2>1. PICK c \in Components :
          \/ \E v \in Versions :
               \/ \E t \in Targets : ApplyRefused(c, t, v) \/ ApplyAccepted(c, t, v)
               \/ Select(c, v)
          \/ Rollback(c)
          \/ ResetToGolden(c)
          \/ \E v \in PinVersions : SetPin(c, v)
    BY <1>5 DEF ClientStep
  <2>2. ASSUME NEW v, NEW t, ApplyRefused(c, t, v) PROVE TrialInv'
    BY <1>3, <2>2 DEF ApplyRefused, MayRequest, storeVars
  <2>3. ASSUME NEW v \in Versions, NEW t, ApplyAccepted(c, t, v) PROVE TrialInv'
    BY <1>4, <2>3 DEF ApplyAccepted, Kinds
  <2>4. ASSUME NEW v \in Versions, Select(c, v) PROVE TrialInv'
    BY <1>4, <2>4 DEF Select, Kinds
  <2>5. ASSUME Rollback(c) PROVE TrialInv'
    BY <1>4, <2>5 DEF Rollback, RollbackTargets, Installed, Kinds
  <2>6. ASSUME ResetToGolden(c) PROVE TrialInv'
    BY <1>4, <2>6 DEF ResetToGolden, IsDir, Kinds
  <2>7. ASSUME NEW v, SetPin(c, v) PROVE TrialInv'
    BY <1>3, <2>7 DEF SetPin, storeVars
  <2> QED
    BY <2>1, <2>2, <2>3, <2>4, <2>5, <2>6, <2>7
<1> QED
  BY <1>1, <1>2, <1>5

-----------------------------------------------------------------------------
(* Theorems.                                                               *)

\* What a request remembers agrees with what is armed and what is live, at
\* every step of it, and recovery forgets no trial it has to settle.
THEOREM TrialInvHolds == Spec => []TrialInv
<1>1. Init => TrialInv
  BY StoreConfigAssumption
    DEF Init, StoreInit, JournalInit, NoReq, TrialInv, FromIsLive, ToIsRelease, TrialOfMove,
        WayBackOnRecord, BootSteps, BudgetKept, TrialBracketsLive, OnTrial
<1>2. IInv /\ TrialInv /\ [Next]_vars => TrialInv'
  BY MoveKeepsTrialInv, StartupKeepsTrialInv, OthersKeepTrialInv DEF Next
<1> QED
  BY <1>1, <1>2, IInvHolds, PTL DEF Spec

\* A trial always describes the move under way, with any number of components
\* and releases: no failure, crash, failed write or request on top of it leaves
\* a trial that talks of releases other than the live one (engine.rs arm and
\* confirm on every path).
THEOREM TrialsBracketLive == Spec => []TrialBracketsLive
<1>1. TrialInv => TrialBracketsLive
  BY DEF TrialInv
<1> QED
  BY <1>1, TrialInvHolds, PTL

\* When startup recovery is done, no trial of any component is past its budget,
\* whatever the budget, and whether or not there was anything to revert to
\* (engine.rs recover_on_start, journal.rs exhausted).
THEOREM TrialsWithinBudget == Spec => []TrialWithinBudget
<1>1. IInv /\ TrialInv => TrialWithinBudget
  <2> SUFFICES ASSUME IInv, TrialInv, pc = "trials", todo = {}, NEW c \in Components
               PROVE  pending[c].boots < MaxBootAttempts
    BY DEF TrialWithinBudget
  <2>1. req.kind # "boot"
    BY DEF TrialInv, BootSteps
  <2> QED
    BY <2>1 DEF TrialInv, BudgetKept
<1> QED
  BY <1>1, IInvHolds, TrialInvHolds, PTL

-----------------------------------------------------------------------------
(* UpdateEngine implements ReleaseTrial.  A step of the engine that does   *)
(* not touch the live link or the trials is a stutter; arming is Try; the  *)
(* rest moves the link of a component on trial, or drops its trial, which  *)
(* is Settle because the live release is within the bracket (TrialInv).    *)

\* What one step has to be.
Implemented == [Promised!AbstractNext]_(Promised!abstractVars)

\* A component on trial has a version to go to or one to come back to.
LEMMA NamedIsOnTrial ==
    ASSUME NEW c \in Components,
           pending[c].version # None \/ pending[c].previous # None
    PROVE  OnTrial(c)
BY DEF OnTrial, NoTrial

\* What the engine does to neither link nor trial is a stutter.
LEMMA KeepImplements ==
    ASSUME UNCHANGED <<current, pending>>
    PROVE  Implemented
BY DEF Implemented, Promised!abstractVars, TrialOnRecord, OnTrial

\* Arming a component, with what is live as the release to come back to.
LEMMA ArmImplements ==
    ASSUME IInv, NEW c \in Components, NEW v \in Versions, UNCHANGED current,
           pending' = Armed(c, v, current[c])
    PROVE  Implemented
<1>1. pending \in [Components -> Trials]
  BY DEF IInv, TypeInv, TypeOK, JournalTypeOK
<1>2. /\ pending'[c] = [version |-> v, previous |-> current[c], boots |-> 0]
      /\ \A x \in Components : x # c => pending'[x] = pending[x]
  BY <1>1, PendingValues
<1>3. pending'[c] # NoTrial
  BY <1>2, VersionsAssumption DEF NoTrial
<1>4. TrialOnRecord' =
        [TrialOnRecord EXCEPT ![c] = {[version |-> v, previous |-> current[c]]}]
  <2>1. \A x \in Components :
          OnTrial(x)' <=> (x = c \/ OnTrial(x))
    BY <1>2, <1>3 DEF OnTrial
  <2>2. /\ pending'[c].version = v
        /\ pending'[c].previous = current[c]
    BY <1>2
  <2> QED
    BY <1>2, <2>1, <2>2 DEF TrialOnRecord
<1>5. Promised!Try(c)
  BY <1>4 DEF Promised!Try
<1> QED
  BY <1>5 DEF Implemented, Promised!AbstractNext

\* A component's trial is kept or dropped; the link stays, or moves within the
\* bracket of a trial.
LEMMA SettleImplements ==
    ASSUME IInv, TrialBracketsLive, NEW c \in Components,
           pending' \in {pending, Confirmed(c)},
           \/ UNCHANGED current
           \/ /\ OnTrial(c)
              /\ \E v \in {pending[c].version, pending[c].previous, Golden[c]} :
                   current' = [current EXCEPT ![c] = v]
    PROVE  Implemented
<1>1. /\ pending \in [Components -> Trials]
      /\ current \in [Components -> VersionOrNone]
  BY DEF IInv, TypeInv, TypeOK, JournalTypeOK, StoreTypeOK
<1>2. CASE ~OnTrial(c)
  <2>1. Confirmed(c) = pending
    BY <1>1, <1>2 DEF Confirmed, OnTrial
  <2> QED
    BY <1>2, <2>1, KeepImplements
<1>3. CASE OnTrial(c)
  <2>1. TrialOnRecord[c] =
          {[version |-> pending[c].version, previous |-> pending[c].previous]}
    BY <1>3 DEF TrialOnRecord
  <2>2. \E v \in {pending[c].version, pending[c].previous, Golden[c]} :
          current' = [current EXCEPT ![c] = v]
    <3>1. CASE UNCHANGED current
      <4>1. current' = [current EXCEPT ![c] = current[c]]
        BY <1>1, <3>1
      <4> QED
        BY <1>3, <4>1 DEF TrialBracketsLive
    <3> QED
      BY <3>1
  <2>3. \E v \in Promised!Bracket(c) : current' = [current EXCEPT ![c] = v]
    <3>1. {pending[c].version, pending[c].previous, Golden[c]} \subseteq Promised!Bracket(c)
      BY <2>1 DEF Promised!Bracket
    <3> QED
      BY <2>2, <3>1
  <2>4. TrialOnRecord' \in {TrialOnRecord, [TrialOnRecord EXCEPT ![c] = {}]}
    <3>1. CASE pending' = pending
      BY <3>1 DEF TrialOnRecord, OnTrial
    <3>2. CASE pending' = Confirmed(c)
      <4>1. /\ pending'[c] = NoTrial
            /\ \A x \in Components : x # c => pending'[x] = pending[x]
        BY <1>1, <3>2, PendingValues
      <4> QED
        BY <4>1 DEF TrialOnRecord, OnTrial
    <3> QED
      BY <3>1, <3>2
  <2>5. Promised!Settle(c)
    BY <2>1, <2>3, <2>4 DEF Promised!Settle
  <2> QED
    BY <2>5 DEF Implemented, Promised!AbstractNext
<1> QED
  BY <1>2, <1>3

-----------------------------------------------------------------------------
(* Every step.                                                             *)

\* The steps of a running request: arming is Try, the moves of the link and the
\* confirmations are Settle.
LEMMA MoveImplements ==
    ASSUME IInv, TrialInv, MoveStep
    PROVE  Implemented
<1> DEFINE c == req.comp
<1> USE DEF RequestPcs
<1>c. pc \in RequestPcs => c \in Components
  BY DEF IInv, TypeInv, RequestNamed
<1>t. TrialBracketsLive
  BY DEF TrialInv
\* The trial is kept or dropped, and the link stays.
<1>k. ASSUME pc \in RequestPcs, UNCHANGED current, pending' \in {pending, Confirmed(c)}
      PROVE  Implemented
  BY <1>c, <1>k, <1>t, SettleImplements
\* The trial is put on record, or the write fails.
<1>a. ASSUME pc = "arm", UNCHANGED current,
             pending' \in {pending, Armed(c, req.to, req.from)}
      PROVE  Implemented
  <2>1. CASE pending' = pending
    BY <1>a, <2>1, KeepImplements
  <2>2. CASE pending' = Armed(c, req.to, req.from)
    <3>1. req.from = current[c]
      BY <1>a DEF TrialInv, FromIsLive
    <3>2. req.to \in Versions
      BY <1>a DEF TrialInv, ToIsRelease
    <3> QED
      BY <1>a, <1>c, <2>2, <3>1, <3>2, ArmImplements
  <2> QED
    BY <1>a, <2>1, <2>2
\* The link moves forward, to the release on trial.
<1>f. ASSUME pc = "swap", SwapTo(c, req.to), pending' \in {pending, Confirmed(c)}
      PROVE  Implemented
  <2>1. pending[c].version = req.to /\ req.to # None
    BY <1>f, VersionsAssumption DEF TrialInv, TrialOfMove, SwapTo, IsDir
  <2>2. OnTrial(c)
    BY <1>c, <1>f, <2>1, NamedIsOnTrial
  <2> QED
    BY <1>c, <1>f, <1>t, <2>1, <2>2, SettleImplements DEF SwapTo
\* The link moves back.
<1>b. ASSUME pc = "revert", req.from # None, SwapTo(c, req.from), UNCHANGED pending
      PROVE  Implemented
  <2>1. OnTrial(c) /\ req.from \in {pending[c].previous, Golden[c]}
    BY <1>b DEF TrialInv, WayBackOnRecord
  <2> QED
    BY <1>b, <1>c, <1>t, <2>1, SettleImplements DEF SwapTo
<1>1. ASSUME StageEnds \/ Stage \/ ClearRelease \/ PublishRelease \/ PublishFails
      PROVE  Implemented
  BY <1>1, KeepImplements
    DEF StageEnds, Stage, ClearRelease, PublishRelease, PublishFails, storeVars,
        journalVars
<1>2. ASSUME Arm \/ ArmFails PROVE Implemented
  BY <1>2, <1>a DEF Arm, ArmFails, FailedWrite, storeVars
<1>3. ASSUME Swap PROVE Implemented
  BY <1>3, <1>f DEF Swap, journalVars
<1>4. ASSUME SwapFails PROVE Implemented
  <2>1. pc = "swap" /\ pending' \in {pending, Confirmed(c)}
    BY <1>4 DEF SwapFails, TryConfirm, FailedWrite
  <2> QED
    BY <1>4, <1>f, <1>k, <2>1 DEF SwapFails
<1>5. ASSUME Act \/ GatePasses \/ GateFails \/ PruneOne \/ PruneFails \/ RecordApplied
      PROVE  Implemented
  BY <1>5, KeepImplements
    DEF Act, GatePasses, GateFails, PruneOne, PruneFails, RecordApplied, storeVars,
        journalVars
<1>6. ASSUME ActFails \/ Commit \/ CommitFails \/ StuckLive \/ Disarm \/ DisarmFails
      PROVE  Implemented
  <2>1. pc \in RequestPcs /\ UNCHANGED current /\ pending' \in {pending, Confirmed(c)}
    BY <1>6
      DEF ActFails, Commit, CommitFails, StuckLive, Disarm, DisarmFails, TryConfirm,
          FailedWrite, storeVars
  <2> QED
    BY <1>k, <2>1
<1>7. ASSUME SwapBack PROVE Implemented
  BY <1>7, <1>b DEF SwapBack, journalVars
<1>8. ASSUME SwapBackFails PROVE Implemented
  BY <1>8, <1>b, KeepImplements DEF SwapBackFails
<1>9. ASSUME RecordRolledBack PROVE Implemented
  BY <1>9, KeepImplements DEF RecordRolledBack, storeVars
<1> QED
  BY <1>1, <1>2, <1>3, <1>4, <1>5, <1>6, <1>7, <1>8, <1>9 DEF MoveStep

\* Startup recovery: counting a start moves nothing, the rest confirms.
LEMMA StartupImplements ==
    ASSUME IInv, TrialInv, StartupStep
    PROVE  Implemented
<1>t. TrialBracketsLive
  BY DEF TrialInv
<1>p. pending \in [Components -> Trials]
  BY DEF IInv, TypeInv, TypeOK, JournalTypeOK
<1>1. ASSUME Start \/ RecordRescue \/ RemoveCrumb \/ PublishGolden \/ Serve
      PROVE  Implemented
  BY <1>1, KeepImplements
    DEF Start, RecordRescue, RemoveCrumb, PublishGolden, Serve, storeVars, journalVars
<1>2. ASSUME ClearRescuedTrial PROVE Implemented
  <2>1. CASE crumb.comp = None
    BY <1>2, <2>1, KeepImplements DEF ClearRescuedTrial, storeVars
  <2>2. CASE crumb.comp # None
    <3>1. crumb.comp \in Components
      BY <2>2 DEF IInv, TypeInv, TypeOK, JournalTypeOK, Crumbs
    <3> QED
      BY <1>2, <1>t, <2>2, <3>1, SettleImplements
        DEF ClearRescuedTrial, TryConfirm, FailedWrite, storeVars
  <2> QED
    BY <2>1, <2>2
<1>3. ASSUME UNCHANGED current, pending' \in {pending, BootsRecorded}
      PROVE  Implemented
  <2>1. CASE pending' = pending
    BY <1>3, <2>1, KeepImplements
  <2>2. CASE pending' = BootsRecorded
    <3>1. \A c \in Components :
            /\ pending'[c].version = pending[c].version
            /\ pending'[c].previous = pending[c].previous
            /\ pending[c] = NoTrial <=> pending'[c] = NoTrial
      BY <1>p, <2>2, BootsValues
    <3>2. TrialOnRecord' = TrialOnRecord
      BY <3>1 DEF TrialOnRecord, OnTrial
    <3> QED
      BY <1>3, <3>2 DEF Implemented, Promised!abstractVars
  <2> QED
    BY <1>3, <2>1, <2>2
<1>4. ASSUME CountBoot \/ CountBootFails PROVE Implemented
  BY <1>3, <1>4 DEF CountBoot, CountBootFails, FailedWrite, storeVars
<1>5. ASSUME NEW c \in Components, CommitTrial(c) \/ CommitTrialFails(c)
      PROVE  Implemented
  BY <1>5, <1>t, SettleImplements
    DEF CommitTrial, CommitTrialFails, FailedWrite, storeVars
<1>6. ASSUME NEW c \in Components, RevertTrial(c) PROVE Implemented
  BY <1>6, KeepImplements DEF RevertTrial, storeVars, journalVars
<1> QED
  BY <1>1, <1>2, <1>4, <1>5, <1>6 DEF StartupStep

\* A request that begins moves nothing yet; a process that dies, nothing at all.
LEMMA OthersImplement ==
    ASSUME ClientStep \/ Die \/ UNCHANGED vars
    PROVE  Implemented
<1>1. UNCHANGED <<current, pending>>
  <2>1. CASE ClientStep
    BY <2>1
      DEF ClientStep, ApplyRefused, ApplyAccepted, Select, Rollback, ResetToGolden,
          SetPin, Begin, storeVars, journalVars
  <2>2. CASE Die \/ UNCHANGED vars
    BY <2>2 DEF Die, vars, storeVars, journalVars
  <2> QED
    BY <2>1, <2>2
<1> QED
  BY <1>1, KeepImplements

-----------------------------------------------------------------------------
(* The refinement.                                                         *)

\* The engine implements ReleaseTrial: with any components and releases, no
\* request, revert, startup recovery, crash or failed write moves what is live
\* but as a trial on record says (engine.rs, "armed before the swap").
THEOREM EngineImplementsReleaseTrial == Spec => ImplementsReleaseTrial
<1>1. Init => Promised!AbstractInit
  BY DEF Init, StoreInit, JournalInit, Promised!AbstractInit, TrialOnRecord, OnTrial
<1>2. IInv /\ TrialInv /\ [Next]_vars
        => [Promised!AbstractNext]_(Promised!abstractVars)
  BY MoveImplements, StartupImplements, OthersImplement DEF Next, Implemented
<1> QED
  BY <1>1, <1>2, IInvHolds, TrialInvHolds, PTL
    DEF Spec, ImplementsReleaseTrial, Promised!AbstractSpec

=============================================================================
