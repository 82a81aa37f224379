------------------------- MODULE ManagedWorktree_proofs -------------------------
(***************************************************************************)
(* Proofs about ManagedWorktree for any number of processes, tasks and     *)
(* commits.  IInv says what the holder of the lock knows at each step, and *)
(* what an --abort that does not hold it cannot disturb.                   *)
(***************************************************************************)
EXTENDS ManagedWorktree, TLAPS

\* Whoever is under the lock has it, alone.
LockInv ==
  /\ \A p \in Procs : pc[p] \in Locked => lock
  /\ LockExclusive

\* A registered worktree pins its branch: git deletes no branch that one has
\* checked out.
TreeInv == \A t \in Tasks : tree[t] # "none" => branch[t]

\* What the holder knows of the task's record and worktree.
HolderInv ==
  \A p \in Procs :
    /\ pc[p] \in {"branch", "tree", "treeLock", "newSave"} => rec[task[p]] = "none"
    /\ pc[p] = "newSave" => tree[task[p]] = "locked"
    /\ pc[p] \in CleanSteps => rec[task[p]] \in Cleanable

\* The main branch has no more of a branch than there is.
MergedInv ==
  /\ \A t \in Tasks : merged[t] <= made[t]
  /\ \A p \in Procs : pc[p] = "validate" => \A t \in Tasks : orig[t] <= made[t]

\* ORIG_HEAD is where the holder found the main branch, and what it merged is
\* in it until it is done.
OrigInv ==
  \A p \in Procs :
    /\ pc[p] = "merge" => merged = before[p]
    /\ pc[p] = "validate" => orig = before[p]
    /\ pc[p] \in {"validate", "activate", "mergeSave"} => tip[p] <= merged[task[p]]

\* Going back to ORIG_HEAD keeps every promise.
PromiseInv ==
  /\ IntegratedStaysMerged
  /\ \A p \in Procs : pc[p] = "validate" =>
       \A t \in Tasks : rec[t] = "integrated" => orig[t] >= promised[t]

Holding == LockInv /\ TreeInv /\ HolderInv /\ RecordHasWorktree
Main    == MergedInv /\ OrigInv /\ PromiseInv

IInv == TypeOK /\ Holding /\ Main

LEMMA InitEstablishes == Init => IInv
<1> SUFFICES ASSUME Init PROVE IInv
  OBVIOUS
<1> USE ConstantsAssumption DEF Init, NoCommits
<1>0. SomeTask \in Tasks
  BY DEF SomeTask
<1>1. TypeOK
  <2>1. NoCommits \in [Tasks -> 0..MaxCommits]
    OBVIOUS
  <2>2. before \in [Procs -> [Tasks -> 0..MaxCommits]]
    BY <2>1
  <2> QED
    BY <1>0, <2>2 DEF TypeOK, States, Ops, Steps
<1>2. Holding
  BY DEF Holding, LockInv, LockExclusive, TreeInv, HolderInv, RecordHasWorktree,
     Locked, NewSteps, CleanSteps, MergeSteps
<1>3. Main
  BY DEF Main, MergedInv, OrigInv, PromiseInv, IntegratedStaysMerged
<1> QED
  BY <1>1, <1>2, <1>3 DEF IInv

LocalsOK ==
  /\ pc \in [Procs -> Steps] /\ op \in [Procs -> Ops] /\ task \in [Procs -> Tasks]
  /\ tip \in [Procs -> 0..MaxCommits]
  /\ before \in [Procs -> [Tasks -> 0..MaxCommits]]

SharedOK ==
  /\ rec \in [Tasks -> States]
  /\ branch \in [Tasks -> BOOLEAN] /\ dir \in [Tasks -> BOOLEAN]
  /\ tree \in [Tasks -> {"none", "plain", "locked"}]
  /\ made \in [Tasks -> 0..MaxCommits]
  /\ merged \in [Tasks -> 0..MaxCommits] /\ orig \in [Tasks -> 0..MaxCommits]
  /\ conflict \in BOOLEAN /\ lock \in BOOLEAN
  /\ promised \in [Tasks -> 0..MaxCommits]

\* A process that ends is idle and knows nothing.
LEMMA ForgetTypes ==
  \A p \in Procs : TypeOK /\ Forget(p) => LocalsOK'
<1> SUFFICES ASSUME NEW p \in Procs, TypeOK, Forget(p) PROVE LocalsOK'
  OBVIOUS
<1>1. NoCommits \in [Tasks -> 0..MaxCommits]
  BY ConstantsAssumption DEF NoCommits
<1>2. SomeTask \in Tasks
  BY ConstantsAssumption DEF SomeTask
<1>3. before' \in [Procs -> [Tasks -> 0..MaxCommits]]
  BY <1>1 DEF TypeOK, Forget
<1> QED
  BY <1>2, <1>3, ConstantsAssumption DEF TypeOK, Forget, Goto, LocalsOK, Steps, Ops

LEMMA GotoTypes ==
  \A p \in Procs, s \in Steps :
    TypeOK /\ Goto(p, s) /\ UNCHANGED procVars => LocalsOK'
BY DEF TypeOK, Goto, procVars, LocalsOK

\* Unlocking the worktree of a task that is done touches no unfinished one.
LEMMA UnlockKeeps ==
  ASSUME TreeInv, RecordHasWorktree, NEW t0 \in Tasks, rec[t0] \in Cleanable,
         UNCHANGED <<rec, branch>>,
         \A t \in Tasks : /\ t # t0 => tree'[t] = tree[t]
                          /\ tree'[t] = "none" <=> tree[t] = "none"
  PROVE  TreeInv' /\ RecordHasWorktree'
BY DEF TreeInv, RecordHasWorktree, Cleanable

\* The types of the locals.
LEMMA StepLocals ==
  ASSUME IInv, NEW p \in Procs, Step(p)
  PROVE  LocalsOK'
<1> USE ConstantsAssumption
    DEF IInv, TypeOK, LocalsOK, Ops, Steps, Locked, NewSteps, CleanSteps, MergeSteps,
        Continue, Return, Save, procVars
<1>1. CASE Gate(p)
  BY <1>1, ForgetTypes, GotoTypes DEF Gate
<1>2. CASE DiscardTree(p)
  BY <1>2, ForgetTypes, GotoTypes DEF DiscardTree
<1>3. CASE DiscardBranch(p)
  BY <1>3, ForgetTypes, GotoTypes DEF DiscardBranch, BranchDeleted
<1>4. CASE Acquire(p)
  <2>1. FirstStep(op[p]) \in Steps
    BY DEF FirstStep
  <2>2. pc' \in [Procs -> Steps]
    BY <1>4, <2>1 DEF Acquire, Goto
  <2>3. before' \in [Procs -> [Tasks -> 0..MaxCommits]]
    BY <1>4 DEF Acquire
  <2> QED
    BY <1>4, <2>2, <2>3 DEF Acquire
<1>5. CASE Load(p)
  BY <1>5, ForgetTypes, GotoTypes DEF Load
<1>6. CASE CreateBranch(p)
  BY <1>6, ForgetTypes, GotoTypes DEF CreateBranch
<1>7. CASE AddTree(p)
  BY <1>7, ForgetTypes, GotoTypes DEF AddTree
<1>8. CASE AddTreeFails(p)
  BY <1>8, ForgetTypes, GotoTypes DEF AddTreeFails, BranchDeleted
<1>9. CASE LockTree(p)
  BY <1>9, ForgetTypes, GotoTypes DEF LockTree
<1>10. CASE NewSave(p)
  BY <1>10, ForgetTypes, GotoTypes DEF NewSave
<1>11. CASE SessionEnds(p)
  BY <1>11, ForgetTypes, GotoTypes DEF SessionEnds
<1>12. CASE Ready(p)
  BY <1>12, ForgetTypes, GotoTypes DEF Ready, Transitions
<1>13. CASE Abandon(p)
  BY <1>13, ForgetTypes, GotoTypes DEF Abandon, Transitions
<1>14. CASE Clean(p)
  BY <1>14, ForgetTypes, GotoTypes DEF Clean, Cleanable
<1>15. CASE UnlockTree(p)
  BY <1>15, ForgetTypes, GotoTypes DEF UnlockTree
<1>16. CASE RemoveTree(p)
  BY <1>16, ForgetTypes, GotoTypes DEF RemoveTree
<1>17. CASE DeleteBranch(p)
  BY <1>17, ForgetTypes, GotoTypes DEF DeleteBranch
<1>18. CASE RemoveRecord(p)
  BY <1>18, ForgetTypes, GotoTypes DEF RemoveRecord
<1>19. CASE Merge(p)
  <2>1. pc' \in [Procs -> Steps]
    BY <1>19 DEF Merge, Goto
  <2> QED
    BY <1>19, <2>1 DEF Merge
<1>20. CASE MergeConflicts(p)
  BY <1>20, ForgetTypes, GotoTypes DEF MergeConflicts
<1>21. CASE ValidationFails(p)
  BY <1>21, ForgetTypes, GotoTypes DEF ValidationFails, Rollback, RollbackFails, RolledBack
<1>22. CASE Validated(p)
  <2>1. CASE Continue(p, "mergeSave")
    BY <1>22, <2>1, ForgetTypes, GotoTypes DEF Validated
  <2>2. CASE Continue(p, "activate")
    BY <1>22, <2>2, ForgetTypes, GotoTypes DEF Validated
  <2> QED
    BY <1>22, <2>1, <2>2 DEF Validated
<1>23. CASE Activated(p)
  BY <1>23, ForgetTypes, GotoTypes DEF Activated
<1>24. CASE MergeSave(p)
  BY <1>24, ForgetTypes, GotoTypes DEF MergeSave
<1>25. CASE Refused(p)
  BY <1>25, ForgetTypes, GotoTypes DEF Refused
<1>26. CASE Error(p)
  BY <1>26, ForgetTypes, GotoTypes DEF Error, Cleanable
<1>27. CASE Prune(p)
  BY <1>27, ForgetTypes, GotoTypes DEF Prune
<1>28. CASE PruneFails(p)
  BY <1>28, ForgetTypes, GotoTypes DEF PruneFails
<1> QED
  BY <1>1, <1>2, <1>3, <1>4, <1>5, <1>6, <1>7, <1>8, <1>9, <1>10, <1>11, <1>12,
     <1>13, <1>14, <1>15, <1>16, <1>17, <1>18, <1>19, <1>20, <1>21, <1>22, <1>23, <1>24, <1>25, <1>26, <1>27, <1>28
  DEF Step

\* The types of what the processes share.
LEMMA StepShared ==
  ASSUME IInv, NEW p \in Procs, Step(p)
  PROVE  SharedOK'
<1> USE ConstantsAssumption
    DEF IInv, TypeOK, SharedOK, States, Continue, Return, Save, git, mainVars
<1>1. CASE Gate(p)
  BY <1>1 DEF Gate
<1>2. CASE DiscardTree(p)
  BY <1>2 DEF DiscardTree
<1>3. CASE DiscardBranch(p)
  BY <1>3 DEF DiscardBranch, BranchDeleted
<1>4. CASE Acquire(p)
  BY <1>4 DEF Acquire, FirstStep
<1>5. CASE Load(p)
  BY <1>5 DEF Load
<1>6. CASE CreateBranch(p)
  BY <1>6 DEF CreateBranch
<1>7. CASE AddTree(p)
  BY <1>7 DEF AddTree
<1>8. CASE AddTreeFails(p)
  BY <1>8 DEF AddTreeFails, BranchDeleted
<1>9. CASE LockTree(p)
  BY <1>9 DEF LockTree
<1>10. CASE NewSave(p)
  BY <1>10 DEF NewSave
<1>11. CASE SessionEnds(p)
  BY <1>11 DEF SessionEnds
<1>12. CASE Ready(p)
  BY <1>12 DEF Ready, Transitions
<1>13. CASE Abandon(p)
  BY <1>13 DEF Abandon, Transitions
<1>14. CASE Clean(p)
  BY <1>14 DEF Clean, Cleanable
<1>15. CASE UnlockTree(p)
  BY <1>15 DEF UnlockTree
<1>16. CASE RemoveTree(p)
  BY <1>16 DEF RemoveTree
<1>17. CASE DeleteBranch(p)
  BY <1>17 DEF DeleteBranch
<1>18. CASE RemoveRecord(p)
  BY <1>18 DEF RemoveRecord
<1>19. CASE Merge(p)
  BY <1>19 DEF Merge
<1>20. CASE MergeConflicts(p)
  BY <1>20 DEF MergeConflicts
<1>21. CASE ValidationFails(p)
  BY <1>21 DEF ValidationFails, Rollback, RollbackFails, RolledBack
<1>22. CASE Validated(p)
  BY <1>22 DEF Validated
<1>23. CASE Activated(p)
  BY <1>23 DEF Activated
<1>24. CASE MergeSave(p)
  BY <1>24 DEF MergeSave
<1>25. CASE Refused(p)
  BY <1>25 DEF Refused
<1>26. CASE Error(p)
  BY <1>26 DEF Error, Cleanable
<1>27. CASE Prune(p)
  BY <1>27 DEF Prune
<1>28. CASE PruneFails(p)
  BY <1>28 DEF PruneFails
<1> QED
  BY <1>1, <1>2, <1>3, <1>4, <1>5, <1>6, <1>7, <1>8, <1>9, <1>10, <1>11, <1>12,
     <1>13, <1>14, <1>15, <1>16, <1>17, <1>18, <1>19, <1>20, <1>21, <1>22, <1>23, <1>24, <1>25, <1>26, <1>27, <1>28
  DEF Step

\* The lock, the records and the worktrees.
LEMMA StepHolding ==
  ASSUME IInv, NEW p \in Procs, Step(p)
  PROVE  Holding'
<1> USE ConstantsAssumption
    DEF IInv, TypeOK, Holding, LockInv, LockExclusive, TreeInv, HolderInv,
        RecordHasWorktree, Locked, NewSteps,
        CleanSteps, MergeSteps, Cleanable,
        Goto, Continue, Return, Forget, Save, git, mainVars, procVars
<1>1. CASE Gate(p)
  BY <1>1 DEF Gate
<1>2. CASE DiscardTree(p)
  BY <1>2 DEF DiscardTree
<1>3. CASE DiscardBranch(p)
  BY <1>3 DEF DiscardBranch, BranchDeleted
<1>4. CASE Acquire(p)
  <2>1. op[p] \in Ops
    OBVIOUS
  <2>2. FirstStep(op[p]) \in {"load", "ready", "abandon", "clean", "merge", "prune"}
    BY <2>1 DEF FirstStep, Ops
  <2> QED
    BY <1>4, <2>2 DEF Acquire
<1>5. CASE Load(p)
  BY <1>5 DEF Load
<1>6. CASE CreateBranch(p)
  BY <1>6 DEF CreateBranch
<1>7. CASE AddTree(p)
  BY <1>7 DEF AddTree
<1>8. CASE AddTreeFails(p)
  BY <1>8 DEF AddTreeFails, BranchDeleted
<1>9. CASE LockTree(p)
  BY <1>9 DEF LockTree
<1>10. CASE NewSave(p)
  BY <1>10 DEF NewSave
<1>11. CASE SessionEnds(p)
  BY <1>11 DEF SessionEnds
<1>12. CASE Ready(p)
  BY <1>12 DEF Ready, Transitions
<1>13. CASE Abandon(p)
  BY <1>13 DEF Abandon, Transitions
<1>14. CASE Clean(p)
  BY <1>14 DEF Clean, Cleanable
<1>15. CASE UnlockTree(p)
  <2>1. LockInv' /\ HolderInv'
    BY <1>15 DEF UnlockTree
  <2>2. \A t \in Tasks : /\ t # task[p] => tree'[t] = tree[t]
                         /\ tree'[t] = "none" <=> tree[t] = "none"
    <3>1. CASE UNCHANGED tree
      BY <3>1
    <3>2. CASE tree' = [tree EXCEPT ![task[p]] = IF @ = "locked" THEN "plain" ELSE @]
      BY <3>2
    <3> QED
      BY <1>15, <3>1, <3>2 DEF UnlockTree
  <2>3. UNCHANGED <<rec, branch>> /\ rec[task[p]] \in Cleanable
    BY <1>15 DEF UnlockTree
  <2>4. TreeInv' /\ RecordHasWorktree'
    BY <2>2, <2>3, UnlockKeeps
  <2> QED
    BY <2>1, <2>4
<1>16. CASE RemoveTree(p)
  BY <1>16 DEF RemoveTree
<1>17. CASE DeleteBranch(p)
  BY <1>17 DEF DeleteBranch
<1>18. CASE RemoveRecord(p)
  BY <1>18 DEF RemoveRecord
<1>19. CASE Merge(p)
  BY <1>19 DEF Merge
<1>20. CASE MergeConflicts(p)
  BY <1>20 DEF MergeConflicts
<1>21. CASE ValidationFails(p)
  <2>1. CASE Rollback(p)
    BY <1>21, <2>1 DEF Rollback, RolledBack
  <2>2. CASE RollbackFails(p)
    BY <1>21, <2>2 DEF RollbackFails
  <2> QED
    BY <1>21, <2>1, <2>2 DEF ValidationFails
<1>22. CASE Validated(p)
  <2>1. CASE Continue(p, "mergeSave")
    BY <1>22, <2>1 DEF Validated
  <2>2. CASE Continue(p, "activate")
    BY <1>22, <2>2 DEF Validated
  <2> QED
    BY <1>22, <2>1, <2>2 DEF Validated
<1>23. CASE Activated(p)
  BY <1>23 DEF Activated
<1>24. CASE MergeSave(p)
  BY <1>24 DEF MergeSave
<1>25. CASE Refused(p)
  BY <1>25 DEF Refused
<1>26. CASE Error(p)
  BY <1>26 DEF Error, Cleanable
<1>27. CASE Prune(p)
  BY <1>27 DEF Prune
<1>28. CASE PruneFails(p)
  BY <1>28 DEF PruneFails
<1> QED
  BY <1>1, <1>2, <1>3, <1>4, <1>5, <1>6, <1>7, <1>8, <1>9, <1>10, <1>11, <1>12,
     <1>13, <1>14, <1>15, <1>16, <1>17, <1>18, <1>19, <1>20, <1>21, <1>22, <1>23, <1>24, <1>25, <1>26, <1>27, <1>28
  DEF Step

\* The main branch.
LEMMA StepMain ==
  ASSUME IInv, NEW p \in Procs, Step(p)
  PROVE  Main'
<1> USE ConstantsAssumption
    DEF IInv, TypeOK, Holding, LockInv, LockExclusive, HolderInv, Main, MergedInv,
        OrigInv, PromiseInv, IntegratedStaysMerged, Locked,
        NewSteps, CleanSteps, MergeSteps,
        Goto, Continue, Return, Forget, Save, git, mainVars, procVars
<1>1. CASE Gate(p)
  BY <1>1 DEF Gate
<1>2. CASE DiscardTree(p)
  BY <1>2 DEF DiscardTree
<1>3. CASE DiscardBranch(p)
  BY <1>3 DEF DiscardBranch, BranchDeleted
<1>4. CASE Acquire(p)
  <2>1. op[p] \in Ops
    OBVIOUS
  <2>2. FirstStep(op[p]) \in {"load", "ready", "abandon", "clean", "merge", "prune"}
    BY <2>1 DEF FirstStep, Ops
  <2> QED
    BY <1>4, <2>2 DEF Acquire
<1>5. CASE Load(p)
  BY <1>5 DEF Load
<1>6. CASE CreateBranch(p)
  BY <1>6 DEF CreateBranch
<1>7. CASE AddTree(p)
  BY <1>7 DEF AddTree
<1>8. CASE AddTreeFails(p)
  BY <1>8 DEF AddTreeFails, BranchDeleted
<1>9. CASE LockTree(p)
  BY <1>9 DEF LockTree
<1>10. CASE NewSave(p)
  BY <1>10 DEF NewSave
<1>11. CASE SessionEnds(p)
  BY <1>11 DEF SessionEnds
<1>12. CASE Ready(p)
  BY <1>12 DEF Ready, Transitions
<1>13. CASE Abandon(p)
  BY <1>13 DEF Abandon, Transitions
<1>14. CASE Clean(p)
  BY <1>14 DEF Clean, Cleanable
<1>15. CASE UnlockTree(p)
  BY <1>15 DEF UnlockTree
<1>16. CASE RemoveTree(p)
  BY <1>16 DEF RemoveTree
<1>17. CASE DeleteBranch(p)
  BY <1>17 DEF DeleteBranch
<1>18. CASE RemoveRecord(p)
  BY <1>18 DEF RemoveRecord
<1>19. CASE Merge(p)
  BY <1>19 DEF Merge
<1>20. CASE MergeConflicts(p)
  BY <1>20 DEF MergeConflicts
<1>21. CASE ValidationFails(p)
  <2>1. CASE Rollback(p)
    BY <1>21, <2>1 DEF Rollback, RolledBack
  <2>2. CASE RollbackFails(p)
    BY <1>21, <2>2 DEF RollbackFails
  <2> QED
    BY <1>21, <2>1, <2>2 DEF ValidationFails
<1>22. CASE Validated(p)
  BY <1>22 DEF Validated
<1>23. CASE Activated(p)
  BY <1>23 DEF Activated
<1>24. CASE MergeSave(p)
  BY <1>24 DEF MergeSave
<1>25. CASE Refused(p)
  BY <1>25 DEF Refused
<1>26. CASE Error(p)
  BY <1>26 DEF Error, Cleanable
<1>27. CASE Prune(p)
  BY <1>27 DEF Prune
<1>28. CASE PruneFails(p)
  BY <1>28 DEF PruneFails
<1> QED
  BY <1>1, <1>2, <1>3, <1>4, <1>5, <1>6, <1>7, <1>8, <1>9, <1>10, <1>11, <1>12,
     <1>13, <1>14, <1>15, <1>16, <1>17, <1>18, <1>19, <1>20, <1>21, <1>22, <1>23, <1>24, <1>25, <1>26, <1>27, <1>28
  DEF Step

\* A killed process leaves the lock and everything else as it is.
LEMMA KillKeeps ==
  ASSUME IInv, NEW p \in Procs, Kill(p)
  PROVE  IInv'
<1> USE ConstantsAssumption DEF Kill, Forget, Goto, git, mainVars, NoCommits
<1>0. SomeTask \in Tasks
  BY DEF SomeTask
<1>1. TypeOK'
  BY <1>0 DEF IInv, TypeOK, Ops, Steps
<1>2. Holding'
  BY DEF IInv, TypeOK, Holding, LockInv, LockExclusive, TreeInv, HolderInv,
     RecordHasWorktree, Locked, NewSteps, CleanSteps, MergeSteps
<1>3. Main'
  BY DEF IInv, TypeOK, Main, MergedInv, OrigInv, PromiseInv, IntegratedStaysMerged
<1> QED
  BY <1>1, <1>2, <1>3 DEF IInv

LEMMA BeginKeeps ==
  ASSUME IInv, NEW p \in Procs, NEW o \in Ops, NEW t \in Tasks, Begin(p, o, t)
  PROVE  IInv'
<1> USE ConstantsAssumption DEF Begin, Goto, git, mainVars
<1>1. TypeOK'
  BY DEF IInv, TypeOK, Ops, Steps
<1>2. Holding'
  BY DEF IInv, TypeOK, Holding, LockInv, LockExclusive, TreeInv, HolderInv,
     RecordHasWorktree, Locked, NewSteps, CleanSteps, MergeSteps
<1>3. Main'
  BY DEF IInv, TypeOK, Main, MergedInv, OrigInv, PromiseInv, IntegratedStaysMerged
<1> QED
  BY <1>1, <1>2, <1>3 DEF IInv

\* The agent and the operator.
LEMMA OutsideKeeps ==
  ASSUME IInv, (\E t \in Tasks : Commit(t)) \/ AbortMerge \/ RecoverLock
  PROVE  IInv'
<1> USE ConstantsAssumption
    DEF IInv, TypeOK, Holding, LockInv, LockExclusive, TreeInv, HolderInv,
        RecordHasWorktree, Main, MergedInv, OrigInv, PromiseInv,
        IntegratedStaysMerged, git, mainVars, procVars
<1>1. CASE \E t \in Tasks : Commit(t)
  BY <1>1 DEF Commit
<1>2. CASE AbortMerge
  BY <1>2 DEF AbortMerge
<1>3. CASE RecoverLock
  BY <1>3 DEF RecoverLock, Locked, NewSteps, CleanSteps, MergeSteps
<1> QED
  BY <1>1, <1>2, <1>3

LEMMA Invariance == Spec => []IInv
<1>1. IInv /\ [Next]_vars => IInv'
  <2> SUFFICES ASSUME IInv, [Next]_vars PROVE IInv'
    OBVIOUS
  <2>1. CASE \E p \in Procs : Step(p)
    BY <2>1, StepLocals, StepShared, StepHolding, StepMain
    DEF IInv, TypeOK, LocalsOK, SharedOK
  <2>2. CASE \E p \in Procs : Kill(p)
    BY <2>2, KillKeeps
  <2>3. CASE \E p \in Procs, o \in Ops, t \in Tasks : Begin(p, o, t)
    BY <2>3, BeginKeeps
  <2>4. CASE (\E t \in Tasks : Commit(t)) \/ AbortMerge \/ RecoverLock
    BY <2>4, OutsideKeeps
  <2>5. CASE UNCHANGED vars
    BY <2>5 DEF vars, IInv, TypeOK, Holding, LockInv, LockExclusive, TreeInv, HolderInv,
       RecordHasWorktree, Main, MergedInv, OrigInv, PromiseInv, IntegratedStaysMerged
  <2> QED
    BY <2>1, <2>2, <2>3, <2>4, <2>5 DEF Next
<1> QED
  BY InitEstablishes, <1>1, PTL DEF Spec

\* Every variable has its type, for any processes, tasks and commits.
THEOREM TypeCorrect == Spec => []TypeOK
<1>1. IInv => TypeOK
  BY DEF IInv
<1> QED
  BY <1>1, Invariance, PTL

\* AcquireLock and Release: two lifecycle operations never run at once.
THEOREM LockExclusiveAlways == Spec => []LockExclusive
<1>1. IInv => LockExclusive
  BY DEF IInv, Holding, LockInv
<1> QED
  BY <1>1, Invariance, PTL

\* managedStart and cmdAbort: an unfinished task keeps its branch and worktree.
THEOREM RecordHasWorktreeAlways == Spec => []RecordHasWorktree
<1>1. IInv => RecordHasWorktree
  BY DEF IInv, Holding
<1> QED
  BY <1>1, Invariance, PTL

\* managedIntegrate: integrated work stays in the main branch.
THEOREM IntegratedStaysMergedAlways == Spec => []IntegratedStaysMerged
<1>1. IInv => IntegratedStaysMerged
  BY DEF IInv, Main, PromiseInv
<1> QED
  BY <1>1, Invariance, PTL

\* managedIntegrate: a reset that git does after a failed validation leaves the
\* main branch as the command found it.  It says nothing of a reset that fails.
THEOREM RollbackRestoresAlways == Spec => RollbackRestores
<1>1. ASSUME IInv, [Next]_vars
      PROVE  [\A p \in Procs : Rollback(p) => merged' = before[p]]_vars
  BY <1>1 DEF IInv, Main, OrigInv, Rollback, RolledBack
<1> QED
  BY <1>1, Invariance, PTL DEF Spec, RollbackRestores
=============================================================================
