---------------------------- MODULE ManagedWorktree ----------------------------
(***************************************************************************)
(* The lifecycle of managed agent worktrees (cmd/code-work/managed.go,     *)
(* internal/managedworktree).                                              *)
(*                                                                         *)
(* code-work processes create, complete, abandon, merge and clean tasks.   *)
(* They share a record file, a branch and a worktree per task, the main    *)
(* checkout, and a lock that is a directory: it outlives a holder that is  *)
(* killed, until an operator removes it.  A process that finds the lock    *)
(* taken gives up at once.  Every git call and every file operation under  *)
(* the lock is a step that may fail; a process may be killed before any.   *)
(*                                                                         *)
(* Abstracted: a branch is the number of commits it has added since it was *)
(* created, and the main branch is, per task, how many of those it has;    *)
(* working trees are clean between commits; the check command, which runs  *)
(* nix in a worktree, changes nothing here.  The older --abort command     *)
(* does not know of records and takes the lock only for its prune; it is   *)
(* here because it may be pointed at a managed worktree.                   *)
(***************************************************************************)
EXTENDS Naturals

CONSTANTS
  Procs,        \* code-work processes
  Tasks,        \* valid task identifiers
  MaxCommits,   \* bound: commits an agent adds to one branch
  Activation    \* merge may be asked to activate the result

ASSUME ConstantsAssumption ==
  MaxCommits \in Nat /\ Activation \in BOOLEAN /\ Procs # {} /\ Tasks # {}

VARIABLES
  rec,       \* state in the task's record, "none" without one
  branch,    \* the task's branch exists
  tree,      \* how git knows the task's worktree: not, plainly, or locked
  dir,       \* the worktree's directory exists
  made,      \* commits on the branch
  merged,    \* how many of them the main branch has
  orig,      \* ORIG_HEAD of the main checkout
  conflict,  \* the main checkout is in a conflicted merge
  lock,      \* the directory managed-worktrees/.lock exists
  pc, op, task, tip,  \* locals of each process
  before,    \* history: the main branch when the process took the lock
  promised   \* history: commits merged when the record became integrated

git      == <<branch, tree, dir, made>>
mainVars == <<merged, orig, conflict>>
procVars == <<op, task, tip, before>>
vars == <<rec, branch, tree, dir, made, merged, orig, conflict, lock, pc, op,
          task, tip, before, promised>>

Ops       == {"new", "ready", "abandon", "clean", "merge", "prune", "discard"}
NewSteps  == {"load", "branch", "tree", "treeLock", "newSave", "session"}
CleanSteps == {"unlock", "remove", "branchD", "forget"}
MergeSteps == {"merge", "validate", "activate", "mergeSave"}
Locked    == {"ready", "abandon", "clean", "prune"} \cup NewSteps \cup CleanSteps
               \cup MergeSteps
Steps     == {"idle", "gate", "discard", "discardBranch", "acquire"} \cup Locked
States    == {"none", "active", "ready", "integrated", "abandoned"}

TypeOK ==
  /\ rec \in [Tasks -> States]
  /\ branch \in [Tasks -> BOOLEAN] /\ dir \in [Tasks -> BOOLEAN]
  /\ tree \in [Tasks -> {"none", "plain", "locked"}]
  /\ made \in [Tasks -> 0..MaxCommits]
  /\ merged \in [Tasks -> 0..MaxCommits] /\ orig \in [Tasks -> 0..MaxCommits]
  /\ conflict \in BOOLEAN /\ lock \in BOOLEAN
  /\ pc \in [Procs -> Steps] /\ op \in [Procs -> Ops] /\ task \in [Procs -> Tasks]
  /\ tip \in [Procs -> 0..MaxCommits]
  /\ before \in [Procs -> [Tasks -> 0..MaxCommits]]
  /\ promised \in [Tasks -> 0..MaxCommits]

NoCommits == [t \in Tasks |-> 0]
SomeTask  == CHOOSE t \in Tasks : TRUE

Init ==
  /\ rec = [t \in Tasks |-> "none"]
  /\ branch = [t \in Tasks |-> FALSE] /\ dir = [t \in Tasks |-> FALSE]
  /\ tree = [t \in Tasks |-> "none"]
  /\ made = NoCommits /\ merged = NoCommits /\ orig = NoCommits
  /\ conflict = FALSE /\ lock = FALSE
  /\ pc = [p \in Procs |-> "idle"] /\ op = [p \in Procs |-> "new"]
  /\ task = [p \in Procs |-> SomeTask] /\ tip = [p \in Procs |-> 0]
  /\ before = [p \in Procs |-> NoCommits] /\ promised = NoCommits

Goto(p, s) == pc' = [pc EXCEPT ![p] = s]

\* Next step of a process whose other locals stay as they are.
Continue(p, s) == Goto(p, s) /\ UNCHANGED <<lock, procVars>>

Forget(p) ==
  /\ Goto(p, "idle")
  /\ op' = [op EXCEPT ![p] = "new"]
  /\ task' = [task EXCEPT ![p] = SomeTask]
  /\ tip' = [tip EXCEPT ![p] = 0]
  /\ before' = [before EXCEPT ![p] = NoCommits]

\* The deferred Release removes the lock directory, whoever made it.
Return(p) == Forget(p) /\ lock' = FALSE

Save(t, s) == rec' = [rec EXCEPT ![t] = s]

(***************************************************************************)
(* The agent, and the operator at the main checkout                        *)
(***************************************************************************)
Commit(t) ==
  /\ dir[t] /\ made[t] < MaxCommits
  /\ made' = [made EXCEPT ![t] = @ + 1]
  /\ UNCHANGED <<rec, branch, tree, dir, mainVars, lock, pc, procVars, promised>>

\* git merge --abort.
AbortMerge ==
  /\ conflict
  /\ conflict' = FALSE
  /\ UNCHANGED <<rec, git, merged, orig, lock, pc, procVars, promised>>

\* recover-lock, once the operator has made sure that nothing is running.
RecoverLock ==
  /\ lock /\ \A p \in Procs : pc[p] = "idle"
  /\ lock' = FALSE
  /\ UNCHANGED <<rec, git, mainVars, pc, procVars, promised>>

(***************************************************************************)
(* Commands                                                                *)
(***************************************************************************)
\* new and merge want a clean main checkout before anything else.
Begin(p, o, t) ==
  /\ pc[p] = "idle" /\ (o \in {"new", "merge"} => ~conflict)
  /\ op' = [op EXCEPT ![p] = o]
  /\ task' = [task EXCEPT ![p] = t]
  /\ Goto(p, CASE o = "merge" -> "gate" [] o = "discard" -> "discard"
                [] OTHER -> "acquire")
  /\ UNCHANGED <<rec, git, mainVars, lock, tip, before, promised>>

\* merge loads the record and checks its state before it takes the lock.
Gate(p) ==
  /\ pc[p] = "gate" /\ rec[task[p]] = "ready"
  /\ Goto(p, "acquire")
  /\ UNCHANGED <<rec, git, mainVars, lock, procVars, promised>>

\* --abort removes a plain worktree with git; of a locked one it removes the
\* directory, and git keeps the registration.
DiscardTree(p) ==
  LET t == task[p] IN
  /\ pc[p] = "discard" /\ dir[t]
  /\ dir' = [dir EXCEPT ![t] = FALSE]
  /\ tree' = [tree EXCEPT ![t] = IF @ = "plain" THEN "none" ELSE @]
  /\ Continue(p, "discardBranch")
  /\ UNCHANGED <<rec, branch, made, mainVars, promised>>

\* git branch -D refuses a branch that a registered worktree has checked out.
BranchDeleted(t) ==
  branch' = [branch EXCEPT ![t] = branch[t] /\ tree[t] # "none"]

DiscardBranch(p) ==
  /\ pc[p] = "discardBranch"
  /\ BranchDeleted(task[p])
  /\ Continue(p, "acquire")
  /\ UNCHANGED <<rec, tree, dir, made, mainVars, promised>>

FirstStep(o) == CASE o = "new" -> "load" [] o = "discard" -> "prune" [] OTHER -> o

\* Mutant: MkdirAll, which takes a directory that is there for its own.
AcquireShared(p) ==
  /\ pc[p] = "acquire"
  /\ lock' = TRUE
  /\ before' = [before EXCEPT ![p] = merged]
  /\ Goto(p, FirstStep(op[p]))
  /\ UNCHANGED <<op, task, tip, rec, git, mainVars, promised>>

Acquire(p) ==
  /\ pc[p] = "acquire" /\ ~lock
  /\ lock' = TRUE
  /\ before' = [before EXCEPT ![p] = merged]
  /\ Goto(p, FirstStep(op[p]))
  /\ UNCHANGED <<op, task, tip, rec, git, mainVars, promised>>

\* An active record is reused, any other refused, and so is a stray directory.
Load(p) ==
  LET t == task[p] IN
  /\ pc[p] = "load" /\ rec[t] = "none" /\ ~dir[t]
  /\ Continue(p, "branch")
  /\ UNCHANGED <<rec, git, mainVars, promised>>

\* The branch starts at the base: nothing made, nothing to merge.
CreateBranch(p) ==
  LET t == task[p] IN
  /\ pc[p] = "branch" /\ ~branch[t]
  /\ branch' = [branch EXCEPT ![t] = TRUE]
  /\ made' = [made EXCEPT ![t] = 0]
  /\ merged' = [merged EXCEPT ![t] = 0]
  /\ orig' = [orig EXCEPT ![t] = 0]
  /\ promised' = [promised EXCEPT ![t] = 0]
  /\ Continue(p, "tree")
  /\ UNCHANGED <<rec, tree, dir, conflict>>

AddTree(p) ==
  LET t == task[p] IN
  /\ pc[p] = "tree" /\ branch[t] /\ tree[t] = "none"
  /\ tree' = [tree EXCEPT ![t] = "plain"]
  /\ dir' = [dir EXCEPT ![t] = TRUE]
  /\ Continue(p, "treeLock")
  /\ UNCHANGED <<rec, branch, made, mainVars, promised>>

\* A worktree that cannot be added takes the branch with it.
AddTreeFails(p) ==
  /\ pc[p] = "tree"
  /\ BranchDeleted(task[p])
  /\ Return(p)
  /\ UNCHANGED <<rec, tree, dir, made, mainVars, promised>>

\* Mutant: git worktree lock left out.
LockTreeNot(p) ==
  /\ pc[p] = "treeLock"
  /\ Continue(p, "newSave")
  /\ UNCHANGED <<rec, git, mainVars, promised>>

LockTree(p) ==
  /\ pc[p] = "treeLock" /\ tree[task[p]] = "plain"
  /\ tree' = [tree EXCEPT ![task[p]] = "locked"]
  /\ Continue(p, "newSave")
  /\ UNCHANGED <<rec, branch, dir, made, mainVars, promised>>

NewSave(p) ==
  /\ pc[p] = "newSave"
  /\ Save(task[p], "active")
  /\ Continue(p, "session")
  /\ UNCHANGED <<git, mainVars, promised>>

\* The lock is held until the agent's session ends.
SessionEnds(p) ==
  /\ pc[p] = "session"
  /\ Return(p)
  /\ UNCHANGED <<rec, git, mainVars, promised>>

\* ready is asked for from the worktree itself.
\* Transition: how a record's state may change.
Transitions == {"active"} \X {"ready", "abandoned"} \cup {"ready"} \X {"integrated", "abandoned"}

Ready(p) ==
  LET t == task[p] IN
  /\ pc[p] = "ready"
  /\ IF <<rec[t], "ready">> \in Transitions /\ dir[t] THEN Save(t, "ready") ELSE UNCHANGED rec
  /\ Return(p)
  /\ UNCHANGED <<git, mainVars, promised>>

Abandon(p) ==
  LET t == task[p] IN
  /\ pc[p] = "abandon"
  /\ IF <<rec[t], "abandoned">> \in Transitions THEN Save(t, "abandoned") ELSE UNCHANGED rec
  /\ Return(p)
  /\ UNCHANGED <<git, mainVars, promised>>

\* Mutant: clean takes a task that is ready for done.
CleanableReady == {"ready", "integrated", "abandoned"}

Cleanable == {"integrated", "abandoned"}

Clean(p) ==
  /\ pc[p] = "clean" /\ rec[task[p]] \in Cleanable
  /\ Continue(p, "unlock")
  /\ UNCHANGED <<rec, git, mainVars, promised>>

\* The result of git worktree unlock is ignored.
UnlockTree(p) ==
  LET t == task[p] IN
  /\ pc[p] = "unlock"
  /\ \/ tree' = [tree EXCEPT ![t] = IF @ = "locked" THEN "plain" ELSE @]
     \/ UNCHANGED tree
  /\ Continue(p, "remove")
  /\ UNCHANGED <<rec, branch, dir, made, mainVars, promised>>

RemoveTree(p) ==
  LET t == task[p] IN
  /\ pc[p] = "remove" /\ tree[t] = "plain"
  /\ tree' = [tree EXCEPT ![t] = "none"]
  /\ dir' = [dir EXCEPT ![t] = FALSE]
  /\ Continue(p, "branchD")
  /\ UNCHANGED <<rec, branch, made, mainVars, promised>>

DeleteBranch(p) ==
  LET t == task[p] IN
  /\ pc[p] = "branchD" /\ branch[t] /\ tree[t] = "none"
  /\ branch' = [branch EXCEPT ![t] = FALSE]
  /\ Continue(p, "forget")
  /\ UNCHANGED <<rec, tree, dir, made, mainVars, promised>>

RemoveRecord(p) ==
  /\ pc[p] = "forget"
  /\ Save(task[p], "none")
  /\ Return(p)
  /\ UNCHANGED <<git, mainVars, promised>>

\* git merge --no-ff notes ORIG_HEAD even when there is nothing to merge.
Merge(p) ==
  LET t == task[p] IN
  /\ pc[p] = "merge" /\ branch[t] /\ ~conflict
  /\ orig' = merged
  /\ merged' = [merged EXCEPT ![t] = made[t]]
  /\ tip' = [tip EXCEPT ![p] = made[t]]
  /\ Goto(p, "validate")
  /\ UNCHANGED <<rec, git, conflict, lock, op, task, before, promised>>

MergeConflicts(p) ==
  LET t == task[p] IN
  /\ pc[p] = "merge" /\ branch[t] /\ ~conflict /\ made[t] > merged[t]
  /\ orig' = merged
  /\ conflict' = TRUE
  /\ Return(p)
  /\ UNCHANGED <<rec, git, merged, promised>>

\* Mutants: no rollback; a rollback past the merge before.
RolledBackNot == merged
RolledBackTooFar == [t \in Tasks |-> 0]

\* git reset --merge ORIG_HEAD, which notes ORIG_HEAD in its turn.
RolledBack == orig

Rollback(p) ==
  /\ pc[p] = "validate"
  /\ merged' = RolledBack
  /\ orig' = merged
  /\ Return(p)
  /\ UNCHANGED <<rec, git, conflict, promised>>

\* The reset may fail, and its result is ignored: the merge stays, and the
\* command says that it was rolled back.
RollbackFails(p) ==
  /\ pc[p] = "validate"
  /\ Return(p)
  /\ UNCHANGED <<rec, git, mainVars, promised>>

ValidationFails(p) == Rollback(p) \/ RollbackFails(p)

Validated(p) ==
  /\ pc[p] = "validate"
  /\ \/ Continue(p, "mergeSave")
     \/ Activation /\ Continue(p, "activate")
  /\ UNCHANGED <<rec, git, mainVars, promised>>

Activated(p) ==
  /\ pc[p] = "activate"
  /\ Continue(p, "mergeSave")
  /\ UNCHANGED <<rec, git, mainVars, promised>>

\* The record loaded at the gate becomes integrated.
MergeSave(p) ==
  LET t == task[p] IN
  /\ pc[p] = "mergeSave"
  /\ Save(t, "integrated")
  /\ promised' = [promised EXCEPT ![t] = tip[p]]
  /\ Return(p)
  /\ UNCHANGED <<git, mainVars>>

\* A command gives up: the record, the directory or the lock is not as it wants.
Refused(p) ==
  LET t == task[p] IN
  /\ \/ pc[p] = "gate" /\ rec[t] # "ready"
     \/ pc[p] = "discard" /\ ~dir[t]
     \/ pc[p] = "acquire" /\ lock
  /\ Forget(p)
  /\ UNCHANGED <<rec, git, mainVars, lock, promised>>

\* A step under the lock that refuses, or fails without effect.
Error(p) ==
  LET t == task[p] IN
  /\ \/ pc[p] = "load" /\ (rec[t] # "none" \/ dir[t])
     \/ pc[p] = "clean" /\ rec[t] \notin Cleanable
     \/ pc[p] \in {"branch", "treeLock", "newSave", "remove", "branchD", "forget",
                  "merge", "activate", "mergeSave"}
  /\ Return(p)
  /\ UNCHANGED <<rec, git, mainVars, promised>>

\* git worktree prune spares what is locked.
Prune(p) ==
  /\ pc[p] = "prune"
  /\ tree' = [t \in Tasks |-> IF tree[t] = "plain" /\ ~dir[t] THEN "none" ELSE tree[t]]
  /\ Return(p)
  /\ UNCHANGED <<rec, branch, dir, made, mainVars, promised>>

\* A prune that fails exits from within and leaves the lock.
PruneFails(p) ==
  /\ pc[p] = "prune"
  /\ Forget(p)
  /\ UNCHANGED <<rec, git, mainVars, lock, promised>>

Kill(p) ==
  /\ pc[p] # "idle"
  /\ Forget(p)
  /\ UNCHANGED <<rec, git, mainVars, lock, promised>>

Step(p) ==
  \/ Gate(p) \/ DiscardTree(p) \/ DiscardBranch(p) \/ Acquire(p)
  \/ Load(p) \/ CreateBranch(p) \/ AddTree(p) \/ AddTreeFails(p) \/ LockTree(p)
  \/ NewSave(p) \/ SessionEnds(p) \/ Ready(p) \/ Abandon(p)
  \/ Clean(p) \/ UnlockTree(p) \/ RemoveTree(p) \/ DeleteBranch(p) \/ RemoveRecord(p)
  \/ Merge(p) \/ MergeConflicts(p) \/ ValidationFails(p) \/ Validated(p)
  \/ Activated(p) \/ MergeSave(p)
  \/ Refused(p) \/ Error(p) \/ Prune(p) \/ PruneFails(p)

Next ==
  \/ \E p \in Procs : Step(p) \/ Kill(p) \/ \E o \in Ops, t \in Tasks : Begin(p, o, t)
  \/ \E t \in Tasks : Commit(t)
  \/ AbortMerge \/ RecoverLock

Spec == Init /\ [][Next]_vars

(***************************************************************************)
(* Properties                                                              *)
(***************************************************************************)

\* Two lifecycle operations never run at once, although the lock survives
\* its holder and an operator removes it.
LockExclusive ==
  \A p, q \in Procs : pc[p] \in Locked /\ pc[q] \in Locked => p = q

\* Unfinished work is never lost: an active or ready task has its branch, and
\* a worktree that git protects from prune, whatever failed or was killed and
\* whatever --abort was pointed at.
RecordHasWorktree ==
  \A t \in Tasks : rec[t] \in {"active", "ready"} => branch[t] /\ tree[t] = "locked"

\* A task recorded as integrated stays merged: no later rollback, of any
\* task, takes it out of the main branch again.
IntegratedStaysMerged ==
  \A t \in Tasks : rec[t] = "integrated" => merged[t] >= promised[t]

\* The reset after a failed validation, when git does it, undoes neither too much
\* nor too little: ORIG_HEAD, which every merge and every reset before has set, is
\* the main branch, with the other tasks' merges, as this command found it when it
\* took the lock.  A reset that fails is another matter: see RollbackIsDone.
RollbackRestores ==
  [][\A p \in Procs : Rollback(p) => merged' = before[p]]_vars

\* managed.go:352, "validation failed; merge rolled back": the main branch is then
\* as the command found it.
RollbackIsDone ==
  [][\A p \in Procs : ValidationFails(p) => merged' = before[p]]_vars

\* docs/managed-agent-worktrees.md:19: the gate takes the lock, verifies the
\* ready record and performs the merge: what is merged is ready.
MergesOnlyReady ==
  [][\A p \in Procs : Merge(p) => rec[task[p]] = "ready"]_vars

\* docs/managed-agent-worktrees.md:19, managed.go:352: after a failed validation
\* and a reset the task's merge is rolled back.
FailedValidationUnmerges ==
  [][\A p \in Procs : Rollback(p) => merged'[task[p]] = 0]_vars
=============================================================================
