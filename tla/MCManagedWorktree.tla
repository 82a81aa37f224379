--------------------------- MODULE MCManagedWorktree ---------------------------
(***************************************************************************)
(* Small instances of ManagedWorktree.  Processes are interchangeable.     *)
(***************************************************************************)
EXTENDS ManagedWorktree, TLC

Symmetry == Permutations(Procs)
=============================================================================
