---------------------------- MODULE MCRelayPolicy ----------------------------
(***************************************************************************)
(* Small instances of RelayPolicy.  Two processes contend for the lock;    *)
(* tokens are interchangeable, and so are processes.                       *)
(***************************************************************************)
EXTENDS RelayPolicy, TLC

Symmetry == Permutations(Procs) \cup Permutations(Tokens)
=============================================================================
