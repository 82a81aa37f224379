---------------------------- MODULE MCShutdownTrial ----------------------------
(***************************************************************************)
(* A small instance of ShutdownTrial: rog, and machines that it must not   *)
(* be taken for.                                                           *)
(***************************************************************************)
EXTENDS ShutdownTrial

MCMachines ==
  { [product |-> "GL553VD", base |-> 6148, typ |-> 5, reg |-> 54273],
    [product |-> "GL553VD", base |-> 6148, typ |-> 12, reg |-> 1],
    [product |-> "GL553VD", base |-> 65535, typ |-> 5, reg |-> 1],
    [product |-> "other", base |-> 6148, typ |-> 5, reg |-> 1] }
================================================================================
