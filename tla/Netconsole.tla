------------------------------- MODULE Netconsole -------------------------------
(***************************************************************************)
(* The pipeline that ships rog's kernel log to thinkcentre as UDP          *)
(* datagrams (internal/netconsole).  netconsole-setup configures the       *)
(* kernel's target and verifies it: it writes a nonce to the kernel log    *)
(* and waits for the receiver to acknowledge it, a few times over.         *)
(* netconsole-log appends what it receives to its file and acknowledges    *)
(* nonces.  Datagrams are lost, repeated and reordered; the setup and      *)
(* either machine may stop at any point and start again.                   *)
(*                                                                         *)
(* A line of the kernel log is the nonce it carries; the other lines take  *)
(* the same way and nobody answers them.  A run of the setup is a number,  *)
(* which stands for its nonce too.                                         *)
(*                                                                         *)
(* Abstracted: addresses; several lines in a datagram.                     *)
(***************************************************************************)
EXTENDS Naturals

CONSTANTS
  Attempts,  \* probes of a run
  MaxRuns    \* bound of the runs of the setup

ASSUME AttemptsAssumption == Attempts \in Nat \ {0} /\ MaxRuns \in Nat

VARIABLES
  \* rog
  pstore,    \* parameters that are set right
  enabled,   \* target1 ships the kernel log
  setup,     \* where the setup is
  result,    \* how it ended: "none", "ready", "noack", "failed"
  nonce,     \* its run
  attempt,   \* its probe
  \* the network
  probes, acks,    \* datagrams that were sent, and may arrive, again and again
  \* thinkcentre
  handling,  \* the line being handled, 0 if there is none
  step,      \* what is done with it next
  file, stored   \* lines in the file, and those that would survive

rogVars  == <<pstore, enabled, setup, result, nonce, attempt>>
wireVars == <<probes, acks>>
receiverVars == <<handling, step, file, stored>>
netVars == <<rogVars, wireVars, receiverVars>>

Runs   == 1..MaxRuns
Params == {"always_kmsg_dump", "pstore_disable"}

NetTypeOK ==
  /\ pstore \subseteq Params
  /\ enabled \in BOOLEAN
  /\ setup \in {"idle", "dump", "disable", "address", "target", "probe", "wait"}
  /\ result \in {"none", "ready", "noack", "failed"}
  /\ nonce \in 0..MaxRuns /\ attempt \in 0..Attempts
  /\ probes \subseteq Runs /\ acks \subseteq Runs
  /\ handling \in 0..MaxRuns /\ step \in {"read", "append", "sync", "ack"}
  /\ file \subseteq Runs /\ stored \subseteq Runs

NetInit ==
  /\ pstore \in SUBSET Params
  /\ enabled = FALSE /\ setup = "idle" /\ result = "none" /\ nonce = 0 /\ attempt = 0
  /\ probes = {} /\ acks = {}
  /\ handling = 0 /\ step = "read" /\ file = {} /\ stored = {}

(***************************************************************************)
(* netconsole-setup                                                        *)
(***************************************************************************)
Begin ==
  /\ setup = "idle" /\ nonce < MaxRuns /\ nonce' = nonce + 1 /\ attempt' = 0
  /\ setup' = "dump" /\ result' = "none"
  /\ UNCHANGED <<pstore, enabled, wireVars, receiverVars>>

\* One parameter: read, written if it is wrong, and read again.  The write may
\* fail, or the kernel not take it.
EnsureParam(here, p, next) ==
  /\ setup = here
  /\ \/ pstore' = pstore \cup {p} /\ setup' = next /\ UNCHANGED result
     \/ setup' = "idle" /\ result' = "failed" /\ UNCHANGED pstore
  /\ UNCHANGED <<enabled, nonce, attempt, wireVars, receiverVars>>

\* The crash log is kept in EFI variables even when no datagram arrives.
EnsurePstore ==
  \/ EnsureParam("dump", "always_kmsg_dump", "disable")
  \/ EnsureParam("disable", "pstore_disable", "address")

\* The interface has an address, and the port of the acknowledgements is free.
BindSource ==
  /\ setup = "address"
  /\ \/ setup' = "target" /\ UNCHANGED result
     \/ setup' = "idle" /\ result' = "failed"
  /\ UNCHANGED <<pstore, enabled, nonce, attempt, wireVars, receiverVars>>

\* ConfigureTarget: an old target1 is disabled and removed before the new one is
\* made and, last of all, enabled.  Errors of the first two are not looked at, so
\* that a failure after them may leave an old target enabled.
ConfigureTarget ==
  /\ setup = "target"
  /\ \/ enabled' = TRUE /\ setup' = "probe" /\ UNCHANGED result
     \/ enabled' \in {FALSE, enabled} /\ setup' = "idle" /\ result' = "failed"
  /\ UNCHANGED <<pstore, nonce, attempt, wireVars, receiverVars>>

\* Verify writes the probe, which the kernel sends while the target is enabled.
\* Every attempt has the nonce of the run.
Probe ==
  /\ setup = "probe"
  /\ \/ /\ probes' = IF enabled THEN probes \cup {nonce} ELSE probes
        /\ setup' = "wait" /\ attempt' = attempt + 1 /\ UNCHANGED result
     \/ setup' = "idle" /\ result' = "failed" /\ UNCHANGED <<probes, attempt>>
  /\ UNCHANGED <<pstore, enabled, nonce, acks, receiverVars>>

\* Mutant: any acknowledgement will do.
AnyAck(n) == TRUE

\* The acknowledgement of an earlier run is left aside.
IsOwn(n) == n = nonce

ReceiveAck(n) ==
  /\ setup = "wait" /\ n \in acks /\ IsOwn(n)
  /\ setup' = "idle" /\ result' = "ready"
  /\ UNCHANGED <<pstore, enabled, nonce, attempt, wireVars, receiverVars>>

\* The deadline: another probe after a pause, or a warning and exit 0 with the
\* target left enabled.  Any other error of the socket is fatal.
Timeout ==
  /\ setup = "wait"
  /\ \/ attempt < Attempts /\ setup' = "probe" /\ UNCHANGED result
     \/ attempt >= Attempts /\ setup' = "idle" /\ result' = "noack"
     \/ setup' = "idle" /\ result' = "failed"
  /\ UNCHANGED <<pstore, enabled, nonce, attempt, wireVars, receiverVars>>

\* The setup is killed, or rog boots again: the target is gone, and the
\* parameters are what the boot sets.
SetupStops ==
  /\ setup # "idle" /\ setup' = "idle" /\ result' = "failed"
  /\ \/ UNCHANGED <<pstore, enabled>>
     \/ pstore' \in SUBSET Params /\ enabled' = FALSE
  /\ UNCHANGED <<nonce, attempt, wireVars, receiverVars>>

(***************************************************************************)
(* netconsole-log                                                          *)
(***************************************************************************)
\* Serve reads a datagram.
Read(n) ==
  /\ step = "read" /\ n \in probes /\ handling' = n /\ step' = "append"
  /\ UNCHANGED <<rogVars, wireVars, file, stored>>

\* An error of the file is reported, the line not acknowledged.
Drop ==
  /\ step \in {"append", "sync"} /\ handling' = 0 /\ step' = "read"
  /\ UNCHANGED <<rogVars, wireVars, file, stored>>

\* AppendAll: the lines are written, the file synced.
AppendLine ==
  /\ step = "append" /\ file' = file \cup {handling} /\ step' = "sync"
  /\ UNCHANGED <<rogVars, wireVars, handling, stored>>

\* Mutant: AppendAll does not sync.
LeftToCache == stored

\* What survives f.Sync.
Flushed == file

SyncLog ==
  /\ step = "sync" /\ stored' = Flushed /\ step' = "ack"
  /\ UNCHANGED <<rogVars, wireVars, handling, file>>

\* WriteToUDP, which may fail.
Ack ==
  /\ step = "ack" /\ acks' \in {acks, acks \cup {handling}}
  /\ handling' = 0 /\ step' = "read"
  /\ UNCHANGED <<rogVars, probes, file, stored>>

\* netconsole-log is stopped, or thinkcentre loses its power and what it had not
\* synced, unless the kernel had written it back.
ReceiverStops ==
  /\ handling' = 0 /\ step' = "read"
  /\ \/ UNCHANGED <<file, stored>>
     \/ \E some \in SUBSET (file \ stored) : stored' = stored \cup some /\ file' = stored'
  /\ UNCHANGED <<rogVars, wireVars>>

NetNext ==
  \/ Begin \/ EnsurePstore \/ BindSource \/ ConfigureTarget \/ Probe \/ Timeout \/ SetupStops
  \/ \E n \in Runs : ReceiveAck(n) \/ Read(n)
  \/ Drop \/ AppendLine \/ SyncLog \/ Ack \/ ReceiverStops

NetSpec == NetInit /\ [][NetNext]_netVars

(***************************************************************************)
(* Properties                                                              *)
(***************************************************************************)
\* A setup that reports "target1 ready" has shown the whole way: its own probe
\* has reached the receiver's disk, to stay, whatever datagrams of earlier runs
\* arrive late, and wherever the receiver has stopped since; and should rog crash
\* without the network, pstore keeps its log.
ReadyIsLogged == result = "ready" => nonce \in stored /\ pstore = Params
==================================================================================
