----------------------------- MODULE ShutdownTrial -----------------------------
(***************************************************************************)
(* How rog is made to power off, and how what happened is recorded.        *)
(* test-shutdown changes runtime settings for a trial, records the trial   *)
(* and powers off; after the next boot the operator records what was seen  *)
(* (cmd/test-shutdown, internal/shutdowntrial).  rog-poweroff-hook stages  *)
(* at boot what firmware tables say of the power register, and writes the  *)
(* register from the shutdown ramfs (cmd/rog-poweroff-hook,                *)
(* internal/s5write).  The machine may lose power at any point, and hang   *)
(* at the end of a shutdown until somebody cuts it.                        *)
(*                                                                         *)
(* Abstracted: what the steps of a trial change; times, notes and kernel   *)
(* versions; the kernel log; parsing of the tables, whose facts the        *)
(* machine carries; two trials that run at once.                           *)
(***************************************************************************)
EXTENDS Integers, Sequences

CONSTANTS
  Machines,        \* the machine a stage may meet: [product, base, typ, reg]
  ExpectedProduct,
  Automatic, Manual,   \* trials that power off, and one that prints instructions
  MaxBoots, MaxLines,   \* bounds
  None, Torn, Bad

MaxWord == 65535   \* the register has 16 bits

ASSUME TrialsAssumption ==
  /\ Machines \subseteq [product : STRING, base : Nat, typ : Nat, reg : 0..MaxWord]
  /\ Automatic \cap Manual = {} /\ MaxBoots \in Nat \ {0} /\ MaxLines \in Nat

VARIABLES
  machine,   \* its firmware tables, and the register's value
  boot, phase,
  plan,      \* staged.json: None, Torn, or a plan
  log, disk, \* the history as programs read it, and as it would survive
  run,       \* test-shutdown: "idle", "write", "sync", "poweroff"
  entry,     \* what it is appending
  port,      \* value before the last write to the register, None before any
  \* history
  seen,      \* the trial whose end the operator watched last
  verdicts   \* what was watched, and the trial its result names

logVars   == <<log, disk>>
testVars == <<run, entry>>
operVars  == <<seen, verdicts>>
trialVars == <<machine, boot, phase, plan, port, logVars, testVars, operVars>>

Phases  == {"up", "stopping", "ramfs", "returned", "off"}
Entries == [kind : {"trial", "result"}, trial : Automatic \cup Manual, boot : 1..MaxBoots]
Lines   == [of : Entries \cup {Bad}, ended : BOOLEAN]
Seens   == [trial : Automatic \cup Manual, boot : 1..MaxBoots]
Plans   == [base : Nat, typ : Nat, product : STRING]

TrialTypeOK ==
  /\ machine \in [product : STRING, base : Nat, typ : Nat, reg : 0..MaxWord]
  /\ boot \in 1..MaxBoots /\ phase \in Phases /\ plan \in Plans \cup {None, Torn}
  /\ log \in Seq(Lines) /\ disk \in Seq(Lines)
  /\ run \in {"idle", "apply", "write", "sync", "poweroff"} /\ entry \in Entries \cup {None}
  /\ port \in (0..MaxWord) \cup {None}
  /\ seen \in Seens \cup {None} /\ verdicts \subseteq Seens \X Seens

TrialInit ==
  /\ machine \in Machines /\ boot = 1 /\ phase = "up" /\ plan = None
  /\ log = << >> /\ disk = << >> /\ run = "idle" /\ entry = None /\ port = None
  /\ seen = None /\ verdicts = {}

(***************************************************************************)
(* The register                                                            *)
(***************************************************************************)
\* Validate: the port and the type are in range.
Valid(p) == p.base \in 1..(MaxWord - 1) /\ p.typ \in 1..7

\* Bits 10 to 13: SLP_TYP and SLP_EN.
SlpField(v) == (v \div 1024) % 16

\* was &^ maskSLPField | typ << 10 | bitSLPEN, in 16 bits.
S5WriteValue(was, typ) == (was - 1024 * SlpField(was) + 1024 * typ + 8192) % 65536

\* What Stage makes of the tables of this machine.
Tables == [base |-> machine.base, typ |-> machine.typ, product |-> machine.product]

\* The product is the expected one, when a plan is staged, and the one of the plan
\* when the register is written.
CheckDMI   == machine.product = ExpectedProduct
MatchesDMI == plan.product = machine.product

\* Power reads the register and writes it back with the two fields changed.
Power ==
  /\ Valid(plan) /\ port' = machine.reg
  /\ machine' = [machine EXCEPT !.reg = S5WriteValue(machine.reg, plan.typ)]

\* stage: refused, written, or killed while it writes.  A plan that was staged
\* before stays when this one is refused.
Stage ==
  /\ phase = "up" /\ CheckDMI /\ Valid(Tables)
  /\ plan' \in {Tables, Torn}
  /\ UNCHANGED <<machine, boot, phase, port, logVars, testVars, operVars>>

\* Mutant: the hook does not ask where it runs.
AnyPhase == phase \in {"up", "stopping", "ramfs"}

\* /oldroot exists in the shutdown ramfs only, after everything is unmounted.
InRamfs == phase = "ramfs"

\* poweroff, by systemd-shutdown or by hand: with a valid plan, and product and
\* vendor as staged where they can be read, the register is written.  The
\* machine is off at once, or the write returns.
Poweroff ==
  /\ InRamfs /\ plan \notin {None, Torn} /\ MatchesDMI /\ Power
  /\ phase' \in {"off", "returned"}
  /\ UNCHANGED <<boot, plan, logVars, testVars, operVars>>

\* The hook refuses, fails or returns; the kernel powers the machine off.
KernelOff ==
  /\ phase \in {"ramfs", "returned"} /\ phase' = "off"
  /\ UNCHANGED <<machine, boot, plan, port, logVars, testVars, operVars>>

(***************************************************************************)
(* The history                                                             *)
(***************************************************************************)
\* A line after one that has no end is part of it, and neither can be read.
Appended(l, line) ==
  IF l # << >> /\ ~l[Len(l)].ended
  THEN [l EXCEPT ![Len(l)] = [of |-> Bad, ended |-> line.ended]]
  ELSE Append(l, line)

Whole(e)    == [of |-> e, ended |-> TRUE]
Partials(e) == {[of |-> x, ended |-> FALSE] : x \in {Bad, e}}

\* Append: mkdir, open and write, which may fail, having written a part or nothing.
Write ==
  /\ run = "write"
  /\ \/ log' = Appended(log, Whole(entry)) /\ run' = "sync" /\ UNCHANGED entry
     \/ /\ log' \in {log} \cup {Appended(log, p) : p \in Partials(entry)}
        /\ run' = "idle" /\ entry' = None
  /\ UNCHANGED <<machine, boot, phase, plan, port, disk, operVars>>

\* Mutant: Append returns without f.Sync.
NotSynced == disk

\* What is on the disk after f.Sync.
Synced == log

Sync ==
  /\ run = "sync"
  /\ \/ /\ disk' = Synced
        /\ IF entry.kind = "trial" THEN run' = "poweroff" /\ UNCHANGED entry
           ELSE run' = "idle" /\ entry' = None
     \/ run' = "idle" /\ entry' = None /\ UNCHANGED disk
  /\ UNCHANGED <<machine, boot, phase, plan, port, log, operVars>>

\* Read returns an error when a line cannot be parsed.
Readable == \A i \in DOMAIN log : log[i].of # Bad

TrialLines == {i \in DOMAIN log : log[i].of # Bad /\ log[i].of.kind = "trial"}

\* The last trial of the history.
LastTrial == CHOOSE i \in TrialLines : \A j \in TrialLines : j <= i

(***************************************************************************)
(* test-shutdown                                                           *)
(***************************************************************************)
\* systemd-run starts the trial in a unit of its own, which may fail.  From here
\* on the operator waits for the power-off.
Launch(t) ==
  /\ phase = "up" /\ run = "idle" /\ Len(log) < MaxLines
  /\ \/ entry' = [kind |-> "trial", trial |-> t, boot |-> boot] /\ run' = "apply"
     \/ UNCHANGED <<entry, run>>
  /\ seen' = None
  /\ UNCHANGED <<machine, boot, phase, plan, port, logVars, verdicts>>

\* The steps of the trial are applied, and it is recorded whether or not they
\* failed.
Execute ==
  /\ run = "apply" /\ run' = "write"
  /\ UNCHANGED <<machine, boot, phase, plan, port, logVars, entry, operVars>>

\* systemctl poweroff, after the record.
RequestOff ==
  /\ run = "poweroff" /\ phase = "up" /\ run' = "idle" /\ entry' = None
  /\ \/ phase' = "stopping" /\ seen' = [trial |-> entry.trial, boot |-> boot]
     \/ UNCHANGED <<phase, seen>>
  /\ UNCHANGED <<machine, boot, plan, port, logVars, verdicts>>

\* A manual trial prints how to power off without NixOS, and records nothing.
Instruct(t) ==
  /\ phase = "up" /\ run = "idle" /\ t \in Manual
  /\ seen' = [trial |-> t, boot |-> boot]
  /\ phase' = "off" /\ disk' = log
  /\ UNCHANGED <<machine, boot, plan, port, log, testVars, verdicts>>

\* The operator records what became of the trial that was watched.
RecordResult ==
  /\ phase = "up" /\ run = "idle" /\ seen # None /\ Len(log) < MaxLines
  /\ Readable /\ TrialLines # {}
  /\ LET last == log[LastTrial].of IN
       /\ entry' = [last EXCEPT !.kind = "result"]
       /\ verdicts' = verdicts \cup {<<seen, [trial |-> last.trial, boot |-> last.boot]>>}
  /\ run' = "write" /\ seen' = None
  /\ UNCHANGED <<machine, boot, phase, plan, port, logVars>>

(***************************************************************************)
(* The machine                                                             *)
(***************************************************************************)
\* An ordinary shutdown or the one of a trial stops every process and unmounts.
Stop ==
  /\ phase = "up" /\ phase' = "stopping"
  /\ UNCHANGED <<machine, boot, plan, port, logVars, testVars, operVars>>
Unmount ==
  /\ phase = "stopping" /\ phase' = "ramfs" /\ disk' = log
  /\ run' = "idle" /\ entry' = None
  /\ UNCHANGED <<machine, boot, plan, port, log, operVars>>

Writeback ==
  /\ disk # log /\ phase \in {"up", "stopping"} /\ disk' = log
  /\ UNCHANGED <<machine, boot, phase, plan, port, log, testVars, operVars>>

\* test-shutdown or its unit is killed.
Kill ==
  /\ run # "idle" /\ run' = "idle" /\ entry' = None
  /\ UNCHANGED <<machine, boot, phase, plan, port, logVars, operVars>>

\* Power is lost, or cut because the machine hangs: of the lines that were not
\* synced some are there, and part of the next.
Survivors ==
  {disk} \cup
  UNION {{SubSeq(log, 1, i)} \cup
         (IF i = Len(log) THEN {}
          ELSE {Append(SubSeq(log, 1, i), [log[i + 1] EXCEPT !.of = x, !.ended = FALSE]) :
                  x \in {Bad, log[i + 1].of}}) : i \in Len(disk)..Len(log)}
PowerCut ==
  /\ phase # "off" /\ phase' = "off"
  /\ log' \in Survivors /\ disk' = log' /\ run' = "idle" /\ entry' = None
  /\ UNCHANGED <<machine, boot, plan, port, operVars>>

\* /run starts afresh.
Boot ==
  /\ phase = "off" /\ boot < MaxBoots /\ boot' = boot + 1 /\ phase' = "up"
  /\ plan' = None /\ port' = None
  /\ UNCHANGED <<machine, logVars, run, entry, operVars>>

TrialNext ==
  \/ \E t \in Automatic : Launch(t)
  \/ \E t \in Manual : Instruct(t)
  \/ Execute \/ Write \/ Sync \/ RequestOff \/ RecordResult
  \/ Stage \/ Poweroff \/ KernelOff
  \/ Stop \/ Unmount \/ Writeback \/ Kill \/ PowerCut \/ Boot

TrialSpec == TrialInit /\ [][TrialNext]_trialVars

(***************************************************************************)
(* Properties                                                              *)
(***************************************************************************)
\* "record what you saw after the last trial": the result of an automatic trial names
\* the trial, and the boot, whose power-off the operator watched, wherever power was
\* lost since, and whatever trials came before or failed.
ResultNamesItsTrial ==
  \A v \in verdicts : v[1].trial \in Automatic => v[1] = v[2]

\* The same for the trials that only print instructions, one of which says "Then
\* record each with test-shutdown result".
ManualResultNamesItsTrial ==
  \A v \in verdicts : v[1] = v[2]

\* The write that takes the power away is the last thing that happens: the
\* history is on the disk by then; it is made on the expected model only, and
\* changes nothing of the register but SLP_TYP, to a type that exists, and SLP_EN.
PortWriteComesLast ==
  [][port' # port /\ port' # None =>
       /\ disk = log /\ run = "idle" /\ machine.product = ExpectedProduct
       /\ LET v == machine'.reg IN
            /\ v % 1024 = port' % 1024 /\ v \div 16384 = port' \div 16384
            /\ SlpField(v) \in 9..15]_trialVars
================================================================================
