----------------------------- MODULE RelayPolicy -----------------------------
(***************************************************************************)
(* The credential promotion transaction of the rog relay server            *)
(* (internal/sshrelay/policy.go, cmd/relay-policy, ssh-relay.nix).         *)
(*                                                                         *)
(* Any number of relay-policy processes run apply or revoke against one    *)
(* systemd unit and one directory, /var/lib/ssh-relay.  The directory is   *)
(* modelled twice: "cache" is what a process sees, "disk" what a power     *)
(* loss is sure to leave.  Every system call or systemctl call that        *)
(* changes or reads shared state is a step of its own, and each one may    *)
(* fail; a process may be killed, and the host rebooted, between any two.  *)
(*                                                                         *)
(* Abstracted: owner, mode and link-count checks (they either pass or make *)
(* the step fail), the text of the policy (a policy is the token it        *)
(* admits), and the poll interval.                                         *)
(***************************************************************************)
EXTENDS Naturals, FiniteSets

CONSTANTS
  Procs,          \* relay-policy processes
  Tokens,         \* authorization tokens that validateAuthorizationToken accepts
  NoProc,         \* the transaction lock is free
  None,           \* no token staged, no policy served
  EtcUnitWins,    \* the installed unit overrides a runtime mask (NixOS)
  OldUnit,        \* the unit installed at first may lack the marker condition
  DeployAnytime   \* deployments may run while a transaction is open

ASSUME ConstantsAssumption ==
  /\ NoProc \notin Procs
  /\ None \notin Tokens \cup {"absent", "deny"}
  /\ Tokens \cap {"absent", "deny"} = {}
  /\ EtcUnitWins \in BOOLEAN /\ OldUnit \in BOOLEAN /\ DeployAnytime \in BOOLEAN

\* maskAndWait inspects the unit's condition only when the mask had no effect:
\* where a runtime mask works, the installed unit is the one of this revision.
ASSUME UnitAssumption == EtcUnitWins \/ ~OldUnit

VARIABLES
  cache,       \* the directory as processes see it: marker, temporary file, live policy
  disk,        \* the directory as a power loss would at least leave it
  stage,       \* token in /run/ssh-relay-staging, or None
  mask,        \* the runtime mask in /run/systemd/system exists
  fileCond,    \* the unit file on disk has the negated marker condition
  loadedCond,  \* the unit systemd has loaded has it
  srv,         \* "inactive", "starting", "active" or "stopping"
  serving,     \* policy the running server has loaded, or None
  lock,        \* holder of transaction.lock
  pc, op, enabled, token, failing,  \* locals of each process
  committed,   \* history: policy of the last success, None once a later one began
  revoked,     \* history: a revoke succeeded and no apply has committed since
  lastDone     \* history: the operation that last succeeded

dirVars  == <<cache, disk>>
unitVars == <<mask, fileCond, loadedCond, srv, serving>>
procVars == <<op, enabled, token, failing>>
history  == <<committed, revoked, lastDone>>
vars == <<cache, disk, stage, mask, fileCond, loadedCond, srv, serving, lock,
          pc, op, enabled, token, failing, committed, revoked, lastDone>>

Policies == Tokens \cup {"absent", "deny"}
Dir      == [marker : BOOLEAN, tmp : BOOLEAN, live : Policies]
Steps    == {"idle", "lock", "inhibit", "inhibitSync", "query", "mask", "wait",
             "verify", "read", "create", "write", "rename", "liveSync",
             "clear", "clearSync", "unmask", "start", "startWait"}

TypeOK ==
  /\ cache \in Dir /\ disk \in Dir
  /\ stage \in Tokens \cup {None}
  /\ mask \in BOOLEAN /\ fileCond \in BOOLEAN /\ loadedCond \in BOOLEAN
  /\ srv \in {"inactive", "starting", "active", "stopping"}
  /\ serving \in Policies \cup {None}
  /\ lock \in Procs \cup {NoProc}
  /\ pc \in [Procs -> Steps]
  /\ op \in [Procs -> {"apply", "revoke"}]
  /\ enabled \in [Procs -> BOOLEAN]
  /\ token \in [Procs -> Tokens \cup {None}]
  /\ failing \in [Procs -> BOOLEAN]
  /\ committed \in Policies \cup {None}
  /\ revoked \in BOOLEAN
  /\ lastDone \in {"none", "apply", "revoke"}

Init ==
  /\ cache = [marker |-> FALSE, tmp |-> FALSE, live |-> "absent"]
  /\ disk = cache
  /\ stage = None
  /\ mask = FALSE
  /\ fileCond \in (IF OldUnit THEN BOOLEAN ELSE {TRUE})
  /\ loadedCond = fileCond
  /\ srv = "inactive" /\ serving = None
  /\ lock = NoProc
  /\ pc = [p \in Procs |-> "idle"]
  /\ op = [p \in Procs |-> "apply"]
  /\ enabled = [p \in Procs |-> FALSE]
  /\ token = [p \in Procs |-> None]
  /\ failing = [p \in Procs |-> FALSE]
  /\ committed = None /\ revoked = FALSE /\ lastDone = "none"

Goto(p, s) == pc' = [pc EXCEPT ![p] = s]

(***************************************************************************)
(* systemd: a start job needs an unmasked unit whose loaded condition      *)
(* holds when the job runs; the server reads the policy once it is up.     *)
(***************************************************************************)
MaskWorks    == mask /\ ~EtcUnitWins
Inhibited    == loadedCond /\ cache.marker
StartAllowed == ~MaskWorks /\ ~Inhibited
LoadState    == IF MaskWorks THEN "masked" ELSE "loaded"
IsEnabled    == ~MaskWorks
NeedReload   == fileCond # loadedCond

\* Boot, an automatic restart, or an operator's systemctl start.
StartJob ==
  /\ srv = "inactive" /\ StartAllowed
  /\ srv' = "starting"
  /\ UNCHANGED <<dirVars, stage, mask, fileCond, loadedCond, serving, lock, pc,
                 procVars, history>>

\* ExecStartPre needs the live file; without it the start fails.
ServerUp ==
  /\ srv = "starting"
  /\ IF cache.live = "absent"
       THEN srv' = "inactive" /\ UNCHANGED serving
       ELSE srv' = "active" /\ serving' = cache.live
  /\ UNCHANGED <<dirVars, stage, mask, fileCond, loadedCond, lock, pc,
                 procVars, history>>

\* A stop job ends, or the server exits by itself.
ServerDown ==
  /\ srv \in {"stopping", "active"}
  /\ srv' = "inactive" /\ serving' = None
  /\ UNCHANGED <<dirVars, stage, mask, fileCond, loadedCond, lock, pc,
                 procVars, history>>

DeployAllowed == DeployAnytime \/ lock = NoProc

\* A deployment installs this revision's unit; systemd loads it on reload.
Deploy ==
  /\ DeployAllowed /\ ~fileCond
  /\ fileCond' = TRUE
  /\ UNCHANGED <<dirVars, stage, mask, loadedCond, srv, serving, lock, pc,
                 procVars, history>>

DaemonReload ==
  /\ DeployAllowed /\ NeedReload
  /\ loadedCond' = fileCond
  /\ UNCHANGED <<dirVars, stage, mask, fileCond, srv, serving, lock, pc,
                 procVars, history>>

(***************************************************************************)
(* The transaction.  Return drops the lock and the locals; Error is a call *)
(* that fails without effect, CompensatedError one that Apply answers with *)
(* failStop, which inhibits and masks again under a context of its own.    *)
(***************************************************************************)
Return(p) ==
  /\ Goto(p, "idle")
  /\ lock' = NoProc
  /\ op' = [op EXCEPT ![p] = "apply"]
  /\ enabled' = [enabled EXCEPT ![p] = FALSE]
  /\ token' = [token EXCEPT ![p] = None]
  /\ failing' = [failing EXCEPT ![p] = FALSE]

\* relay-policy stage: an atomic, locked install of a valid token.
Stage(t) ==
  /\ stage' = t
  /\ UNCHANGED <<dirVars, unitVars, lock, pc, procVars, history>>

Begin(p, o) ==
  /\ pc[p] = "idle"
  /\ Goto(p, "lock")
  /\ op' = [op EXCEPT ![p] = o]
  /\ UNCHANGED <<dirVars, stage, unitVars, lock, enabled, token, failing, history>>

Acquire(p) ==
  /\ pc[p] = "lock" /\ lock = NoProc
  /\ lock' = p
  /\ Goto(p, "inhibit")
  /\ committed' = None
  /\ UNCHANGED <<dirVars, stage, unitVars, procVars, revoked, lastDone>>

Inhibit(p) ==
  /\ pc[p] = "inhibit"
  /\ cache' = [cache EXCEPT !.marker = TRUE]
  /\ Goto(p, "inhibitSync")
  /\ UNCHANGED <<disk, stage, unitVars, lock, procVars, history>>

\* Mutant: the marker is created but not made durable.
InhibitNoSync(p) ==
  /\ pc[p] = "inhibitSync"
  /\ Goto(p, IF op[p] = "revoke" \/ failing[p] THEN "mask" ELSE "query")
  /\ UNCHANGED <<dirVars, stage, unitVars, lock, procVars, history>>

InhibitSync(p) ==
  /\ pc[p] = "inhibitSync"
  /\ disk' = cache
  /\ Goto(p, IF op[p] = "revoke" \/ failing[p] THEN "mask" ELSE "query")
  /\ UNCHANGED <<cache, stage, unitVars, lock, procVars, history>>

WasEnabled(p) ==
  /\ pc[p] = "query"
  /\ enabled' = [enabled EXCEPT ![p] = IsEnabled]
  /\ Goto(p, "mask")
  /\ UNCHANGED <<dirVars, stage, unitVars, lock, op, token, failing, history>>

StopIssued == IF srv \in {"starting", "active"} THEN "stopping" ELSE srv

\* mask --runtime --now; a call that reports failure may have masked or stopped.
Mask(p) ==
  /\ pc[p] = "mask"
  /\ \/ mask' = TRUE /\ srv' = StopIssued /\ Goto(p, "wait")
        /\ UNCHANGED <<lock, procVars>>
     \/ mask' = TRUE /\ srv' \in {srv, StopIssued} /\ Return(p)
  /\ UNCHANGED <<dirVars, stage, fileCond, loadedCond, serving, history>>

AfterStop(p) ==
  IF op[p] = "revoke" THEN "create" ELSE "read"

\* Mutant: one poll is taken for proof, whatever it saw.
SeenAnything(p) ==
  /\ pc[p] = "wait"
  /\ Goto(p, IF LoadState = "loaded" THEN "verify" ELSE AfterStop(p))
  /\ UNCHANGED <<dirVars, stage, unitVars, lock, procVars, history>>

\* Mutant: a fail-stop is over as soon as the mask is there.
SeenMasked(p) ==
  /\ pc[p] = "wait"
  /\ IF failing[p] THEN Return(p)
                   ELSE Goto(p, AfterStop(p)) /\ UNCHANGED <<lock, procVars>>
  /\ UNCHANGED <<dirVars, stage, unitVars, history>>

\* One poll that sees ActiveState=inactive and MainPID=0.
SeenStopped(p) ==
  /\ pc[p] = "wait" /\ srv = "inactive"
  /\ \/ /\ LoadState = "loaded"
        /\ Goto(p, "verify")
        /\ UNCHANGED <<lock, procVars>>
     \/ /\ LoadState = "masked"
        /\ IF failing[p] THEN Return(p)
                         ELSE Goto(p, AfterStop(p)) /\ UNCHANGED <<lock, procVars>>
  /\ UNCHANGED <<dirVars, stage, unitVars, history>>

\* Mutant: a unit changed on disk but not reloaded is accepted.
InhibitedUnreloaded == fileCond /\ cache.marker

\* Mutant: the marker itself is not checked again.
InhibitedNoMarker == fileCond /\ ~NeedReload

\* The loaded unit really carries the condition, and the marker is there.
DurablyInhibited == fileCond /\ ~NeedReload /\ cache.marker

Verify(p) ==
  /\ pc[p] = "verify" /\ DurablyInhibited
  /\ IF failing[p] THEN Return(p)
                   ELSE Goto(p, AfterStop(p)) /\ UNCHANGED <<lock, procVars>>
  /\ UNCHANGED <<dirVars, stage, unitVars, history>>

\* Mutant: an empty stage passes validateAuthorizationToken.
ReadTokenUnchecked(p) ==
  /\ pc[p] = "read"
  /\ token' = [token EXCEPT ![p] = stage]
  /\ Goto(p, "create")
  /\ UNCHANGED <<dirVars, stage, unitVars, lock, op, enabled, failing, history>>

ReadToken(p) ==
  /\ pc[p] = "read" /\ stage # None
  /\ token' = [token EXCEPT ![p] = stage]
  /\ Goto(p, "create")
  /\ UNCHANGED <<dirVars, stage, unitVars, lock, op, enabled, failing, history>>

\* The temporary file is opened with O_EXCL: one that exists is refused.
CreateTmp(p) ==
  /\ pc[p] = "create" /\ ~cache.tmp
  /\ cache' = [cache EXCEPT !.tmp = TRUE]
  /\ Goto(p, "write")
  /\ UNCHANGED <<disk, stage, unitVars, lock, procVars, history>>

WriteTmp(p) ==
  /\ pc[p] = "write"
  /\ Goto(p, "rename")
  /\ UNCHANGED <<dirVars, stage, unitVars, lock, procVars, history>>

NewPolicy(p) == IF op[p] = "revoke" THEN "deny" ELSE token[p]

\* Mutant: the marker goes as soon as the policy is in place.
RenameClears(p) ==
  /\ pc[p] = "rename"
  /\ cache' = [marker |-> FALSE, tmp |-> FALSE, live |-> NewPolicy(p)]
  /\ Goto(p, "liveSync")
  /\ UNCHANGED <<disk, stage, unitVars, lock, procVars, history>>

RenameLive(p) ==
  /\ pc[p] = "rename"
  /\ cache' = [cache EXCEPT !.tmp = FALSE, !.live = NewPolicy(p)]
  /\ Goto(p, "liveSync")
  /\ UNCHANGED <<disk, stage, unitVars, lock, procVars, history>>

\* Mutant: the rename is not synced.
LiveNoSync(p) ==
  /\ pc[p] = "liveSync"
  /\ IF op[p] = "revoke"
       THEN /\ Return(p)
            /\ committed' = cache.live /\ revoked' = TRUE /\ lastDone' = "revoke"
       ELSE Goto(p, "clear") /\ UNCHANGED <<lock, procVars, history>>
  /\ UNCHANGED <<dirVars, stage, unitVars>>

\* The directory sync ends installPolicy; a revoke is done, its marker kept.
LiveSync(p) ==
  /\ pc[p] = "liveSync"
  /\ disk' = cache
  /\ IF op[p] = "revoke"
       THEN /\ Return(p)
            /\ committed' = cache.live /\ revoked' = TRUE /\ lastDone' = "revoke"
       ELSE Goto(p, "clear") /\ UNCHANGED <<lock, procVars, history>>
  /\ UNCHANGED <<cache, stage, unitVars>>

ClearMarker(p) ==
  /\ pc[p] = "clear" /\ cache.marker
  /\ cache' = [cache EXCEPT !.marker = FALSE]
  /\ revoked' = FALSE
  /\ Goto(p, "clearSync")
  /\ UNCHANGED <<disk, stage, unitVars, lock, procVars, committed, lastDone>>

ClearSync(p) ==
  /\ pc[p] = "clearSync"
  /\ disk' = cache
  /\ Goto(p, "unmask")
  /\ UNCHANGED <<cache, stage, unitVars, lock, procVars, history>>

ApplyDone(p) ==
  /\ Return(p)
  /\ committed' = cache.live /\ lastDone' = "apply"
  /\ UNCHANGED revoked

Unmask(p) ==
  /\ pc[p] = "unmask"
  /\ mask' = FALSE
  /\ IF enabled[p] THEN Goto(p, "start") /\ UNCHANGED <<lock, procVars, history>>
                   ELSE ApplyDone(p)
  /\ UNCHANGED <<dirVars, stage, fileCond, loadedCond, srv, serving>>

\* systemctl start: the job is queued, the call returns when it has ended.
IssueStart(p) ==
  /\ pc[p] = "start"
  /\ srv' = IF srv = "inactive" /\ StartAllowed THEN "starting" ELSE srv
  /\ Goto(p, "startWait")
  /\ UNCHANGED <<dirVars, stage, mask, fileCond, loadedCond, serving, lock,
                 procVars, history>>

Started(p) ==
  /\ pc[p] = "startWait" /\ srv = "active"
  /\ ApplyDone(p)
  /\ UNCHANGED <<dirVars, stage, unitVars>>

\* Mutant: the wait for the stop has no deadline.
NoDeadlineSteps == {"inhibit", "inhibitSync", "query", "mask", "verify",
                    "read", "create", "write", "rename", "liveSync"}

PlainErrorSteps == {"inhibit", "inhibitSync", "query", "mask", "wait", "verify",
                    "read", "create", "write", "rename", "liveSync"}

\* installPolicy's deferred os.Remove takes the temporary file away again.
Error(p) ==
  /\ pc[p] \in PlainErrorSteps
  /\ IF failing[p] /\ pc[p] \in {"inhibit", "inhibitSync"}
       THEN Goto(p, "mask") /\ UNCHANGED <<lock, procVars>>
       ELSE Return(p)
  /\ cache' = [cache EXCEPT !.tmp = @ /\ pc[p] \notin {"write", "rename"}]
  /\ UNCHANGED <<disk, stage, unitVars, history>>

CompensatedError(p) ==
  /\ pc[p] \in {"clear", "clearSync", "unmask", "start", "startWait"}
  /\ mask' \in IF pc[p] = "unmask" THEN {mask, FALSE} ELSE {mask}
  /\ failing' = [failing EXCEPT ![p] = TRUE]
  /\ Goto(p, "inhibit")
  /\ UNCHANGED <<dirVars, stage, fileCond, loadedCond, srv, serving, lock, op,
                 enabled, token, history>>

(***************************************************************************)
(* Faults: a process dies, the host reboots, or it loses power.  Reboot    *)
(* and power loss empty /run: the mask, the stage and the lock are gone.   *)
(***************************************************************************)
Kill(p) ==
  /\ pc[p] # "idle"
  /\ Goto(p, "idle")
  /\ lock' = IF lock = p THEN NoProc ELSE lock
  /\ op' = [op EXCEPT ![p] = "apply"]
  /\ enabled' = [enabled EXCEPT ![p] = FALSE]
  /\ token' = [token EXCEPT ![p] = None]
  /\ failing' = [failing EXCEPT ![p] = FALSE]
  /\ UNCHANGED <<dirVars, stage, unitVars, history>>

EmptyRun ==
  /\ stage' = None /\ mask' = FALSE
  /\ srv' = "inactive" /\ serving' = None
  /\ loadedCond' = fileCond
  /\ lock' = NoProc
  /\ pc' = [p \in Procs |-> "idle"]
  /\ op' = [p \in Procs |-> "apply"]
  /\ enabled' = [p \in Procs |-> FALSE]
  /\ token' = [p \in Procs |-> None]
  /\ failing' = [p \in Procs |-> FALSE]
  /\ UNCHANGED <<fileCond, history>>

Reboot == EmptyRun /\ disk' = cache /\ UNCHANGED cache

\* Each unsynced directory change has reached the disk or has not.
PowerLoss ==
  /\ EmptyRun
  /\ cache' \in [marker : {cache.marker, disk.marker},
                 tmp : {cache.tmp, disk.tmp},
                 live : {cache.live, disk.live}]
  /\ disk' = cache'

Step(p) ==
  \/ Acquire(p) \/ Inhibit(p) \/ InhibitSync(p) \/ WasEnabled(p)
  \/ Mask(p) \/ SeenStopped(p) \/ Verify(p) \/ ReadToken(p)
  \/ CreateTmp(p) \/ WriteTmp(p) \/ RenameLive(p) \/ LiveSync(p)
  \/ ClearMarker(p) \/ ClearSync(p) \/ Unmask(p) \/ IssueStart(p) \/ Started(p)
  \/ Error(p) \/ CompensatedError(p)

Systemd == StartJob \/ ServerUp \/ ServerDown \/ Deploy \/ DaemonReload

Next ==
  \/ \E p \in Procs : Step(p) \/ Kill(p) \/ \E o \in {"apply", "revoke"} : Begin(p, o)
  \/ \E t \in Tokens : Stage(t)
  \/ Systemd
  \/ Reboot \/ PowerLoss

Spec == Init /\ [][Next]_vars

\* Every call a process makes has a deadline, so a running process goes on.
FairSpec == Spec /\ \A p \in Procs : WF_vars(Step(p))

(***************************************************************************)
(* Properties                                                              *)
(***************************************************************************)

\* The live policy changes only while the server is down: maskAndWait proves
\* the stop, and nothing can start the unit before installPolicy's rename.
ReplaceOnlyWhileStopped ==
  [][cache'.live # cache.live => srv' = "inactive"]_vars

\* A running server never enforces a policy other than the live one, whatever
\* was promoted, revoked, killed or rebooted since it started.
ServedIsLive == srv = "active" => serving = cache.live

\* Until a replaced policy is durable the marker is: a power loss between
\* rename and directory sync leaves a host that does not start the unit.
ReplacementIsInhibited ==
  cache.live # disk.live => cache.marker /\ disk.marker

\* After a successful revoke no server serves a token, across kills, reboots
\* and power losses, until an apply commits by removing the marker.
RevocationSticks == revoked => serving \notin Tokens

\* What the last successful transaction reported survives power loss: the
\* policy on disk is the one it installed, inhibited exactly if it revoked.
DurableSuccess ==
  committed # None =>
    \A d \in {cache, disk} :
      d.live = committed /\ (d.marker <=> lastDone = "revoke")

\* A failStop that verified its stop, under either of its two proofs, leaves the server down and unable to start.
FailStopHolds ==
  [][\A p \in Procs :
       failing[p] /\ (SeenStopped(p) \/ Verify(p)) /\ pc'[p] = "idle"
         => srv' = "inactive" /\ ~StartAllowed']_vars

\* A process that holds the transaction lock gives it up, even when the unit
\* never stops or a call hangs until its deadline.
LockReleased == \A p \in Procs : (lock = p) ~> (lock # p)

\* The transaction implements the promise of PolicyPromotion: what holds the
\* server down is the marker together with a loaded unit that heeds it.
Promise == INSTANCE PolicyPromotion WITH
  Initial <- "absent",
  live    <- cache.live,
  running <- srv # "inactive",
  serving <- serving,
  held    <- Inhibited

PromiseSpec == Promise!PSpec

\* docs/rog-ssh-relay.md:82-83: a failed or interrupted transaction is
\* recovered by running stage and apply again, so the policy installation of a
\* later transaction is never refused for what an earlier one left behind.
RerunCanInstall == \A p \in Procs : pc[p] = "create" => ~cache.tmp

\* docs/rog-ssh-relay.md:54-55: a previously revoked unit is not automatically
\* started again by apply.
RevokedNotRestarted ==
  \A p \in Procs : pc[p] = "start" => lastDone # "revoke"
=============================================================================
