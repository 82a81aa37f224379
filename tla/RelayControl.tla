----------------------------- MODULE RelayControl -----------------------------
(***************************************************************************)
(* relayctl, the manual control of the relay client on the Mac             *)
(* (internal/sshrelay/relay.go, launchctl.go, cmd/relayctl).               *)
(*                                                                         *)
(* relayctl processes run on, off, credentials apply and credentials       *)
(* revoke.  They share a state file (the intent and its generation), the   *)
(* staged and the live credential, a flock and one launchd job.  off,      *)
(* apply and revoke hold the lock throughout; on gives it up between       *)
(* saving the intent and each launchctl call that acts on it.  Every file  *)
(* or launchctl call is a step; it may fail, a failing launchctl call may  *)
(* have had its effect, and a process may be killed before any step.       *)
(*                                                                         *)
(* Abstracted: path, owner and mode checks (they make a step fail), the    *)
(* text of the header file (it is the token it carries), poll intervals,   *)
(* and status, which only reads.                                           *)
(***************************************************************************)
EXTENDS Naturals

CONSTANTS
  Procs,    \* relayctl processes
  Tokens,   \* authorization tokens that pass validation
  NoProc,   \* the lock is free, or nobody has written the state
  None,     \* no token staged, no headers loaded
  MaxGen    \* bound: no command begins once the generation has reached it

ASSUME ConstantsAssumption ==
  /\ NoProc \notin Procs
  /\ None \notin Tokens \cup {"absent"}
  /\ "absent" \notin Tokens
  /\ MaxGen \in Nat

VARIABLES
  st,       \* state.json
  stage,    \* staged token, or None
  headers,  \* live header file, "absent" or the token in it
  lock,     \* holder of state.lock
  job,      \* launchd's job
  using,    \* headers the running client has loaded, or None
  pc, op, gen, was, token, bad,  \* locals of each process
  author,   \* history: the process that wrote the state last
  stopped   \* history: off or revoke returned nil and no on was accepted since

launchd  == <<job, using>>
procVars == <<op, gen, was, token, bad>>
history  == <<author, stopped>>
vars == <<st, stage, headers, lock, job, using, pc, op, gen, was, token, bad,
          author, stopped>>

Headers    == Tokens \cup {"absent"}
Ops        == {"on", "off", "apply", "revoke"}
OnSteps    == {"onPrint", "bootLock", "kickLock"}
FileSteps  == {"clear", "read", "install"}
FailSteps  == {"failBootout", "failWait", "failSave"}
CredSteps  == {"bump", "bootout", "wait", "save", "print"} \cup FileSteps \cup FailSteps
StartSteps == {"bootstrap", "kick"}
Locked     == {"onWrite", "offWrite", "offBootout"} \cup CredSteps \cup StartSteps
Steps      == {"idle", "lock"} \cup OnSteps \cup Locked
Alive      == {"starting", "running"}

TypeOK ==
  /\ st \in [enabled : BOOLEAN, gen : Nat]
  /\ stage \in Tokens \cup {None}
  /\ headers \in Headers
  /\ lock \in Procs \cup {NoProc}
  /\ job \in {"unloaded", "idle", "removing"} \cup Alive
  /\ using \in Tokens \cup {None}
  /\ pc \in [Procs -> Steps]
  /\ op \in [Procs -> Ops]
  /\ gen \in [Procs -> Nat]
  /\ was \in [Procs -> BOOLEAN]
  /\ token \in [Procs -> Tokens \cup {None}]
  /\ bad \in [Procs -> BOOLEAN]
  /\ author \in Procs \cup {NoProc}
  /\ stopped \in BOOLEAN

\* The agent is registered at login, or was booted out before.
Init ==
  /\ st = [enabled |-> FALSE, gen |-> 0]
  /\ stage = None /\ headers = "absent"
  /\ lock = NoProc
  /\ job \in {"unloaded", "idle"} /\ using = None
  /\ pc = [p \in Procs |-> "idle"]
  /\ op = [p \in Procs |-> "on"]
  /\ gen = [p \in Procs |-> 0]
  /\ was = [p \in Procs |-> FALSE]
  /\ token = [p \in Procs |-> None]
  /\ bad = [p \in Procs |-> FALSE]
  /\ author = NoProc /\ stopped = FALSE

Goto(p, s) == pc' = [pc EXCEPT ![p] = s]

Forget(p) ==
  /\ op' = [op EXCEPT ![p] = "on"]
  /\ gen' = [gen EXCEPT ![p] = 0]
  /\ was' = [was EXCEPT ![p] = FALSE]
  /\ token' = [token EXCEPT ![p] = None]
  /\ bad' = [bad EXCEPT ![p] = FALSE]

\* A return drops the lock if the process has it, and the locals.
Return(p) ==
  /\ Goto(p, "idle")
  /\ lock' = IF lock = p THEN NoProc ELSE lock
  /\ Forget(p)

(***************************************************************************)
(* launchd.  The job runs only when kicked (RunAtLoad and KeepAlive are    *)
(* false); bootout of a running job returns before the client is gone, and *)
(* print goes on finding the job until then.                               *)
(***************************************************************************)
BootedOut   == IF job \in {"unloaded", "idle"} THEN "unloaded" ELSE "removing"
Bootstrapped == IF job = "unloaded" THEN "idle" ELSE job
Kicked      == IF job = "idle" THEN "starting" ELSE job

\* The client validates the header file and runs the tunnel with it.
ClientUp ==
  /\ job = "starting"
  /\ IF headers = "absent" THEN job' = "idle" /\ UNCHANGED using
                           ELSE job' = "running" /\ using' = headers
  /\ UNCHANGED <<st, stage, headers, lock, pc, procVars, history>>

ClientExit ==
  /\ job \in Alive \cup {"removing"}
  /\ job' = IF job = "removing" THEN "unloaded" ELSE "idle"
  /\ using' = None
  /\ UNCHANGED <<st, stage, headers, lock, pc, procVars, history>>

(***************************************************************************)
(* Commands                                                                *)
(***************************************************************************)
\* credentials stage, atomic under the lock.
Stage(t) ==
  /\ lock = NoProc
  /\ stage' = t
  /\ UNCHANGED <<st, headers, lock, launchd, pc, procVars, history>>

Begin(p, o) ==
  /\ pc[p] = "idle" /\ st.gen < MaxGen
  /\ Goto(p, "lock")
  /\ op' = [op EXCEPT ![p] = o]
  /\ UNCHANGED <<st, stage, headers, lock, launchd, gen, was, token, bad, history>>

FirstStep(o) ==
  CASE o = "on" -> "onWrite" [] o = "off" -> "offWrite" [] OTHER -> "bump"

Acquire(p) ==
  /\ pc[p] = "lock" /\ lock = NoProc
  /\ lock' = p
  /\ Goto(p, FirstStep(op[p]))
  /\ UNCHANGED <<st, stage, headers, launchd, procVars, history>>

\* writeState: an atomic rename, always under the lock.
Write(p, e, g) == st' = [enabled |-> e, gen |-> g] /\ author' = p

OnWrite(p) ==
  /\ pc[p] = "onWrite"
  /\ Write(p, TRUE, st.gen + 1)
  /\ gen' = [gen EXCEPT ![p] = st.gen + 1]
  /\ stopped' = FALSE
  /\ lock' = NoProc
  /\ Goto(p, "onPrint")
  /\ UNCHANGED <<stage, headers, launchd, op, was, token, bad>>

\* Print runs without the lock; its answer may be stale when it is used.
OnPrint(p) ==
  /\ pc[p] = "onPrint"
  /\ Goto(p, IF job = "unloaded" THEN "bootLock" ELSE "kickLock")
  /\ UNCHANGED <<st, stage, headers, lock, launchd, procVars, history>>

\* Mutants of the generation check.
CurrentAlways(p) == TRUE
CurrentEnabled(p) == st.enabled

Current(p) == st.enabled /\ st.gen = gen[p]

\* currentGenerationCall: ErrSuperseded unless the intent is still this one's.
OnAcquire(p) ==
  /\ pc[p] \in {"bootLock", "kickLock"} /\ lock = NoProc
  /\ IF Current(p)
       THEN /\ lock' = p
            /\ Goto(p, IF pc[p] = "bootLock" THEN "bootstrap" ELSE "kick")
            /\ UNCHANGED procVars
       ELSE Return(p)
  /\ UNCHANGED <<st, stage, headers, launchd, history>>

\* on gives the lock up after each call; startLocked keeps it.
Bootstrap(p) ==
  /\ pc[p] = "bootstrap" /\ job = "unloaded"
  /\ job' = "idle"
  /\ IF op[p] = "on" THEN lock' = NoProc /\ Goto(p, "kickLock")
                     ELSE Goto(p, "kick") /\ UNCHANGED lock
  /\ UNCHANGED <<st, stage, headers, using, procVars, history>>

Kickstart(p) ==
  /\ pc[p] = "kick" /\ job \in Alive \cup {"idle"}
  /\ job' = Kicked
  /\ Return(p)
  /\ UNCHANGED <<st, stage, headers, using, history>>

\* off boots the job out even when the state could not be read or replaced.
OffWrite(p) ==
  /\ pc[p] = "offWrite"
  /\ \/ Write(p, FALSE, st.gen + 1) /\ UNCHANGED bad
     \/ bad' = [bad EXCEPT ![p] = TRUE] /\ UNCHANGED <<st, author>>
  /\ Goto(p, "offBootout")
  /\ UNCHANGED <<stage, headers, lock, launchd, op, gen, was, token, stopped>>

OffBootout(p) ==
  /\ pc[p] = "offBootout"
  /\ job' = BootedOut
  /\ stopped' = (stopped \/ ~bad[p])
  /\ Return(p)
  /\ UNCHANGED <<st, stage, headers, using, author>>

(***************************************************************************)
(* credentials apply and revoke: invalidate every on in flight, stop the   *)
(* client, change the file, save the intent, start again if it was on.     *)
(***************************************************************************)
Bump(p) ==
  /\ pc[p] = "bump"
  /\ Write(p, st.enabled, st.gen + 1)
  /\ gen' = [gen EXCEPT ![p] = st.gen + 1]
  /\ was' = [was EXCEPT ![p] = st.enabled]
  /\ Goto(p, "bootout")
  /\ UNCHANGED <<stage, headers, lock, launchd, op, token, bad, stopped>>

AfterStop(p) ==
  IF op[p] = "revoke" THEN "clear" ELSE "read"

\* Mutant: bootout's return is taken for the client's end.
BootoutNoWait(p) ==
  /\ pc[p] \in {"bootout", "failBootout"}
  /\ job' = BootedOut
  /\ Goto(p, IF pc[p] = "bootout" THEN AfterStop(p) ELSE "failSave")
  /\ UNCHANGED <<st, stage, headers, lock, using, procVars, history>>

\* A job that was not loaded needs no wait.
Bootout(p) ==
  /\ pc[p] \in {"bootout", "failBootout"}
  /\ job' = BootedOut
  /\ Goto(p, IF pc[p] = "bootout"
               THEN IF job = "unloaded" THEN AfterStop(p) ELSE "wait"
               ELSE IF job = "unloaded" THEN "failSave" ELSE "failWait")
  /\ UNCHANGED <<st, stage, headers, lock, using, procVars, history>>

WaitGone(p) ==
  /\ pc[p] \in {"wait", "failWait"} /\ job = "unloaded"
  /\ Goto(p, IF pc[p] = "wait" THEN AfterStop(p) ELSE "failSave")
  /\ UNCHANGED <<st, stage, headers, lock, launchd, procVars, history>>

ClearHeaders(p) ==
  /\ pc[p] = "clear"
  /\ headers' = "absent"
  /\ gen' = [gen EXCEPT ![p] = @ + 1]
  /\ Goto(p, "save")
  /\ UNCHANGED <<st, stage, lock, launchd, op, was, token, bad, history>>

\* Mutant: an empty stage passes ReadAuthorizationToken.
ReadStageUnchecked(p) ==
  /\ pc[p] = "read"
  /\ token' = [token EXCEPT ![p] = stage]
  /\ Goto(p, "install")
  /\ UNCHANGED <<st, stage, headers, lock, launchd, op, gen, was, bad, history>>

ReadStage(p) ==
  /\ pc[p] = "read" /\ stage # None
  /\ token' = [token EXCEPT ![p] = stage]
  /\ Goto(p, "install")
  /\ UNCHANGED <<st, stage, headers, lock, launchd, op, gen, was, bad, history>>

InstallHeaders(p) ==
  /\ pc[p] = "install"
  /\ headers' = token[p]
  /\ Goto(p, "save")
  /\ UNCHANGED <<st, stage, lock, launchd, procVars, history>>

\* Mutant: applying credentials always starts the relay.
RestartAlways(p) == op[p] = "apply"

Restart(p) == op[p] = "apply" /\ was[p]

\* revoke disables the intent here; apply writes the state it bumped again.
Save(p) ==
  /\ pc[p] = "save"
  /\ Write(p, op[p] = "apply" /\ was[p], gen[p])
  /\ IF Restart(p) THEN Goto(p, "print") /\ UNCHANGED <<lock, procVars>>
                   ELSE Return(p)
  /\ stopped' = (stopped \/ op[p] = "revoke")
  /\ UNCHANGED <<stage, headers, launchd>>

StartPrint(p) ==
  /\ pc[p] = "print"
  /\ Goto(p, IF job = "unloaded" THEN "bootstrap" ELSE "kick")
  /\ UNCHANGED <<st, stage, headers, lock, launchd, procVars, history>>

\* Mutant: a failed promotion keeps the intent.
FailSaveKeeps(p) ==
  /\ pc[p] = "failSave"
  /\ Write(p, was[p], gen[p] + 1)
  /\ Return(p)
  /\ UNCHANGED <<stage, headers, launchd, stopped>>

FailSave(p) ==
  /\ pc[p] = "failSave"
  /\ Write(p, FALSE, gen[p] + 1)
  /\ Return(p)
  /\ UNCHANGED <<stage, headers, launchd, stopped>>

(***************************************************************************)
(* Failures.  Effect is what launchd may have done of a call that failed.  *)
(***************************************************************************)
Effect(p) ==
  CASE pc[p] \in {"bootout", "failBootout", "offBootout"} -> {job, BootedOut}
    [] pc[p] = "bootstrap"                                -> {job, Bootstrapped}
    [] pc[p] = "kick"                                     -> {job, Kicked}
    [] OTHER                                              -> {job}

\* Mutant: the poll for the client's end has no deadline.
AbortsNoDeadline == CredSteps \ (FailSteps \cup {"bump", "wait"})

\* Steps whose failure credentials answers with credentialsFail.
Aborts == CredSteps \ (FailSteps \cup {"bump"})

Compensated(p) ==
  pc[p] \in Aborts \/ (pc[p] \in StartSteps /\ op[p] # "on")

\* Before the first write, and on's own calls: just return the error.
Error(p) ==
  /\ pc[p] \in {"lock", "onWrite", "offBootout", "bump"} \cup OnSteps
       \/ (pc[p] \in StartSteps /\ op[p] = "on")
  /\ job' \in Effect(p)
  /\ Return(p)
  /\ UNCHANGED <<st, stage, headers, using, history>>

\* revoke has counted its generation up when saving it fails.
CredentialsFail(p) ==
  /\ Compensated(p)
  /\ job' \in Effect(p)
  /\ Goto(p, "failBootout")
  /\ UNCHANGED <<st, stage, headers, lock, using, procVars, history>>

\* credentialsFail collects the errors of its own calls and goes on.
CleanupError(p) ==
  /\ pc[p] \in {"failBootout", "failWait"}
  /\ job' \in Effect(p)
  /\ bad' = [bad EXCEPT ![p] = TRUE]
  /\ Goto(p, "failSave")
  /\ UNCHANGED <<st, stage, headers, lock, using, op, gen, was, token, history>>

FailSaveError(p) ==
  /\ pc[p] = "failSave"
  /\ Return(p)
  /\ UNCHANGED <<st, stage, headers, launchd, history>>

Kill(p) ==
  /\ pc[p] # "idle"
  /\ Return(p)
  /\ UNCHANGED <<st, stage, headers, launchd, history>>

\* Logout or reboot: processes die, the agent is registered again at login.
Login ==
  /\ job' = "idle" /\ using' = None
  /\ lock' = NoProc
  /\ pc' = [p \in Procs |-> "idle"]
  /\ op' = [p \in Procs |-> "on"]
  /\ gen' = [p \in Procs |-> 0]
  /\ was' = [p \in Procs |-> FALSE]
  /\ token' = [p \in Procs |-> None]
  /\ bad' = [p \in Procs |-> FALSE]
  /\ UNCHANGED <<st, stage, headers, history>>

Step(p) ==
  \/ Acquire(p) \/ OnWrite(p) \/ OnPrint(p) \/ OnAcquire(p)
  \/ Bootstrap(p) \/ Kickstart(p) \/ OffWrite(p) \/ OffBootout(p)
  \/ Bump(p) \/ Bootout(p) \/ WaitGone(p) \/ ClearHeaders(p) \/ ReadStage(p)
  \/ InstallHeaders(p) \/ Save(p) \/ StartPrint(p) \/ FailSave(p)
  \/ Error(p) \/ CredentialsFail(p) \/ CleanupError(p) \/ FailSaveError(p)

Next ==
  \/ \E p \in Procs : Step(p) \/ Kill(p) \/ \E o \in Ops : Begin(p, o)
  \/ \E t \in Tokens : Stage(t)
  \/ ClientUp \/ ClientExit \/ Login

Spec == Init /\ [][Next]_vars

\* Every call and every poll runs under a deadline, so a process goes on.
FairSpec == Spec /\ \A p \in Procs : WF_vars(Step(p))

(***************************************************************************)
(* Properties                                                              *)
(***************************************************************************)

\* The live header file changes only when no client runs or is going down,
\* although bootout returns early and on may be between any two of its calls.
HeadersChangeWhileStopped ==
  [][headers' # headers => job' \notin Alive \cup {"removing"}]_vars

\* A client that runs or is going down uses the live headers: no apply or
\* revoke leaves the old credential in use, whatever failed on the way.
ClientUsesLiveHeaders == using # None => using = headers

\* After off or revoke has returned nil the client stays down until an on is
\* accepted, even when an earlier on or an apply was in flight.
OffSticks == stopped => job \notin Alive

\* launchctl bootstrap and kickstart are called only for the command that
\* wrote the state last: an on that anything superseded starts nothing.
NewestCommandStarts == \A p \in Procs : pc[p] \in StartSteps => author = p

\* The client is started only under an enabled intent, so applying
\* credentials while off keeps it off.
StartsOnlyWhenEnabled ==
  [][job' = "starting" /\ job # "starting" => st'.enabled]_vars

\* A failed apply or revoke whose cleanup worked leaves the client stopped
\* and the intent off.
FailedPromotionStops ==
  [][\A p \in Procs : pc[p] = "failSave" /\ ~bad[p] /\ st' # st
       => ~st'.enabled /\ job' \notin Alive \cup {"removing"}]_vars

\* Every command comes to an end, and gives the lock back, even when the
\* client never stops or the lock is never free.
CommandsReturn == \A p \in Procs : pc[p] # "idle" ~> pc[p] = "idle"

\* A client keeps the promise of PolicyPromotion that the server keeps:
\* what holds it down is a job that is not loaded.
Promise == INSTANCE PolicyPromotion WITH
  Policies <- Headers,
  Initial <- "absent",
  live    <- headers,
  running <- job \in Alive \cup {"removing"},
  serving <- using,
  held    <- job = "unloaded"

PromiseSpec == Promise!PSpec

\* relay_test.go:400-401: a later on bootstraps and kickstarts, "later on was
\* incorrectly suppressed" otherwise: its kickstart finds a loaded job.
LaterOnFindsJob ==
  \A p \in Procs : pc[p] = "kick" => job # "unloaded"
=============================================================================
