-------------------------- MODULE RelayPolicy_proofs --------------------------
(***************************************************************************)
(* Proofs about RelayPolicy for any number of processes and tokens.  The   *)
(* properties are consequences of IInv: what a process that has reached a  *)
(* given step knows about the marker, the unit and the directory.          *)
(***************************************************************************)
EXTENDS RelayPolicy, TLAPS

Held     == {"inhibit", "inhibitSync", "query", "mask", "wait", "verify",
             "read", "create", "write", "rename", "liveSync", "clear",
             "clearSync", "unmask", "start", "startWait"}
Proven   == {"read", "create", "write", "rename", "liveSync", "clear"}
Durable  == {"query", "mask", "wait", "verify"} \cup Proven
Cleared  == {"unmask", "start", "startWait"}

\* The part of TypeOK about the processes.
LocalsOK ==
  /\ pc \in [Procs -> Steps] /\ op \in [Procs -> {"apply", "revoke"}]
  /\ enabled \in [Procs -> BOOLEAN] /\ token \in [Procs -> Tokens \cup {None}]
  /\ failing \in [Procs -> BOOLEAN] /\ lock \in Procs \cup {NoProc}

\* The process between Acquire and Return is the one that has the lock.
LockInv == \A p \in Procs : pc[p] \in Held <=> lock = p

\* Only a compensating process is failing, and it never replaces anything.
FailingInv ==
  \A p \in Procs : failing[p] =>
    op[p] = "apply" /\ pc[p] \in {"inhibit", "inhibitSync", "mask", "wait", "verify"}

\* Only an apply asks for the unit's state, reads a token and commits.
OpInv ==
  \A p \in Procs : pc[p] \in {"query", "read", "clear", "clearSync"} \cup Cleared
                     => op[p] = "apply"

\* An apply about to install a policy has read a token.
TokenInv ==
  \A p \in Procs : op[p] = "apply" /\ pc[p] \in {"create", "write", "rename"}
                     => token[p] \in Tokens

\* A deployment never takes the condition away.
CondInv ==
  /\ loadedCond => fileCond
  /\ ~OldUnit => loadedCond

\* The marker is there, and durable once synced, until the commit removes it.
MarkerInv ==
  \A p \in Procs : ~failing[p] =>
    /\ pc[p] \in {"inhibitSync"} \cup Durable => cache.marker
    /\ pc[p] \in Durable => disk.marker

\* A process past maskAndWait has a stopped server that cannot start.
StoppedInv ==
  \A p \in Procs :
    /\ pc[p] = "verify" /\ Inhibited => srv = "inactive"
    /\ pc[p] \in Proven => srv = "inactive" /\ loadedCond

ServingInv ==
  /\ srv = "active" => serving = cache.live
  /\ srv \in {"inactive", "starting"} => serving = None

DurableInv ==
  /\ cache.live # disk.live => cache.marker /\ disk.marker /\ loadedCond
  /\ \A p \in Procs : pc[p] = "clear" => cache.live = disk.live
  /\ \A p \in Procs : pc[p] \in {"clearSync"} \cup Cleared => ~cache.marker
  /\ \A p \in Procs : pc[p] \in Cleared => ~disk.marker

RevokedInv ==
  revoked => srv = "inactive" /\ Inhibited /\ disk.marker

CommittedInv ==
  committed # None => lock = NoProc /\ DurableSuccess

Control == LockInv /\ FailingInv /\ OpInv /\ TokenInv
Protect == CondInv /\ MarkerInv /\ StoppedInv /\ ServingInv
Persist == DurableInv /\ RevokedInv /\ CommittedInv

IInv == TypeOK /\ Control /\ Protect /\ Persist

LEMMA InitEstablishes == Init => IInv
<1> SUFFICES ASSUME Init PROVE IInv
  OBVIOUS
<1>1. fileCond \in BOOLEAN /\ (~OldUnit => fileCond)
  BY DEF Init
<1>2. cache \in Dir /\ disk \in Dir
  BY DEF Init, Dir, Policies
<1>3. TypeOK
  BY <1>1, <1>2 DEF Init, TypeOK, Steps
<1>4. Control /\ MarkerInv /\ StoppedInv
  BY ConstantsAssumption DEF Init, Control, LockInv, FailingInv, OpInv, TokenInv,
     MarkerInv, StoppedInv, Held, Proven, Durable, Cleared
<1>5. CondInv /\ ServingInv /\ Persist
  BY <1>1 DEF Init, CondInv, ServingInv, Persist, DurableInv, RevokedInv,
     CommittedInv, Cleared
<1> QED
  BY <1>3, <1>4, <1>5 DEF IInv, Protect

LEMMA ReturnTypes ==
  ASSUME TypeOK, NEW p \in Procs, Return(p)
  PROVE  LocalsOK'
BY DEF TypeOK, Return, Goto, LocalsOK, Steps

LEMMA GotoTypes ==
  ASSUME TypeOK, NEW p \in Procs, NEW s \in Steps, Goto(p, s),
         UNCHANGED <<lock, procVars>>
  PROVE  LocalsOK'
BY DEF TypeOK, Goto, LocalsOK, procVars

LEMMA DurablyInhibitedMeans ==
  ASSUME TypeOK, DurablyInhibited
  PROVE  loadedCond /\ cache.marker
<1>1. fileCond = loadedCond
  BY DEF DurablyInhibited, NeedReload
<1>2. fileCond /\ cache.marker
  BY DEF DurablyInhibited
<1>3. loadedCond = TRUE
  BY <1>1, <1>2 DEF TypeOK
<1> QED
  BY <1>2, <1>3

\* Types are kept: what a step does to the locals is a Goto or a Return.
LEMMA StepTypes ==
  ASSUME IInv, NEW p \in Procs, Step(p)
  PROVE  TypeOK'
<1> USE DEF IInv, TypeOK, Policies, dirVars, unitVars, procVars, history
<1>1. LocalsOK'
  <2>1. CASE Return(p)
    BY <2>1, ReturnTypes
  <2>2. CASE \E s \in Steps : Goto(p, s) /\ UNCHANGED <<lock, procVars>>
    BY <2>2, GotoTypes
  <2>3. CASE Acquire(p) \/ WasEnabled(p) \/ ReadToken(p) \/ CompensatedError(p)
    BY <2>3 DEF Acquire, WasEnabled, IsEnabled, MaskWorks, ReadToken,
       CompensatedError, Goto, LocalsOK, Steps
  <2>4. Return(p) \/ (\E s \in Steps : Goto(p, s) /\ UNCHANGED <<lock, procVars>>)
        \/ Acquire(p) \/ WasEnabled(p) \/ ReadToken(p) \/ CompensatedError(p)
    BY DEF Step, Inhibit, InhibitSync, Mask, SeenStopped, Verify, AfterStop, CreateTmp,
       WriteTmp, RenameLive, LiveSync, ClearMarker, ClearSync, Unmask, ApplyDone,
       IssueStart, Started, Error, Steps
  <2> QED
    BY <2>1, <2>2, <2>3, <2>4
<1>2. cache' \in Dir /\ disk' \in Dir
  <2>1. CASE RenameLive(p)
    BY <2>1 DEF RenameLive, NewPolicy, Control, TokenInv, Dir
  <2>2. CASE ~RenameLive(p)
    BY <2>2 DEF Step, Acquire, Inhibit, InhibitSync, WasEnabled, Mask, SeenStopped,
       Verify, ReadToken, CreateTmp, WriteTmp, LiveSync, ClearMarker, ClearSync,
       Unmask, IssueStart, Started, Error, CompensatedError, Dir
  <2> QED
    BY <2>1, <2>2
<1>3. /\ stage' \in Tokens \cup {None} /\ mask' \in BOOLEAN
      /\ fileCond' \in BOOLEAN /\ loadedCond' \in BOOLEAN
      /\ srv' \in {"inactive", "starting", "active", "stopping"}
      /\ serving' \in Policies \cup {None}
  BY DEF Step, Acquire, Inhibit, InhibitSync, WasEnabled, Mask, StopIssued, SeenStopped,
     Verify, ReadToken, CreateTmp, WriteTmp, RenameLive, LiveSync, ClearMarker, ClearSync,
     Unmask, IssueStart, Started, Error, CompensatedError
<1>4. /\ committed' \in Policies \cup {None} /\ revoked' \in BOOLEAN
      /\ lastDone' \in {"none", "apply", "revoke"}
  BY DEF Step, Acquire, Inhibit, InhibitSync, WasEnabled, Mask, SeenStopped,
     Verify, ReadToken, CreateTmp, WriteTmp, RenameLive, LiveSync, ClearMarker, ClearSync,
     Unmask, ApplyDone, IssueStart, Started, Error, CompensatedError, Dir
<1> QED
  BY <1>1, <1>2, <1>3, <1>4 DEF LocalsOK

\* Who holds the lock, and what the locals say at each step.
LEMMA StepControl ==
  ASSUME IInv, NEW p \in Procs, Step(p)
  PROVE  Control'
<1> USE ConstantsAssumption
    DEF IInv, TypeOK, Dir, Policies, Steps, Held, Proven, Durable, Cleared,
        Inhibited, Goto, Return, dirVars, unitVars, procVars, history,
        Control, LockInv, FailingInv, OpInv, TokenInv
<1>1. CASE Acquire(p)
  BY <1>1 DEF Acquire
<1>2. CASE Inhibit(p)
  BY <1>2 DEF Inhibit
<1>3. CASE InhibitSync(p)
  BY <1>3 DEF InhibitSync
<1>4. CASE WasEnabled(p)
  BY <1>4 DEF WasEnabled, IsEnabled, MaskWorks
<1>5. CASE Mask(p)
  BY <1>5 DEF Mask, StopIssued
<1>6. CASE SeenStopped(p)
  BY <1>6 DEF SeenStopped, AfterStop, LoadState, MaskWorks
<1>7. CASE Verify(p)
  BY <1>7 DEF Verify, AfterStop, DurablyInhibited, NeedReload
<1>8. CASE ReadToken(p)
  BY <1>8 DEF ReadToken
<1>9. CASE CreateTmp(p)
  BY <1>9 DEF CreateTmp
<1>10. CASE WriteTmp(p)
  BY <1>10 DEF WriteTmp
<1>11. CASE RenameLive(p)
  BY <1>11 DEF RenameLive, NewPolicy
<1>12. CASE LiveSync(p)
  BY <1>12 DEF LiveSync
<1>13. CASE ClearMarker(p)
  BY <1>13 DEF ClearMarker
<1>14. CASE ClearSync(p)
  BY <1>14 DEF ClearSync
<1>15. CASE Unmask(p)
  BY <1>15 DEF Unmask, ApplyDone
<1>16. CASE IssueStart(p)
  BY <1>16 DEF IssueStart, StartAllowed
<1>17. CASE Started(p)
  BY <1>17 DEF Started, ApplyDone
<1>18. CASE Error(p)
  BY <1>18 DEF Error, PlainErrorSteps
<1>19. CASE CompensatedError(p)
  BY <1>19 DEF CompensatedError
<1> QED
  BY <1>1, <1>2, <1>3, <1>4, <1>5, <1>6, <1>7, <1>8, <1>9, <1>10,
     <1>11, <1>12, <1>13, <1>14, <1>15, <1>16, <1>17, <1>18, <1>19 DEF Step

\* The marker, the unit and the server at each step.
LEMMA StepProtect ==
  ASSUME IInv, NEW p \in Procs, Step(p)
  PROVE  Protect'
<1> USE ConstantsAssumption
    DEF IInv, TypeOK, Dir, Policies, Steps, Held, Proven, Durable, Cleared,
        Inhibited, Goto, Return, dirVars, unitVars, procVars, history,
        Control, LockInv, FailingInv, OpInv, Protect, CondInv, MarkerInv,
        StoppedInv, ServingInv
<1>1. CASE Acquire(p)
  BY <1>1 DEF Acquire
<1>2. CASE Inhibit(p)
  BY <1>2 DEF Inhibit
<1>3. CASE InhibitSync(p)
  BY <1>3 DEF InhibitSync
<1>4. CASE WasEnabled(p)
  BY <1>4 DEF WasEnabled, IsEnabled, MaskWorks
<1>5. CASE Mask(p)
  BY <1>5 DEF Mask, StopIssued
<1>6. CASE SeenStopped(p)
  BY <1>6, UnitAssumption DEF SeenStopped, AfterStop, LoadState, MaskWorks
<1>7. CASE Verify(p)
  <2>1. loadedCond /\ cache.marker
    BY <1>7, DurablyInhibitedMeans DEF Verify
  <2> QED
    BY <1>7, <2>1 DEF Verify, AfterStop
<1>8. CASE ReadToken(p)
  BY <1>8 DEF ReadToken
<1>9. CASE CreateTmp(p)
  BY <1>9 DEF CreateTmp
<1>10. CASE WriteTmp(p)
  BY <1>10 DEF WriteTmp
<1>11. CASE RenameLive(p)
  BY <1>11 DEF RenameLive, NewPolicy
<1>12. CASE LiveSync(p)
  BY <1>12 DEF LiveSync
<1>13. CASE ClearMarker(p)
  BY <1>13 DEF ClearMarker
<1>14. CASE ClearSync(p)
  BY <1>14 DEF ClearSync
<1>15. CASE Unmask(p)
  BY <1>15 DEF Unmask, ApplyDone
<1>16. CASE IssueStart(p)
  BY <1>16 DEF IssueStart, StartAllowed
<1>17. CASE Started(p)
  BY <1>17 DEF Started, ApplyDone
<1>18. CASE Error(p)
  BY <1>18 DEF Error, PlainErrorSteps
<1>19. CASE CompensatedError(p)
  BY <1>19 DEF CompensatedError
<1> QED
  BY <1>1, <1>2, <1>3, <1>4, <1>5, <1>6, <1>7, <1>8, <1>9, <1>10,
     <1>11, <1>12, <1>13, <1>14, <1>15, <1>16, <1>17, <1>18, <1>19 DEF Step

\* What is on disk, and what a success has promised about it.
LEMMA StepPersist ==
  ASSUME IInv, NEW p \in Procs, Step(p)
  PROVE  Persist'
<1> USE ConstantsAssumption
    DEF IInv, TypeOK, Dir, Policies, Steps, Held, Proven, Durable, Cleared,
        Inhibited, Goto, Return, dirVars, unitVars, procVars, history,
        Control, LockInv, FailingInv, OpInv, Protect, CondInv, MarkerInv,
        StoppedInv, Persist, DurableInv, RevokedInv, CommittedInv, DurableSuccess
<1>1. CASE Acquire(p)
  BY <1>1 DEF Acquire
<1>2. CASE Inhibit(p)
  BY <1>2 DEF Inhibit
<1>3. CASE InhibitSync(p)
  BY <1>3 DEF InhibitSync
<1>4. CASE WasEnabled(p)
  BY <1>4 DEF WasEnabled, IsEnabled, MaskWorks
<1>5. CASE Mask(p)
  BY <1>5 DEF Mask, StopIssued
<1>6. CASE SeenStopped(p)
  BY <1>6 DEF SeenStopped, AfterStop, LoadState, MaskWorks
<1>7. CASE Verify(p)
  BY <1>7 DEF Verify, AfterStop, DurablyInhibited, NeedReload
<1>8. CASE ReadToken(p)
  BY <1>8 DEF ReadToken
<1>9. CASE CreateTmp(p)
  BY <1>9 DEF CreateTmp
<1>10. CASE WriteTmp(p)
  BY <1>10 DEF WriteTmp
<1>11. CASE RenameLive(p)
  BY <1>11 DEF RenameLive, NewPolicy
<1>12. CASE LiveSync(p)
  BY <1>12 DEF LiveSync
<1>13. CASE ClearMarker(p)
  BY <1>13 DEF ClearMarker
<1>14. CASE ClearSync(p)
  BY <1>14 DEF ClearSync
<1>15. CASE Unmask(p)
  BY <1>15 DEF Unmask, ApplyDone
<1>16. CASE IssueStart(p)
  BY <1>16 DEF IssueStart, StartAllowed
<1>17. CASE Started(p)
  BY <1>17 DEF Started, ApplyDone
<1>18. CASE Error(p)
  BY <1>18 DEF Error, PlainErrorSteps
<1>19. CASE CompensatedError(p)
  BY <1>19 DEF CompensatedError
<1> QED
  BY <1>1, <1>2, <1>3, <1>4, <1>5, <1>6, <1>7, <1>8, <1>9, <1>10,
     <1>11, <1>12, <1>13, <1>14, <1>15, <1>16, <1>17, <1>18, <1>19 DEF Step

\* Systemd, new invocations and stages; deployments wait for the lock.
LEMMA OutsideKeeps ==
  ASSUME IInv, ~DeployAnytime,
         \/ Systemd
         \/ \E p \in Procs, o \in {"apply", "revoke"} : Begin(p, o)
         \/ \E t \in Tokens : Stage(t)
  PROVE  IInv'
<1> USE ConstantsAssumption
    DEF IInv, TypeOK, Control, LockInv, FailingInv, OpInv, TokenInv, Protect, CondInv,
        MarkerInv, StoppedInv, ServingInv, Persist, DurableInv, RevokedInv,
        CommittedInv, DurableSuccess, Held, Proven, Durable, Cleared, Steps, Inhibited,
        dirVars, unitVars, procVars, history
<1>1. CASE StartJob
  BY <1>1 DEF StartJob, StartAllowed
<1>2. CASE ServerUp
  BY <1>2 DEF ServerUp, Dir
<1>3. CASE ServerDown
  BY <1>3 DEF ServerDown
<1>4. CASE Deploy
  BY <1>4 DEF Deploy
<1>5. CASE DaemonReload
  <2>1. loadedCond' = TRUE /\ fileCond' = TRUE
    BY <1>5 DEF DaemonReload, NeedReload
  <2>2. \A p \in Procs : pc[p] \in {"idle", "lock"}
    BY <1>5 DEF DaemonReload, DeployAllowed
  <2> QED
    BY <1>5, <2>1, <2>2 DEF DaemonReload
<1>6. CASE \E p \in Procs, o \in {"apply", "revoke"} : Begin(p, o)
  BY <1>6 DEF Begin, Goto
<1>7. CASE \E t \in Tokens : Stage(t)
  BY <1>7 DEF Stage
<1> QED
  BY <1>1, <1>2, <1>3, <1>4, <1>5, <1>6, <1>7 DEF Systemd

\* Faults: whatever is lost, what is left still agrees.
LEMMA FaultKeeps ==
  ASSUME IInv, (\E p \in Procs : Kill(p)) \/ Reboot \/ PowerLoss
  PROVE  IInv'
<1> USE ConstantsAssumption
    DEF IInv, TypeOK, Control, LockInv, FailingInv, OpInv, TokenInv, Protect, CondInv,
        MarkerInv, StoppedInv, ServingInv, Persist, DurableInv, RevokedInv,
        CommittedInv, DurableSuccess, Held, Proven, Durable, Cleared, Steps, Inhibited,
        dirVars, unitVars, procVars, history
<1>1. CASE \E p \in Procs : Kill(p)
  BY <1>1 DEF Kill, Goto
<1>2. CASE Reboot
  BY <1>2 DEF Reboot, EmptyRun
<1>3. CASE PowerLoss
  BY <1>3 DEF PowerLoss, EmptyRun, Dir
<1> QED
  BY <1>1, <1>2, <1>3

\* IInv is an inductive invariant of the transaction when no deployment runs
\* while a transaction is open.
THEOREM Invariance == ASSUME ~DeployAnytime PROVE Spec => []IInv
<1>1. Init => IInv
  BY InitEstablishes
<1>2. IInv /\ [Next]_vars => IInv'
  <2> SUFFICES ASSUME IInv, [Next]_vars PROVE IInv'
    OBVIOUS
  <2>1. CASE \E p \in Procs : Step(p)
    BY <2>1, StepTypes, StepControl, StepProtect, StepPersist DEF IInv
  <2>2. CASE (\E p \in Procs : Kill(p)) \/ Reboot \/ PowerLoss
    BY <2>2, FaultKeeps
  <2>3. CASE \/ Systemd
             \/ \E p \in Procs, o \in {"apply", "revoke"} : Begin(p, o)
             \/ \E t \in Tokens : Stage(t)
    BY <2>3, OutsideKeeps
  <2>4. CASE UNCHANGED vars
    BY <2>4 DEF vars, IInv, TypeOK, Control, LockInv, FailingInv, OpInv, TokenInv,
       Protect, CondInv, MarkerInv, StoppedInv, ServingInv, Persist, DurableInv,
       RevokedInv, CommittedInv, DurableSuccess, Inhibited
  <2> QED
    BY <2>1, <2>2, <2>3, <2>4 DEF Next
<1> QED
  BY <1>1, <1>2, PTL DEF Spec

\* Every variable keeps its type (policy.go's state in memory and on disk).
THEOREM TypeCorrect == ASSUME ~DeployAnytime PROVE Spec => []TypeOK
BY Invariance, PTL DEF IInv

\* A running server enforces the live policy.
THEOREM ServedIsLiveAlways == ASSUME ~DeployAnytime PROVE Spec => []ServedIsLive
<1>1. IInv => ServedIsLive
  BY DEF IInv, Protect, ServingInv, ServedIsLive
<1> QED
  BY <1>1, Invariance, PTL

\* A replacement that power loss could undo is inhibited on disk.
THEOREM ReplacementIsInhibitedAlways ==
  ASSUME ~DeployAnytime PROVE Spec => []ReplacementIsInhibited
<1>1. IInv => ReplacementIsInhibited
  BY DEF IInv, Persist, DurableInv, ReplacementIsInhibited
<1> QED
  BY <1>1, Invariance, PTL

\* A revoked credential is not served until an apply commits.
THEOREM RevocationSticksAlways ==
  ASSUME ~DeployAnytime PROVE Spec => []RevocationSticks
<1>1. IInv => RevocationSticks
  BY ConstantsAssumption
  DEF IInv, Persist, RevokedInv, Protect, ServingInv, RevocationSticks
<1> QED
  BY <1>1, Invariance, PTL

\* A reported success is on disk.
THEOREM DurableSuccessAlways == ASSUME ~DeployAnytime PROVE Spec => []DurableSuccess
<1>1. IInv => DurableSuccess
  <2>1. CASE committed = None
    BY <2>1 DEF DurableSuccess
  <2>2. CASE committed # None
    BY <2>2 DEF IInv, Persist, CommittedInv
  <2> QED
    BY <2>1, <2>2
<1> QED
  BY <1>1, Invariance, PTL

\* The live policy is replaced only while the server is down.
THEOREM ReplaceOnlyWhileStoppedAlways ==
  ASSUME ~DeployAnytime PROVE Spec => ReplaceOnlyWhileStopped
<1>1. IInv /\ [Next]_vars => [cache'.live # cache.live => srv' = "inactive"]_vars
  <2> SUFFICES ASSUME IInv, Next, cache'.live # cache.live PROVE srv' = "inactive"
    OBVIOUS
  <2>1. (\E p \in Procs : RenameLive(p)) \/ PowerLoss
    BY DEF IInv, TypeOK, Dir, Next, Step, Acquire, Inhibit, InhibitSync, WasEnabled,
       Mask, SeenStopped, Verify, ReadToken, CreateTmp, WriteTmp, LiveSync, ClearMarker,
       ClearSync, Unmask, IssueStart, Started, Error, CompensatedError, Kill, Begin,
       Stage, Systemd, StartJob, ServerUp, ServerDown, Deploy, DaemonReload, Reboot,
       dirVars
  <2>2. CASE \E p \in Procs : RenameLive(p)
    BY <2>2 DEF RenameLive, unitVars, IInv, Protect, StoppedInv, Proven
  <2>3. CASE PowerLoss
    BY <2>3 DEF PowerLoss, EmptyRun
  <2> QED
    BY <2>1, <2>2, <2>3
<1> QED
  BY <1>1, Invariance, PTL DEF Spec, ReplaceOnlyWhileStopped

\* A verified failStop leaves a server that is down and cannot start.
THEOREM FailStopHoldsAlways == ASSUME ~DeployAnytime PROVE Spec => FailStopHolds
<1> DEFINE Verified ==
      \A p \in Procs :
        failing[p] /\ (SeenStopped(p) \/ Verify(p)) /\ pc'[p] = "idle"
          => srv' = "inactive" /\ ~StartAllowed'
<1>1. IInv /\ [Next]_vars => [Verified]_vars
  <2> SUFFICES ASSUME IInv, NEW p \in Procs, failing[p], pc'[p] = "idle",
                      SeenStopped(p) \/ Verify(p)
               PROVE  srv' = "inactive" /\ ~StartAllowed'
    OBVIOUS
  <2>1. UNCHANGED unitVars /\ UNCHANGED cache
    BY DEF SeenStopped, Verify, dirVars
  <2>2. CASE SeenStopped(p)
    <3>1. srv = "inactive" /\ LoadState = "masked"
      BY <2>2 DEF SeenStopped, Goto, IInv, TypeOK
    <3> QED
      BY <2>1, <3>1 DEF LoadState, MaskWorks, StartAllowed, unitVars
  <2>3. CASE Verify(p)
    BY <2>1, <2>3, DurablyInhibitedMeans
    DEF Verify, IInv, Protect, StoppedInv, Inhibited, StartAllowed, MaskWorks, unitVars
  <2> QED
    BY <2>2, <2>3
<1> QED
  BY <1>1, Invariance, PTL DEF Spec, FailStopHolds

\* The transaction implements PolicyPromotion.
THEOREM Refinement == ASSUME ~DeployAnytime PROVE Spec => PromiseSpec
<1> USE DEF Promise!PInit, Promise!PNext, Promise!pvars, Inhibited
<1>1. Init => Promise!PInit
  BY DEF Init
<1>2. IInv /\ [Next]_vars => [Promise!PNext]_(Promise!pvars)
  <2> SUFFICES ASSUME IInv, Next
               PROVE  Promise!PNext \/ UNCHANGED Promise!pvars
    BY DEF vars
  <2> USE DEF IInv, TypeOK, Dir, dirVars, unitVars, history
  <2>1. CASE \E p \in Procs : Inhibit(p)
    BY <2>1 DEF Inhibit, Promise!Hold
  <2>2. CASE \E p \in Procs : RenameLive(p)
    <3> PICK p \in Procs : RenameLive(p)
      BY <2>2
    <3>1. NewPolicy(p) \in Policies /\ ~failing[p]
      BY DEF RenameLive, NewPolicy, Control, FailingInv, TokenInv, Policies
    <3>2. srv = "inactive" /\ loadedCond /\ cache.marker
      BY <3>1 DEF RenameLive, Protect, StoppedInv, MarkerInv, Proven, Durable
    <3> QED
      BY <3>1, <3>2 DEF RenameLive, Promise!Replace
  <2>3. CASE \E p \in Procs : ClearMarker(p)
    BY <2>3 DEF ClearMarker, Promise!Release, Protect, StoppedInv, Proven
  <2>4. CASE StartJob
    BY <2>4 DEF StartJob, StartAllowed, Promise!Start
  <2>5. CASE \E p \in Procs : IssueStart(p)
    BY <2>5 DEF IssueStart, StartAllowed, Promise!Start
  <2>6. CASE ServerUp
    BY <2>6 DEF ServerUp, Promise!Load, Promise!Stop, Protect, ServingInv
  <2>7. CASE ServerDown
    BY <2>7 DEF ServerDown, Promise!Stop
  <2>8. CASE DaemonReload
    BY <2>8 DEF DaemonReload, NeedReload, Promise!Hold, Protect, CondInv
  <2>9. CASE Reboot \/ PowerLoss
    BY <2>9 DEF Reboot, PowerLoss, EmptyRun, Promise!Crash, Persist, DurableInv, Protect,
       CondInv
  <2>10. CASE \E p \in Procs : Error(p) \/ CompensatedError(p) \/ Mask(p)
    <3> PICK p \in Procs : Error(p) \/ CompensatedError(p) \/ Mask(p)
      BY <2>10
    <3>1. UNCHANGED <<cache.live, cache.marker, loadedCond, serving>>
      BY DEF Error, CompensatedError, Mask
    <3>2. srv' # "inactive" <=> srv # "inactive"
      BY DEF Error, CompensatedError, Mask, StopIssued
    <3> QED
      BY <3>1, <3>2
  <2>11. CASE \E p \in Procs : \/ Acquire(p) \/ InhibitSync(p) \/ WasEnabled(p)
                               \/ SeenStopped(p) \/ Verify(p) \/ ReadToken(p)
                               \/ LiveSync(p) \/ ClearSync(p) \/ Unmask(p) \/ Started(p)
    BY <2>11 DEF Acquire, InhibitSync, WasEnabled, SeenStopped, Verify, ReadToken,
       LiveSync, ClearSync, Unmask, Started
  <2>12. CASE \E p \in Procs : CreateTmp(p) \/ WriteTmp(p) \/ Kill(p)
    BY <2>12 DEF CreateTmp, WriteTmp, Kill
  <2>13. CASE \/ \E p \in Procs, o \in {"apply", "revoke"} : Begin(p, o)
              \/ \E t \in Tokens : Stage(t)
              \/ Deploy
    BY <2>13 DEF Begin, Stage, Deploy
  <2> QED
    BY <2>1, <2>2, <2>3, <2>4, <2>5, <2>6, <2>7, <2>8, <2>9, <2>10, <2>11,
       <2>12, <2>13
    DEF Next, Step, Systemd
<1> QED
  BY <1>1, <1>2, Invariance, PTL DEF Spec, PromiseSpec, Promise!PSpec
=============================================================================
