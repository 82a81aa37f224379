-------------------------- MODULE RelayControl_proofs --------------------------
(***************************************************************************)
(* Proofs about RelayControl for any number of processes and tokens, and   *)
(* any bound on the generation.  IInv says what a process that has reached *)
(* a step knows about the lock, the saved intent and launchd's job.        *)
(***************************************************************************)
EXTENDS RelayControl, TLAPS

\* The process in a locked section is the one that has the lock.
LockInv == \A p \in Procs : pc[p] \in Locked <=> lock = p

\* Which command a step belongs to.
OpInv ==
  \A p \in Procs :
    /\ pc[p] \in {"onWrite"} \cup OnSteps => op[p] = "on"
    /\ pc[p] \in {"offWrite", "offBootout"} => op[p] = "off"
    /\ pc[p] \in CredSteps => op[p] \in {"apply", "revoke"}
    /\ pc[p] = "clear" => op[p] = "revoke"
    /\ pc[p] \in {"read", "install", "print"} => op[p] = "apply"
    /\ pc[p] \in StartSteps => op[p] \in {"on", "apply"}

\* An apply about to install headers has read a token.
TokenInv == \A p \in Procs : pc[p] = "install" => token[p] \in Tokens

\* No generation is handed out twice: an on that still has the current one
\* wrote the state last.
GenInv ==
  \A p \in Procs : pc[p] \in OnSteps =>
    /\ gen[p] <= st.gen
    /\ gen[p] = st.gen => author = p

\* A promotion that has written the state keeps its generation current.
HolderInv ==
  \A p \in Procs :
    /\ pc[p] \in CredSteps \ {"bump"} => gen[p] >= st.gen /\ author = p
    /\ pc[p] \in {"print"} \cup StartSteps => gen[p] = st.gen /\ author = p

\* The saved intent a process acts on is the one it read.
EnabledInv ==
  \A p \in Procs :
    /\ pc[p] \in CredSteps \ {"bump"} => (was[p] <=> st.enabled)
    /\ pc[p] \in {"print"} \cup StartSteps => st.enabled
    /\ pc[p] \in StartSteps /\ op[p] = "apply" => was[p]
    /\ pc[p] = "offBootout" /\ ~bad[p] => ~st.enabled

\* From the proof of the stop until the state is saved the job stays unloaded.
UnloadedInv ==
  \A p \in Procs :
    /\ pc[p] \in {"save"} \cup FileSteps => job = "unloaded"
    /\ pc[p] = "failSave" /\ ~bad[p] => job = "unloaded"

UsingInv ==
  /\ using # None => using = headers
  /\ job \in {"unloaded", "idle", "starting"} => using = None

StoppedInv == stopped => job \notin Alive /\ ~st.enabled

Control == LockInv /\ OpInv /\ TokenInv
Intents == GenInv /\ HolderInv /\ EnabledInv
Protect == UnloadedInv /\ UsingInv /\ StoppedInv

IInv == TypeOK /\ Control /\ Intents /\ Protect

LEMMA InitEstablishes == Init => IInv
<1> SUFFICES ASSUME Init PROVE IInv
  OBVIOUS
<1> USE ConstantsAssumption
    DEF Init, Locked, OnSteps, FileSteps, FailSteps, CredSteps, StartSteps, Alive
<1>1. TypeOK
  BY DEF TypeOK, Headers, Ops, Steps
<1>2. Control
  BY DEF Control, LockInv, OpInv, TokenInv
<1>3. Intents
  BY DEF Intents, GenInv, HolderInv, EnabledInv
<1>4. Protect
  BY DEF Protect, UnloadedInv, UsingInv, StoppedInv
<1> QED
  BY <1>1, <1>2, <1>3, <1>4 DEF IInv

LocalsOK ==
  /\ pc \in [Procs -> Steps] /\ op \in [Procs -> Ops] /\ gen \in [Procs -> Nat]
  /\ was \in [Procs -> BOOLEAN] /\ token \in [Procs -> Tokens \cup {None}]
  /\ bad \in [Procs -> BOOLEAN] /\ lock \in Procs \cup {NoProc}

LEMMA ReturnTypes ==
  ASSUME TypeOK, NEW p \in Procs, Return(p)
  PROVE  LocalsOK'
BY DEF TypeOK, Return, Forget, Goto, LocalsOK, Steps, Ops

\* Types are kept.
LEMMA StepTypes ==
  ASSUME IInv, NEW p \in Procs, Step(p)
  PROVE  TypeOK'
<1> USE ConstantsAssumption
    DEF IInv, TypeOK, Control, LockInv, OpInv, TokenInv, Headers, Ops, Steps,
        Locked, OnSteps, FileSteps, FailSteps, CredSteps, StartSteps, Alive,
        Goto, Return, Forget, launchd, procVars, history
<1>1. CASE Acquire(p)
  BY <1>1 DEF Acquire, FirstStep
<1>2. CASE OnWrite(p)
  <2>1. st' \in [enabled : BOOLEAN, gen : Nat] /\ gen' \in [Procs -> Nat]
    BY <1>2 DEF OnWrite, Write
  <2> QED
    BY <1>2, <2>1 DEF OnWrite, Write
<1>3. CASE OnPrint(p)
  BY <1>3 DEF OnPrint
<1>4. CASE OnAcquire(p)
  <2>1. CASE Current(p)
    BY <1>4, <2>1 DEF OnAcquire
  <2>2. CASE ~Current(p)
    BY <1>4, <2>2, ReturnTypes DEF OnAcquire, LocalsOK
  <2> QED
    BY <2>1, <2>2
<1>5. CASE Bootstrap(p)
  BY <1>5 DEF Bootstrap
<1>6. CASE Kickstart(p)
  BY <1>6 DEF Kickstart, Kicked
<1>7. CASE OffWrite(p)
  <2>1. st' \in [enabled : BOOLEAN, gen : Nat] /\ author' \in Procs \cup {NoProc}
    <3>1. CASE Write(p, FALSE, st.gen + 1)
      BY <3>1 DEF Write
    <3>2. CASE UNCHANGED <<st, author>>
      BY <3>2
    <3> QED
      BY <1>7, <3>1, <3>2 DEF OffWrite
  <2>2. bad' \in [Procs -> BOOLEAN] /\ pc' \in [Procs -> Steps]
    BY <1>7 DEF OffWrite
  <2>3. UNCHANGED <<stage, headers, lock, job, using, op, gen, was, token, stopped>>
    BY <1>7 DEF OffWrite
  <2> QED
    BY <2>1, <2>2, <2>3
<1>8. CASE OffBootout(p)
  BY <1>8 DEF OffBootout, BootedOut
<1>9. CASE Bump(p)
  BY <1>9 DEF Bump, Write
<1>10. CASE Bootout(p)
  BY <1>10 DEF Bootout, BootedOut, AfterStop
<1>11. CASE WaitGone(p)
  BY <1>11 DEF WaitGone, AfterStop
<1>12. CASE ClearHeaders(p)
  BY <1>12 DEF ClearHeaders
<1>13. CASE ReadStage(p)
  BY <1>13 DEF ReadStage
<1>14. CASE InstallHeaders(p)
  BY <1>14 DEF InstallHeaders
<1>15. CASE Save(p)
  <2>1. st' \in [enabled : BOOLEAN, gen : Nat] /\ author' \in Procs \cup {NoProc}
    BY <1>15 DEF Save, Write
  <2>2. CASE Restart(p)
    BY <1>15, <2>1, <2>2 DEF Save
  <2>3. CASE ~Restart(p)
    BY <1>15, <2>1, <2>3, ReturnTypes DEF Save, LocalsOK
  <2> QED
    BY <2>2, <2>3
<1>16. CASE StartPrint(p)
  BY <1>16 DEF StartPrint
<1>17. CASE FailSave(p)
  BY <1>17 DEF FailSave, Write
<1>18. CASE Error(p)
  BY <1>18 DEF Error, Effect, BootedOut, Bootstrapped, Kicked
<1>19. CASE CredentialsFail(p)
  BY <1>19 DEF CredentialsFail, Effect, BootedOut, Bootstrapped, Kicked, Compensated,
     Aborts
<1>20. CASE CleanupError(p)
  BY <1>20 DEF CleanupError, Effect, BootedOut
<1>21. CASE FailSaveError(p)
  BY <1>21 DEF FailSaveError
<1> QED
  BY <1>1, <1>2, <1>3, <1>4, <1>5, <1>6, <1>7, <1>8, <1>9, <1>10, <1>11, <1>12,
     <1>13, <1>14, <1>15, <1>16, <1>17, <1>18, <1>19, <1>20, <1>21
  DEF Step

\* Who holds the lock, and what the locals say at each step.
LEMMA StepControl ==
  ASSUME IInv, NEW p \in Procs, Step(p)
  PROVE  Control'
<1> USE ConstantsAssumption
    DEF IInv, TypeOK, Control, LockInv, OpInv, TokenInv, Headers, Ops, Steps,
        Locked, OnSteps, FileSteps, FailSteps, CredSteps, StartSteps, Alive,
        Goto, Return, Forget, launchd, procVars, history
<1>1. CASE Acquire(p)
  BY <1>1 DEF Acquire, FirstStep
<1>2. CASE OnWrite(p)
  BY <1>2 DEF OnWrite, Write
<1>3. CASE OnPrint(p)
  BY <1>3 DEF OnPrint
<1>4. CASE OnAcquire(p)
  BY <1>4 DEF OnAcquire, Current
<1>5. CASE Bootstrap(p)
  BY <1>5 DEF Bootstrap
<1>6. CASE Kickstart(p)
  BY <1>6 DEF Kickstart, Kicked
<1>7. CASE OffWrite(p)
  BY <1>7 DEF OffWrite, Write
<1>8. CASE OffBootout(p)
  BY <1>8 DEF OffBootout, BootedOut
<1>9. CASE Bump(p)
  BY <1>9 DEF Bump, Write
<1>10. CASE Bootout(p)
  BY <1>10 DEF Bootout, BootedOut, AfterStop
<1>11. CASE WaitGone(p)
  BY <1>11 DEF WaitGone, AfterStop
<1>12. CASE ClearHeaders(p)
  BY <1>12 DEF ClearHeaders
<1>13. CASE ReadStage(p)
  BY <1>13 DEF ReadStage
<1>14. CASE InstallHeaders(p)
  BY <1>14 DEF InstallHeaders
<1>15. CASE Save(p)
  BY <1>15 DEF Save, Write, Restart
<1>16. CASE StartPrint(p)
  BY <1>16 DEF StartPrint
<1>17. CASE FailSave(p)
  BY <1>17 DEF FailSave, Write
<1>18. CASE Error(p)
  BY <1>18 DEF Error, Effect, BootedOut, Bootstrapped, Kicked
<1>19. CASE CredentialsFail(p)
  BY <1>19 DEF CredentialsFail, Effect, BootedOut, Bootstrapped, Kicked, Compensated,
     Aborts
<1>20. CASE CleanupError(p)
  BY <1>20 DEF CleanupError, Effect, BootedOut
<1>21. CASE FailSaveError(p)
  BY <1>21 DEF FailSaveError
<1> QED
  BY <1>1, <1>2, <1>3, <1>4, <1>5, <1>6, <1>7, <1>8, <1>9, <1>10, <1>11, <1>12,
     <1>13, <1>14, <1>15, <1>16, <1>17, <1>18, <1>19, <1>20, <1>21
  DEF Step

\* What is saved, and who saved it last.
LEMMA StepIntents ==
  ASSUME IInv, NEW p \in Procs, Step(p)
  PROVE  Intents'
<1> USE ConstantsAssumption
    DEF IInv, TypeOK, Control, LockInv, OpInv, TokenInv, Intents, GenInv,
        HolderInv, EnabledInv, Headers, Ops, Steps, Locked, OnSteps, FileSteps,
        FailSteps, CredSteps, StartSteps, Alive, Goto, Return, Forget, launchd,
        procVars, history
<1>1. CASE Acquire(p)
  BY <1>1 DEF Acquire, FirstStep
<1>2. CASE OnWrite(p)
  BY <1>2 DEF OnWrite, Write
<1>3. CASE OnPrint(p)
  BY <1>3 DEF OnPrint
<1>4. CASE OnAcquire(p)
  BY <1>4 DEF OnAcquire, Current
<1>5. CASE Bootstrap(p)
  <2>1. UNCHANGED <<st, op, gen, was, bad, author>>
    BY <1>5 DEF Bootstrap
  <2>2. pc' = [pc EXCEPT ![p] = IF op[p] = "on" THEN "kickLock" ELSE "kick"]
    BY <1>5 DEF Bootstrap
  <2>3. author = p
    BY <1>5 DEF Bootstrap
  <2>4. op[p] = "on" => gen[p] <= st.gen
    BY <1>5 DEF Bootstrap
  <2> QED
    BY <2>1, <2>2, <2>3, <2>4, <1>5 DEF Bootstrap
<1>6. CASE Kickstart(p)
  BY <1>6 DEF Kickstart, Kicked
<1>7. CASE OffWrite(p)
  BY <1>7 DEF OffWrite, Write
<1>8. CASE OffBootout(p)
  BY <1>8 DEF OffBootout, BootedOut
<1>9. CASE Bump(p)
  BY <1>9 DEF Bump, Write
<1>10. CASE Bootout(p)
  BY <1>10 DEF Bootout, BootedOut, AfterStop
<1>11. CASE WaitGone(p)
  BY <1>11 DEF WaitGone, AfterStop
<1>12. CASE ClearHeaders(p)
  BY <1>12 DEF ClearHeaders
<1>13. CASE ReadStage(p)
  BY <1>13 DEF ReadStage
<1>14. CASE InstallHeaders(p)
  BY <1>14 DEF InstallHeaders
<1>15. CASE Save(p)
  BY <1>15 DEF Save, Write, Restart
<1>16. CASE StartPrint(p)
  BY <1>16 DEF StartPrint
<1>17. CASE FailSave(p)
  BY <1>17 DEF FailSave, Write
<1>18. CASE Error(p)
  BY <1>18 DEF Error, Effect, BootedOut, Bootstrapped, Kicked
<1>19. CASE CredentialsFail(p)
  <2>1. UNCHANGED <<st, op, gen, was, bad, author>> /\ Goto(p, "failBootout")
    BY <1>19 DEF CredentialsFail
  <2>2. gen[p] >= st.gen /\ author = p /\ (was[p] <=> st.enabled)
    BY <1>19 DEF CredentialsFail, Compensated, Aborts
  <2> QED
    BY <2>1, <2>2
<1>20. CASE CleanupError(p)
  BY <1>20 DEF CleanupError, Effect, BootedOut
<1>21. CASE FailSaveError(p)
  BY <1>21 DEF FailSaveError
<1> QED
  BY <1>1, <1>2, <1>3, <1>4, <1>5, <1>6, <1>7, <1>8, <1>9, <1>10, <1>11, <1>12,
     <1>13, <1>14, <1>15, <1>16, <1>17, <1>18, <1>19, <1>20, <1>21
  DEF Step

\* The job, its headers and the promise of a successful stop.
LEMMA StepProtect ==
  ASSUME IInv, NEW p \in Procs, Step(p)
  PROVE  Protect'
<1> USE ConstantsAssumption
    DEF IInv, TypeOK, Control, LockInv, OpInv, TokenInv, Intents, GenInv,
        HolderInv, EnabledInv, Protect, UnloadedInv, UsingInv, StoppedInv,
        Headers, Ops, Steps, Locked, OnSteps, FileSteps, FailSteps, CredSteps,
        StartSteps, Alive, Goto, Return, Forget, launchd, procVars, history
<1>1. CASE Acquire(p)
  BY <1>1 DEF Acquire, FirstStep
<1>2. CASE OnWrite(p)
  BY <1>2 DEF OnWrite, Write
<1>3. CASE OnPrint(p)
  BY <1>3 DEF OnPrint
<1>4. CASE OnAcquire(p)
  BY <1>4 DEF OnAcquire, Current
<1>5. CASE Bootstrap(p)
  BY <1>5 DEF Bootstrap
<1>6. CASE Kickstart(p)
  BY <1>6 DEF Kickstart, Kicked
<1>7. CASE OffWrite(p)
  BY <1>7 DEF OffWrite, Write
<1>8. CASE OffBootout(p)
  BY <1>8 DEF OffBootout, BootedOut
<1>9. CASE Bump(p)
  BY <1>9 DEF Bump, Write
<1>10. CASE Bootout(p)
  BY <1>10 DEF Bootout, BootedOut, AfterStop
<1>11. CASE WaitGone(p)
  BY <1>11 DEF WaitGone, AfterStop
<1>12. CASE ClearHeaders(p)
  BY <1>12 DEF ClearHeaders
<1>13. CASE ReadStage(p)
  BY <1>13 DEF ReadStage
<1>14. CASE InstallHeaders(p)
  BY <1>14 DEF InstallHeaders
<1>15. CASE Save(p)
  BY <1>15 DEF Save, Write, Restart
<1>16. CASE StartPrint(p)
  BY <1>16 DEF StartPrint
<1>17. CASE FailSave(p)
  BY <1>17 DEF FailSave, Write
<1>18. CASE Error(p)
  BY <1>18 DEF Error, Effect, BootedOut, Bootstrapped, Kicked
<1>19. CASE CredentialsFail(p)
  BY <1>19 DEF CredentialsFail, Effect, BootedOut, Bootstrapped, Kicked, Compensated,
     Aborts
<1>20. CASE CleanupError(p)
  BY <1>20 DEF CleanupError, Effect, BootedOut
<1>21. CASE FailSaveError(p)
  BY <1>21 DEF FailSaveError
<1> QED
  BY <1>1, <1>2, <1>3, <1>4, <1>5, <1>6, <1>7, <1>8, <1>9, <1>10, <1>11, <1>12,
     <1>13, <1>14, <1>15, <1>16, <1>17, <1>18, <1>19, <1>20, <1>21
  DEF Step

\* A killed process leaves every file and the job as they are.
LEMMA KillKeeps ==
  ASSUME IInv, NEW p \in Procs, Kill(p)
  PROVE  IInv'
<1> USE ConstantsAssumption
    DEF IInv, TypeOK, Control, LockInv, OpInv, TokenInv, Intents, GenInv,
        HolderInv, EnabledInv, Protect, UnloadedInv, UsingInv, StoppedInv,
        Kill, Headers, Ops, Steps, Locked, OnSteps, FileSteps, FailSteps,
        CredSteps, StartSteps, Alive, Goto, Return, Forget, launchd, procVars,
        history
<1>1. TypeOK'
  OBVIOUS
<1>2. Control'
  OBVIOUS
<1>3. Intents'
  OBVIOUS
<1>4. Protect'
  OBVIOUS
<1> QED
  BY <1>1, <1>2, <1>3, <1>4

\* New invocations, stages, the client and a login.
LEMMA OutsideKeeps ==
  ASSUME IInv,
         \/ \E p \in Procs, o \in Ops : Begin(p, o)
         \/ \E t \in Tokens : Stage(t)
         \/ ClientUp \/ ClientExit \/ Login
  PROVE  IInv'
<1> USE ConstantsAssumption
    DEF IInv, TypeOK, Control, LockInv, OpInv, TokenInv, Intents, GenInv,
        HolderInv, EnabledInv, Protect, UnloadedInv, UsingInv, StoppedInv,
        Headers, Ops, Steps, Locked, OnSteps, FileSteps, FailSteps, CredSteps,
        StartSteps, Alive, Goto, Return, Forget, launchd, procVars, history
<1>1. CASE \E p \in Procs, o \in Ops : Begin(p, o)
  <2> PICK p \in Procs, o \in Ops : Begin(p, o)
    BY <1>1
  <2>1. TypeOK' /\ Control'
    BY DEF Begin
  <2>2. Intents'
    BY DEF Begin
  <2>3. Protect'
    BY DEF Begin
  <2> QED
    BY <2>1, <2>2, <2>3
<1>2. CASE \E t \in Tokens : Stage(t)
  BY <1>2 DEF Stage
<1>3. CASE ClientUp
  BY <1>3 DEF ClientUp
<1>4. CASE ClientExit
  BY <1>4 DEF ClientExit
<1>5. CASE Login
  BY <1>5 DEF Login
<1> QED
  BY <1>1, <1>2, <1>3, <1>4, <1>5

LEMMA StepKeeps ==
  ASSUME IInv, Next
  PROVE  IInv'
<1>1. CASE \E p \in Procs : Step(p)
  BY <1>1, StepTypes, StepControl, StepIntents, StepProtect DEF IInv
<1>2. CASE \E p \in Procs : Kill(p)
  BY <1>2, KillKeeps
<1>3. CASE \/ \E p \in Procs, o \in Ops : Begin(p, o)
           \/ \E t \in Tokens : Stage(t)
           \/ ClientUp \/ ClientExit \/ Login
  BY <1>3, OutsideKeeps
<1> QED
  BY <1>1, <1>2, <1>3 DEF Next

LEMMA StutterKeeps ==
  ASSUME IInv, UNCHANGED vars
  PROVE  IInv'
BY DEF vars, IInv, TypeOK, Control, LockInv, OpInv, TokenInv, Intents, GenInv,
   HolderInv, EnabledInv, Protect, UnloadedInv, UsingInv, StoppedInv

\* The inductive invariant holds of every reachable state.
THEOREM Invariance == Spec => []IInv
<1>1. IInv /\ [Next]_vars => IInv'
  BY StepKeeps, StutterKeeps
<1> QED
  BY InitEstablishes, <1>1, PTL DEF Spec

\* Every variable keeps its type.
THEOREM TypeCorrect == Spec => []TypeOK
<1>1. IInv => TypeOK
  BY DEF IInv
<1> QED
  BY Invariance, <1>1, PTL

\* A client that has loaded headers has loaded the live ones.
THEOREM ClientUsesLiveHeadersAlways == Spec => []ClientUsesLiveHeaders
<1>1. IInv => ClientUsesLiveHeaders
  BY DEF IInv, Protect, UsingInv, ClientUsesLiveHeaders
<1> QED
  BY Invariance, <1>1, PTL

\* off and revoke stick until an on is accepted.
THEOREM OffSticksAlways == Spec => []OffSticks
<1>1. IInv => OffSticks
  BY DEF IInv, Protect, StoppedInv, OffSticks
<1> QED
  BY Invariance, <1>1, PTL

\* Only the newest command starts anything.
THEOREM NewestCommandStartsAlways == Spec => []NewestCommandStarts
<1>1. IInv => NewestCommandStarts
  BY DEF IInv, Intents, HolderInv, NewestCommandStarts
<1> QED
  BY Invariance, <1>1, PTL

\* The live headers change only while no client runs.
THEOREM HeadersChangeWhileStoppedAlways == Spec => HeadersChangeWhileStopped
<1>1. IInv /\ [Next]_vars
        => [headers' # headers => job' \notin Alive \cup {"removing"}]_vars
  <2> SUFFICES ASSUME IInv, Next, headers' # headers
               PROVE  job' \notin Alive \cup {"removing"}
    BY DEF vars
  <2>1. PICK p \in Procs : ClearHeaders(p) \/ InstallHeaders(p)
    BY DEF Next, Step, Acquire, OnWrite, OnPrint, OnAcquire, Bootstrap, Kickstart,
       OffWrite, OffBootout, Bump, Bootout, WaitGone, ReadStage, Save, StartPrint,
       FailSave, Error, CredentialsFail, CleanupError, FailSaveError, Kill, Begin,
       Stage, ClientUp, ClientExit, Login
  <2>2. job = "unloaded" /\ job' = job
    BY <2>1 DEF ClearHeaders, InstallHeaders, launchd, IInv, Protect, UnloadedInv,
       FileSteps
  <2> QED
    BY <2>2 DEF Alive
<1> QED
  BY Invariance, <1>1, PTL DEF Spec, HeadersChangeWhileStopped

\* The client is started only under an enabled intent.
THEOREM StartsOnlyWhenEnabledAlways == Spec => StartsOnlyWhenEnabled
<1>1. IInv /\ [Next]_vars
        => [job' = "starting" /\ job # "starting" => st'.enabled]_vars
  <2> SUFFICES ASSUME IInv, Next, job' = "starting", job # "starting"
               PROVE  st'.enabled
    BY DEF vars
  <2>1. PICK p \in Procs : pc[p] = "kick" /\ st' = st
    BY DEF Next, Step, Acquire, OnWrite, OnPrint, OnAcquire, Bootstrap, Kickstart,
       OffWrite, OffBootout, BootedOut, Bump, Bootout, WaitGone, ClearHeaders,
       ReadStage, InstallHeaders, Save, StartPrint, FailSave, Error, CredentialsFail,
       CleanupError, FailSaveError, Effect, Bootstrapped, Kill, Begin, Stage,
       ClientUp, ClientExit, Login, launchd
  <2> QED
    BY <2>1 DEF IInv, Intents, EnabledInv, StartSteps
<1> QED
  BY Invariance, <1>1, PTL DEF Spec, StartsOnlyWhenEnabled

\* A failed promotion whose cleanup worked leaves the client stopped and off.
THEOREM FailedPromotionStopsAlways == Spec => FailedPromotionStops
<1> DEFINE Stops == \A p \in Procs : pc[p] = "failSave" /\ ~bad[p] /\ st' # st
                      => ~st'.enabled /\ job' \notin Alive \cup {"removing"}
<1>1. IInv /\ [Next]_vars => [Stops]_vars
  <2> SUFFICES ASSUME IInv, Next, NEW p \in Procs, pc[p] = "failSave", ~bad[p],
                      st' # st
               PROVE  ~st'.enabled /\ job' \notin Alive \cup {"removing"}
    BY DEF vars
  <2>1. lock = p /\ job = "unloaded"
    BY DEF IInv, Control, LockInv, Protect, UnloadedInv, Locked, CredSteps, FailSteps
  <2>2. PICK q \in Procs : OnWrite(q) \/ OffWrite(q) \/ Bump(q) \/ Save(q) \/ FailSave(q)
    BY DEF Next, Step, Acquire, OnPrint, OnAcquire, Bootstrap, Kickstart, OffBootout,
       Bootout, WaitGone, ClearHeaders, ReadStage, InstallHeaders, StartPrint, Error,
       CredentialsFail, CleanupError, FailSaveError, Kill, Begin, Stage, ClientUp,
       ClientExit, Login
  <2>3. lock = q
    BY <2>2 DEF OnWrite, OffWrite, Bump, Save, FailSave, IInv, Control, LockInv,
       Locked, CredSteps, FailSteps
  <2>4. FailSave(p)
    BY <2>1, <2>2, <2>3, ConstantsAssumption DEF OnWrite, OffWrite, Bump, Save
  <2> QED
    BY <2>1, <2>4 DEF FailSave, Write, launchd, Alive
<1> QED
  BY Invariance, <1>1, PTL DEF Spec, FailedPromotionStops

\* relayctl implements PolicyPromotion.
THEOREM Refinement == Spec => PromiseSpec
<1> USE DEF Promise!PInit, Promise!PNext, Promise!pvars
<1>1. Init => Promise!PInit
  BY DEF Init, Alive
<1>2. IInv /\ [Next]_vars => [Promise!PNext]_(Promise!pvars)
  <2> SUFFICES ASSUME IInv, Next
               PROVE  Promise!PNext \/ UNCHANGED Promise!pvars
    BY DEF vars
  <2> USE DEF IInv, TypeOK, launchd, procVars, history, Alive
  <2>1. CASE \E p \in Procs : ClearHeaders(p) \/ InstallHeaders(p)
    <3> PICK p \in Procs : ClearHeaders(p) \/ InstallHeaders(p)
      BY <2>1
    <3>1. job = "unloaded" /\ pc[p] \in FileSteps
      BY DEF ClearHeaders, InstallHeaders, Protect, UnloadedInv, FileSteps
    <3>2. headers' \in Headers
      BY DEF ClearHeaders, InstallHeaders, Control, TokenInv, Headers
    <3> QED
      BY <3>1, <3>2 DEF ClearHeaders, InstallHeaders, Promise!Replace
  <2>2. CASE Login
    BY <2>2 DEF Login, Promise!Crash
  <2>3. CASE ClientUp
    BY <2>3, ConstantsAssumption DEF ClientUp, Promise!Load, Promise!Stop, Protect, UsingInv
  <2>4. CASE ClientExit
    BY <2>4 DEF ClientExit, Promise!Crash
  <2>5. CASE \E p \in Procs : Bootstrap(p) \/ Kickstart(p)
    BY <2>5 DEF Bootstrap, Kickstart, Kicked, Promise!Release, Promise!Start
  <2>6. CASE \E p \in Procs : OffBootout(p) \/ Bootout(p)
    BY <2>6 DEF OffBootout, Bootout, BootedOut, Promise!Hold
  <2>7. CASE \E p \in Procs : Error(p) \/ CredentialsFail(p) \/ CleanupError(p)
    <3> PICK p \in Procs : Error(p) \/ CredentialsFail(p) \/ CleanupError(p)
      BY <2>7
    <3>1. job' \in {job, BootedOut, Bootstrapped, Kicked}
      BY DEF Error, CredentialsFail, CleanupError, Effect
    <3>2. UNCHANGED <<headers, using>>
      BY DEF Error, CredentialsFail, CleanupError
    <3> QED
      BY <3>1, <3>2 DEF BootedOut, Bootstrapped, Kicked, Promise!Hold, Promise!Release,
         Promise!Start
  <2>8. CASE \E p \in Procs :
          \/ Acquire(p) \/ OnWrite(p) \/ OnPrint(p) \/ OnAcquire(p) \/ OffWrite(p)
          \/ Bump(p) \/ WaitGone(p) \/ ReadStage(p) \/ Save(p) \/ StartPrint(p)
          \/ FailSave(p) \/ FailSaveError(p) \/ Kill(p) \/ \E o \in Ops : Begin(p, o)
    BY <2>8 DEF Acquire, OnWrite, OnPrint, OnAcquire, OffWrite, Bump, WaitGone,
       ReadStage, Save, StartPrint, FailSave, FailSaveError, Kill, Begin
  <2>9. CASE \E t \in Tokens : Stage(t)
    BY <2>9 DEF Stage
  <2> QED
    BY <2>1, <2>2, <2>3, <2>4, <2>5, <2>6, <2>7, <2>8, <2>9 DEF Next, Step
<1> QED
  BY <1>1, <1>2, Invariance, PTL DEF Spec, PromiseSpec, Promise!PSpec
=============================================================================
