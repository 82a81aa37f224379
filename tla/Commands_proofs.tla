----------------------------- MODULE Commands_proofs -----------------------------
(***************************************************************************)
(* Proofs about the three small commands: the ssh child of the login       *)
(* bridge and the tunnel, for any capacity of its channel; netconsole, for *)
(* any number of runs and attempts; the shutdown trials, for any machines, *)
(* trials, boots and lines.  They are kept together, so the definitions of *)
(* their modules have names of their own.                                  *)
(***************************************************************************)
EXTENDS SshChild, Netconsole, ShutdownTrial, SequenceTheorems, WellFoundedInduction, TLAPS

(***************************************************************************)
(* The ssh child.  SshInv says what the goroutines know: who kills ssh has *)
(* sent its reason first, and when the result of Wait is there ssh can no  *)
(* longer be killed.                                                       *)
(***************************************************************************)
\* ssh is started once, and waited for once.
WaitInv ==
  /\ main \in {"begin", "start"} => ssh = "none"
  /\ ssh = "none" => by = "nobody"
  /\ done = IF ssh = "reaped" THEN <<status>> ELSE << >>
  /\ exit \in {"ok", "failed"} => ssh \in {"none", "reaped"}

\* Who is about to kill ssh, or has, has said why.
ReasonInv ==
  /\ onSignal \in {"cause", "kill", "over"} => ctx
  /\ command = "tunnel" => onDeadline = "off" /\ main \notin {"start", "arm"}
  /\ onSignal \in {"kill", "over"} /\ command = "bridge" => cause # << >>
  /\ onDeadline = "kill" => cause # << >>
  /\ by = "command" => IF command = "bridge" THEN cause # << >> ELSE ctx

SshInv == SshTypeOK /\ WaitInv /\ ReasonInv /\ OwnKillIsNoFailure

LEMMA SshInitEstablishes == SshInit => SshInv
<1> SUFFICES ASSUME SshInit PROVE SshInv
  OBVIOUS
<1>1. SshTypeOK
  <2>1. done \in Seq({"ok", "err"})
    BY DEF SshInit
  <2>2. cause \in Seq({"signal", "deadline"})
    BY DEF SshInit
  <2> QED
    BY <2>1, <2>2 DEF SshInit, SshTypeOK, Mains, Waiters
<1>2. WaitInv /\ ReasonInv /\ OwnKillIsNoFailure
  BY DEF SshInit, WaitInv, ReasonInv, OwnKillIsNoFailure
<1> QED
  BY <1>1, <1>2 DEF SshInv

\* What is sent on the channel is on it.
LEMMA Sent ==
  ASSUME NEW S, NEW s \in Seq(S), NEW e \in S
  PROVE  Append(s, e) \in Seq(S) /\ Append(s, e) # << >>
<1>1. Append(s, e) \in Seq(S) /\ Len(Append(s, e)) = Len(s) + 1
  OBVIOUS
<1>2. Len(s) \in Nat /\ Len(<< >>) = 0
  OBVIOUS
<1> QED
  BY <1>1, <1>2

\* The first result is the one Wait gave.
LEMMA Waited ==
  ASSUME NEW e
  PROVE  Append(<< >>, e) = <<e>> /\ <<e>> # << >> /\ Head(<<e>>) = e
  OBVIOUS

LEMMA SshStepPreserves == SshInv /\ [SshNext]_sshVars => SshInv'
<1> SUFFICES ASSUME SshInv, [SshNext]_sshVars PROVE SshInv'
  OBVIOUS
<1> USE DEF SshInv, SshTypeOK, WaitInv, ReasonInv, OwnKillIsNoFailure, Asked, Mains, Waiters,
            childVars, signalVars, chanVars
<1>1. CASE SshEnds
  BY <1>1 DEF SshEnds, End
<1>2. ASSUME NEW t \in BOOLEAN, Signal(t) PROVE SshInv'
  <2>1. CASE listening
    BY <1>2, <2>1 DEF Signal, End
  <2>2. CASE ~listening
    BY <1>2, <2>2 DEF Signal, End
  <2> QED
    BY <2>1, <2>2
<1>3. CASE HearDeadline
  <2>1. onDeadline' \in {"cause", "over"} /\ (onDeadline' = "over" => ctx)
    BY <1>3 DEF HearDeadline
  <2> QED
    BY <1>3, <2>1 DEF HearDeadline
<1>4. CASE Cancel
  BY <1>4 DEF Cancel
<1>5. CASE Reap
  <2>1. done' = <<status'>> /\ done' \in Seq({"ok", "err"})
    BY <1>5, Waited, Sent DEF Reap
  <2> QED
    BY <1>5, <2>1 DEF Reap
<1>6. CASE ListenFirst
  BY <1>6 DEF ListenFirst
<1>7. CASE Start
  BY <1>7 DEF Start
<1>8. CASE ListenLate
  BY <1>8 DEF ListenLate
<1>9. CASE SaysUp
  BY <1>9 DEF SaysUp
<1>10. CASE ArmDeadline
  BY <1>10 DEF ArmDeadline
<1>11. CASE BridgeReturns
  <2>1. ssh = "reaped" /\ Head(done) = status
    BY <1>11, Waited DEF BridgeReturns
  <2> QED
    BY <1>11, <2>1 DEF BridgeReturns
<1>12. CASE TunnelReturns
  <2>1. ssh = "reaped" /\ Head(done) = status
    BY <1>12, Waited DEF TunnelReturns
  <2> QED
    BY <1>12, <2>1 DEF TunnelReturns
<1>13. CASE HearSignal
  BY <1>13 DEF HearSignal, Hears
<1>14. CASE SendSignal
  <2>1. command = "bridge" => cause' # << >> /\ cause' \in Seq({"signal", "deadline"})
    BY <1>14, Sent DEF SendSignal
  <2>2. command # "bridge" => cause' = cause
    BY <1>14 DEF SendSignal
  <2>3. CASE command = "bridge"
    BY <1>14, <2>1, <2>3 DEF SendSignal
  <2>4. CASE command # "bridge"
    BY <1>14, <2>2, <2>4 DEF SendSignal
  <2> QED
    BY <2>3, <2>4
<1>15. CASE SendDeadline
  <2>1. cause' # << >> /\ cause' \in Seq({"signal", "deadline"})
    BY <1>15, Sent DEF SendDeadline
  <2> QED
    BY <1>15, <2>1 DEF SendDeadline
<1>16. CASE KillOnSignal
  BY <1>16 DEF KillOnSignal, End
<1>17. CASE KillOnDeadline
  BY <1>17 DEF KillOnDeadline, End
<1>18. CASE UNCHANGED sshVars
  BY <1>18 DEF sshVars
<1> QED
  BY <1>1, <1>2, <1>3, <1>4, <1>5, <1>6, <1>7, <1>8, <1>9, <1>10, <1>11, <1>12, <1>13,
     <1>14, <1>15, <1>16, <1>17, <1>18 DEF SshNext, Goroutines

LEMMA SshInductive == SshSpec => []SshInv
  BY SshInitEstablishes, SshStepPreserves, PTL DEF SshSpec

\* Every variable keeps its type, whatever the capacity of the channel.
THEOREM SshTypeCorrect == SshSpec => []SshTypeOK
<1>1. SshInv => SshTypeOK
  BY DEF SshInv
<1> QED
  BY <1>1, SshInductive, PTL

\* Whichever goroutine comes first, a command that killed its own ssh does not exit
\* 1, and one that exits 0 was asked to stop or had an ssh that ended well.
THEOREM OwnKillIsNoFailureAlways == SshSpec => []OwnKillIsNoFailure
<1>1. SshInv => OwnKillIsNoFailure
  BY DEF SshInv
<1> QED
  BY <1>1, SshInductive, PTL

(***************************************************************************)
(* netconsole.  NetInv follows a nonce from the probe to its way back: an  *)
(* acknowledgement is of a line on the receiver's disk.                    *)
(***************************************************************************)
\* The line being handled was sent by a run of the setup; what is being synced is in
\* the file, what is being acknowledged, or was, on the disk.
Received ==
  /\ step \in {"append", "sync", "ack"} => handling \in Runs
  /\ step = "sync" => handling \in file
  /\ step = "ack" => handling \in stored
  /\ acks \subseteq stored /\ stored \subseteq file

\* The setup goes on only with what it has set right; it has no result before its
\* end, and a probe of its own run left when it is about to write one.
Configured ==
  /\ setup = "disable" => "always_kmsg_dump" \in pstore
  /\ setup \in {"address", "target", "probe", "wait"} => pstore = Params
  /\ setup # "idle" => result = "none"
  /\ setup # "idle" => nonce \in Runs
  /\ setup \notin {"idle", "wait"} => attempt < Attempts

NetInv == NetTypeOK /\ Received /\ Configured /\ ReadyIsLogged

LEMMA NetInitEstablishes == NetInit => NetInv
<1> SUFFICES ASSUME NetInit PROVE NetInv
  OBVIOUS
<1>1. NetTypeOK
  <2>1. 0 \in 0..MaxRuns /\ 0 \in 0..Attempts
    BY AttemptsAssumption
  <2>2. enabled \in BOOLEAN /\ pstore \subseteq Params
    BY DEF NetInit
  <2> QED
    BY <2>1, <2>2 DEF NetInit, NetTypeOK
<1>2. Received /\ Configured /\ ReadyIsLogged
  BY DEF NetInit, Received, Configured, ReadyIsLogged
<1> QED
  BY <1>1, <1>2 DEF NetInv

LEMMA NetStepPreserves == NetInv /\ [NetNext]_netVars => NetInv'
<1> SUFFICES ASSUME NetInv, [NetNext]_netVars PROVE NetInv'
  OBVIOUS
<1> USE AttemptsAssumption
    DEF NetInv, NetTypeOK, Received, Configured, ReadyIsLogged, Runs, Params, rogVars,
        wireVars, receiverVars
<1>1. CASE Begin
  BY <1>1 DEF Begin
<1>2. CASE EnsurePstore
  BY <1>2 DEF EnsurePstore, EnsureParam
<1>3. CASE BindSource
  BY <1>3 DEF BindSource
<1>4. CASE ConfigureTarget
  BY <1>4 DEF ConfigureTarget
<1>5. CASE Probe
  <2>1. /\ setup = "probe" /\ nonce \in Runs /\ attempt + 1 \in 0..Attempts
        /\ UNCHANGED <<pstore, enabled, nonce, acks, handling, step, file, stored>>
    BY <1>5 DEF Probe
  <2>2. CASE setup' = "wait"
    <3>1. probes' \subseteq Runs /\ attempt' \in 0..Attempts /\ result' = result
      BY <1>5, <2>1, <2>2 DEF Probe
    <3> QED
      BY <2>1, <2>2, <3>1
  <2>3. CASE setup' = "idle"
    BY <1>5, <2>1, <2>3 DEF Probe
  <2> QED
    BY <1>5, <2>2, <2>3 DEF Probe
<1>6. CASE Timeout
  BY <1>6 DEF Timeout
<1>7. CASE SetupStops
  BY <1>7 DEF SetupStops
<1>8. ASSUME NEW n \in Runs, ReceiveAck(n) PROVE NetInv'
  BY <1>8 DEF ReceiveAck, IsOwn
<1>9. ASSUME NEW n \in Runs, Read(n) PROVE NetInv'
  BY <1>9 DEF Read
<1>10. CASE Drop
  BY <1>10 DEF Drop
<1>11. CASE AppendLine
  BY <1>11 DEF AppendLine
<1>12. CASE SyncLog
  BY <1>12 DEF SyncLog, Flushed
<1>13. CASE Ack
  BY <1>13 DEF Ack
<1>14. CASE ReceiverStops
  <2>1. PICK some \in SUBSET (file \ stored) :
           (stored' = stored \cup some /\ file' = stored') \/ UNCHANGED <<file, stored>>
    BY <1>14 DEF ReceiverStops
  <2>2. /\ handling' = 0 /\ step' = "read"
        /\ UNCHANGED <<pstore, enabled, setup, result, nonce, attempt, probes, acks>>
    BY <1>14 DEF ReceiverStops
  <2>3. stored \subseteq stored' /\ stored' \subseteq file' /\ file' \subseteq file
    BY <2>1
  <2> QED
    BY <2>2, <2>3
<1>15. CASE UNCHANGED netVars
  BY <1>15 DEF netVars
<1> QED
  BY <1>1, <1>2, <1>3, <1>4, <1>5, <1>6, <1>7, <1>8, <1>9, <1>10, <1>11, <1>12, <1>13,
     <1>14, <1>15 DEF NetNext

LEMMA NetInductive == NetSpec => []NetInv
  BY NetInitEstablishes, NetStepPreserves, PTL DEF NetSpec

\* Every variable keeps its type: no probe, line or acknowledgement is of a run
\* that never was.
THEOREM NetTypeCorrect == NetSpec => []NetTypeOK
<1>1. NetInv => NetTypeOK
  BY DEF NetInv
<1> QED
  BY <1>1, NetInductive, PTL

\* "target1 ready" means that the probe of this run is on the receiver's disk and
\* pstore is set, for any number of runs and attempts.
THEOREM ReadyIsLoggedAlways == NetSpec => []ReadyIsLogged
<1>1. NetInv => ReadyIsLogged
  BY DEF NetInv
<1> QED
  BY <1>1, NetInductive, PTL

(***************************************************************************)
(* The shutdown trials.  TrialInv follows the record of a trial to the     *)
(* disk, and says that it stays the last line there while the operator     *)
(* still has its end to record.                                            *)
(***************************************************************************)
\* The order of the natural numbers, as a relation.
Lower == {p \in Nat \X Nat : p[1] < p[2]}

\* A nonempty set of positions has a greatest one.
LEMMA Greatest ==
  ASSUME NEW n \in Nat, NEW T \in SUBSET (1..n), T # {}
  PROVE  \E i \in T : \A j \in T : j <= i
<1>1. IsWellFoundedOn(Lower, Nat)
  <2>1. Lower = OpToRel(<, Nat)
    BY DEF Lower, OpToRel
  <2> QED
    BY <2>1, NatLessThanWellFounded
<1> DEFINE U == {n - i : i \in T}
<1>2. U \subseteq Nat /\ U # {}
  <2>1. ASSUME NEW i \in T PROVE n - i \in Nat
    <3>1. i \in 1..n
      OBVIOUS
    <3> QED
      BY <3>1
  <2>2. PICK i : i \in T
    OBVIOUS
  <2>3. n - i \in U
    BY <2>2
  <2> QED
    BY <2>1, <2>3
<1>3. PICK x \in U : \A y \in U : <<y, x>> \notin Lower
  <2> HIDE DEF U
  <2> QED
    BY <1>1, <1>2, WFMin
<1>4. PICK i \in T : x = n - i
  OBVIOUS
<1>5. ASSUME NEW j \in T PROVE j <= i
  <2>1. n - j \in U /\ n - j \in Nat /\ x \in Nat /\ i \in 1..n /\ j \in 1..n
    BY <1>2
  <2>2. ~(n - j < x)
    BY <2>1, <1>3 DEF Lower
  <2> QED
    BY <2>1, <2>2, <1>4
<1> QED
  BY <1>5

\* The last line of a history is this one, or cannot be read.
LastIs(l, e) == l # << >> /\ l[Len(l)].of \in {Bad, e}

\* The line appended, or an unreadable one, is the last of the history.
LEMMA AppendedLast ==
  ASSUME NEW l \in Seq(Lines), NEW e \in Entries \cup {Bad}, NEW b \in BOOLEAN
  PROVE  /\ Appended(l, [of |-> e, ended |-> b]) \in Seq(Lines)
         /\ LastIs(Appended(l, [of |-> e, ended |-> b]), e)
<1> DEFINE line == [of |-> e, ended |-> b]
           glued == [of |-> Bad, ended |-> b]
<1>1. line \in Lines /\ glued \in Lines /\ line.of = e /\ line.ended = b /\ glued.of = Bad
  BY DEF Lines
<1> HIDE DEF line, glued
<1>2. CASE l # << >> /\ ~l[Len(l)].ended
  <2>1. Len(l) \in 1..Len(l)
    BY <1>2
  <2> DEFINE r == [l EXCEPT ![Len(l)] = glued]
  <2>2. r \in Seq(Lines) /\ Len(r) = Len(l) /\ r[Len(l)] = glued /\ r # << >>
    BY <2>1, <1>1, <1>2
  <2>3. Appended(l, line) = r
    BY <1>1, <1>2 DEF Appended, glued
  <2> HIDE DEF r
  <2> QED
    BY <2>2, <2>3, <1>1 DEF LastIs, line
<1>3. CASE ~(l # << >> /\ ~l[Len(l)].ended)
  <2> DEFINE r == Append(l, line)
  <2>1. r \in Seq(Lines) /\ Len(r) = Len(l) + 1 /\ r[Len(r)] = line /\ r # << >>
    BY <1>1
  <2>2. Appended(l, line) = r
    BY <1>3 DEF Appended
  <2> HIDE DEF r
  <2> QED
    BY <2>1, <2>2, <1>1 DEF LastIs, line
<1> QED
  BY <1>2, <1>3

\* What a power loss leaves is a history; nothing is lost when all is synced.
LEMMA SurvivorsType ==
  ASSUME log \in Seq(Lines), disk \in Seq(Lines)
  PROVE  Survivors \subseteq Seq(Lines)
<1>1. ASSUME NEW i \in Len(disk)..Len(log) PROVE SubSeq(log, 1, i) \in Seq(Lines)
  <2>1. i \in Nat /\ \A j \in 1..i : log[j] \in Lines
    BY <1>1
  <2> QED
    BY <2>1, SubSeqProperties
<1>2. ASSUME NEW i \in Len(disk)..Len(log), i # Len(log), NEW x \in {Bad, log[i + 1].of}
      PROVE  Append(SubSeq(log, 1, i), [log[i + 1] EXCEPT !.of = x, !.ended = FALSE])
               \in Seq(Lines)
  <2>1. log[i + 1] \in Lines
    BY <1>2
  <2> DEFINE line == log[i + 1]
  <2>2. x \in Entries \cup {Bad}
    BY <2>1, <1>2 DEF Lines
  <2>3. [line EXCEPT !.of = x, !.ended = FALSE] \in Lines
    <3> HIDE DEF line
    <3> QED
      BY <2>1, <2>2 DEF Lines, line
  <2> QED
    BY <1>1, <2>3
<1>3. ASSUME NEW s \in Survivors PROVE s \in Seq(Lines)
  <2>1. CASE s = disk
    BY <2>1
  <2>2. CASE s # disk
    <3>1. PICK i \in Len(disk)..Len(log) :
             s = SubSeq(log, 1, i) \/ (i # Len(log)
               /\ \E x \in {Bad, log[i + 1].of} :
                    s = Append(SubSeq(log, 1, i),
                               [log[i + 1] EXCEPT !.of = x, !.ended = FALSE]))
      BY <2>2, Zenon DEF Survivors
    <3> QED
      BY <3>1, <1>1, <1>2
  <2> QED
    BY <2>1, <2>2
<1> QED
  BY <1>3

LEMMA NothingLost ==
  ASSUME log \in Seq(Lines), disk = log
  PROVE  Survivors = {log}
<1>1. Len(disk)..Len(log) = {Len(log)}
  <2>1. Len(log) \in Nat
    OBVIOUS
  <2> QED
    BY <2>1
<1>2. SubSeq(log, 1, Len(log)) = log
  BY SubSeqFull
<1> QED
  BY <1>1, <1>2 DEF Survivors
\* A value of the register, by its fields: bits 14 and 15, 10 to 13, and 0 to 9.
Reg(a, f, c)    == 16384 * a + 1024 * f + c
Within(a, f, c) == a \in Nat /\ f \in Nat /\ c \in Nat /\ a < 4 /\ f < 16 /\ c < 1024

LEMMA Word ==
  ASSUME NEW v
  PROVE  v \in 0..MaxWord <=> v \in Nat /\ v < 65536
<1>1. MaxWord \in Nat /\ \A u \in Nat : u <= MaxWord <=> u < 65536
  BY DEF MaxWord
<1> QED
  BY <1>1

LEMMA Fields ==
  ASSUME NEW a, NEW f, NEW c, Within(a, f, c)
  PROVE  /\ Reg(a, f, c) \in 0..MaxWord
         /\ Reg(a, f, c) % 1024 = c
         /\ Reg(a, f, c) \div 16384 = a
         /\ SlpField(Reg(a, f, c)) = f
<1> a \in Nat /\ f \in Nat /\ c \in Nat /\ a < 4 /\ f < 16 /\ c < 1024
  BY DEF Within
<1>1. 1024 * f + c \in Nat /\ 1024 * f + c < 16384 /\ 16 * a + f \in Nat
  OBVIOUS
<1>2. Reg(a, f, c) = 1024 * (16 * a + f) + c /\ Reg(a, f, c) = 16384 * a + (1024 * f + c)
  BY DEF Reg
<1>3. (1024 * (16 * a + f) + c) % 1024 = c /\ (1024 * (16 * a + f) + c) \div 1024 = 16 * a + f
  BY <1>1
<1>4. (16 * a + f) % 16 = f
  OBVIOUS
<1>5. (16384 * a + (1024 * f + c)) \div 16384 = a
  BY <1>1
<1>6. Reg(a, f, c) \in Nat /\ Reg(a, f, c) < 65536
  BY DEF Reg
<1>7. Reg(a, f, c) \in 0..MaxWord
  BY <1>6, Word
<1> QED
  BY <1>2, <1>3, <1>4, <1>5, <1>7 DEF SlpField

LEMMA Decomposed ==
  ASSUME NEW v \in 0..MaxWord
  PROVE  \E a, f, c : Within(a, f, c) /\ v = Reg(a, f, c)
<1>0. v \in Nat /\ v < 65536
  BY Word
<1> DEFINE q == v \div 1024
           c == v % 1024
<1>1. v = 1024 * q + c /\ c \in Nat /\ c < 1024 /\ q \in Nat
  BY <1>0
<1> HIDE DEF q, c
<1>2. q < 64
  BY <1>0, <1>1
<1> DEFINE a == q \div 16
           f == q % 16
<1>3. q = 16 * a + f /\ f \in Nat /\ f < 16 /\ a \in Nat
  BY <1>1
<1> HIDE DEF a, f
<1>4. a < 4
  BY <1>2, <1>3
<1>5. v = Reg(a, f, c)
  BY <1>1, <1>3 DEF Reg
<1>6. Within(a, f, c)
  BY <1>1, <1>3, <1>4 DEF Within
<1> QED
  BY <1>5, <1>6

\* What is written differs from what was read in SLP_TYP and SLP_EN only.
LEMMA WrittenValue ==
  ASSUME NEW was \in 0..MaxWord, NEW typ \in 1..7
  PROVE  /\ S5WriteValue(was, typ) \in 0..MaxWord
         /\ S5WriteValue(was, typ) % 1024 = was % 1024
         /\ S5WriteValue(was, typ) \div 16384 = was \div 16384
         /\ SlpField(S5WriteValue(was, typ)) \in 9..15
<1>1. PICK a, f, c : Within(a, f, c) /\ was = Reg(a, f, c)
  BY Decomposed
<1> DEFINE v == Reg(a, typ + 8, c)
<1>2. SlpField(was) = f /\ was % 1024 = c /\ was \div 16384 = a
  BY <1>1, Fields
<1>3. Within(a, typ + 8, c) /\ typ + 8 \in 9..15
  BY <1>1 DEF Within
<1>4. v \in 0..MaxWord /\ v % 1024 = c /\ v \div 16384 = a /\ SlpField(v) = typ + 8
  BY <1>3, Fields
<1>5. was - 1024 * f + 1024 * typ + 8192 = v
  BY <1>1 DEF Reg, Within
<1>6. v % 65536 = v
  BY <1>4, Word
<1>7. S5WriteValue(was, typ) = v
  BY <1>2, <1>5, <1>6 DEF S5WriteValue
<1> HIDE DEF v
<1> QED
  BY <1>2, <1>3, <1>4, <1>7

\* Nothing runs after the processes are stopped, and by then the disk has it all;
\* a plan is one of this machine, which is the expected one.
PhaseInv ==
  /\ phase \notin {"up", "stopping"} => run = "idle"
  /\ phase = "ramfs" => disk = log
  /\ plan \notin {None, Torn} => Valid(plan) /\ plan.product = ExpectedProduct

\* What is appended is of this boot, was written before it is synced, and is on
\* the disk before the machine is told to power off.
RecordInv ==
  /\ run # "idle" => entry \in Entries /\ (entry.kind = "trial" => entry.boot = boot)
  /\ run = "apply" => entry.kind = "trial"
  /\ run \in {"sync", "poweroff"} => LastIs(log, entry)
  /\ run = "poweroff" => disk = log /\ entry.kind = "trial"

\* A trial that powered off and was watched stays the last of the history, on the
\* disk, until its result is recorded or another is launched.
SeenInv ==
  seen # None =>
    /\ run = "idle"
    /\ seen.trial \in Automatic =>
         /\ disk = log
         /\ LastIs(log, [kind |-> "trial", trial |-> seen.trial, boot |-> seen.boot])

TrialInv == TrialTypeOK /\ PhaseInv /\ RecordInv /\ SeenInv /\ ResultNamesItsTrial

LEMMA TrialInitEstablishes == TrialInit => TrialInv
<1> SUFFICES ASSUME TrialInit PROVE TrialInv
  OBVIOUS
<1>1. TrialTypeOK
  <2>1. log \in Seq(Lines)
    BY DEF TrialInit
  <2>2. disk \in Seq(Lines)
    BY DEF TrialInit
  <2>3. 1 \in 1..MaxBoots
    BY TrialsAssumption
  <2>4. machine \in [product : STRING, base : Nat, typ : Nat, reg : 0..MaxWord]
    BY TrialsAssumption DEF TrialInit
  <2> QED
    BY <2>1, <2>2, <2>3, <2>4 DEF TrialInit, TrialTypeOK, Phases
<1>2. PhaseInv /\ RecordInv /\ SeenInv /\ ResultNamesItsTrial
  BY DEF TrialInit, PhaseInv, RecordInv, SeenInv, ResultNamesItsTrial
<1> QED
  BY <1>1, <1>2 DEF TrialInv

\* What the history and the operator name.
LEMMA Named ==
  ASSUME NEW t \in Automatic \cup Manual, NEW b \in 1..MaxBoots
  PROVE  /\ [kind |-> "trial", trial |-> t, boot |-> b] \in Entries
         /\ [trial |-> t, boot |-> b] \in Seens
         /\ t \in Manual => t \notin Automatic
<1>1. [kind |-> "trial", trial |-> t, boot |-> b] \in Entries
  BY DEF Entries
<1>2. [trial |-> t, boot |-> b] \in Seens
  BY DEF Seens
<1>3. Automatic \cap Manual = {}
  BY TrialsAssumption
<1> QED
  BY <1>1, <1>2, <1>3

LEMMA TrialStepPreserves == TrialInv /\ [TrialNext]_trialVars => TrialInv'
<1> SUFFICES ASSUME TrialInv, [TrialNext]_trialVars PROVE TrialInv'
  OBVIOUS
<1> USE DEF TrialInv, TrialTypeOK, PhaseInv, RecordInv, SeenInv, ResultNamesItsTrial, Phases,
            logVars, testVars, operVars
<1>1. ASSUME NEW t \in Automatic, Launch(t) PROVE TrialInv'
  <2>1. [kind |-> "trial", trial |-> t, boot |-> boot] \in Entries
    BY Named
  <2>2. CASE run' = "apply"
    BY <1>1, <2>1, <2>2 DEF Launch
  <2>3. CASE UNCHANGED <<entry, run>>
    BY <1>1, <2>3 DEF Launch
  <2> QED
    BY <1>1, <2>2, <2>3 DEF Launch
<1>2. ASSUME NEW t \in Manual, Instruct(t) PROVE TrialInv'
  <2>1. seen' = [trial |-> t, boot |-> boot]
    BY <1>2 DEF Instruct
  <2>2. seen' \in Seens /\ seen'.trial \notin Automatic
    BY <2>1, <1>2, Named
  <2> QED
    BY <1>2, <2>1, <2>2 DEF Instruct
<1>3. CASE Execute
  BY <1>3 DEF Execute
<1>4. CASE Write
  <2>1. entry \in Entries
    BY <1>4 DEF Write
  <2>2. CASE run' = "sync"
    <3>1. log' = Appended(log, Whole(entry)) /\ entry' = entry
      BY <1>4, <2>2 DEF Write
    <3>2. log' \in Seq(Lines) /\ LastIs(log', entry)
      BY <2>1, <3>1, AppendedLast DEF Whole
    <3>3. LastIs(log, entry)'
      BY <3>1, <3>2 DEF LastIs
    <3> QED
      BY <1>4, <2>1, <2>2, <3>1, <3>2, <3>3 DEF Write
  <2>3. CASE run' = "idle"
    <3>1. log' \in {log} \cup {Appended(log, p) : p \in Partials(entry)} /\ entry' = None
      BY <1>4, <2>3 DEF Write
    <3>2. log' \in Seq(Lines)
      <4>1. ASSUME NEW p \in Partials(entry) PROVE Appended(log, p) \in Seq(Lines)
        <5>1. PICK x \in {Bad, entry} : p = [of |-> x, ended |-> FALSE]
          BY <4>1 DEF Partials
        <5> QED
          BY <2>1, <5>1, AppendedLast
      <4> QED
        BY <3>1, <4>1
    <3>3. seen = None
      BY <1>4 DEF Write
    <3> QED
      BY <1>4, <2>3, <3>1, <3>2, <3>3 DEF Write
  <2> QED
    BY <1>4, <2>2, <2>3 DEF Write
<1>5. CASE Sync
  <2>1. entry \in Entries /\ seen = None /\ LastIs(log, entry)
    BY <1>5 DEF Sync
  <2>2. CASE run' = "poweroff"
    BY <1>5, <2>1, <2>2 DEF Sync, Synced, LastIs
  <2>3. CASE run' = "idle"
    BY <1>5, <2>1, <2>3 DEF Sync, Synced
  <2> QED
    BY <1>5, <2>2, <2>3 DEF Sync
<1>6. CASE RequestOff
  <2>1. /\ entry \in Entries /\ entry.kind = "trial" /\ entry.boot = boot /\ disk = log
        /\ LastIs(log, entry) /\ seen = None
    BY <1>6 DEF RequestOff
  <2>2. entry = [kind |-> "trial", trial |-> entry.trial, boot |-> boot]
    BY <2>1 DEF Entries
  <2>3. CASE phase' = "stopping" /\ seen' = [trial |-> entry.trial, boot |-> boot]
    <3>1. /\ seen' \in Seens
          /\ entry = [kind |-> "trial", trial |-> seen'.trial, boot |-> seen'.boot]
      BY <2>1, <2>2, <2>3 DEF Entries, Seens
    <3> QED
      BY <1>6, <2>1, <2>3, <3>1 DEF RequestOff, LastIs
  <2>4. CASE UNCHANGED <<phase, seen>>
    BY <1>6, <2>1, <2>4 DEF RequestOff
  <2> QED
    BY <1>6, <2>3, <2>4 DEF RequestOff
<1>7. CASE RecordResult
  <2> DEFINE last == log[LastTrial].of
  <2>1. LastTrial \in TrialLines /\ \A j \in TrialLines : j <= LastTrial
    <3>1. TrialLines \in SUBSET (1..Len(log)) /\ TrialLines # {} /\ Len(log) \in Nat
      BY <1>7 DEF RecordResult, TrialLines
    <3> QED
      BY <3>1, Greatest DEF LastTrial
  <2>2. last \in Entries /\ last.kind = "trial"
    <3>1. LastTrial \in 1..Len(log) /\ last # Bad /\ last.kind = "trial"
      BY <2>1 DEF TrialLines
    <3>2. log[LastTrial] \in Lines
      BY <3>1
    <3> QED
      BY <3>1, <3>2 DEF Lines
  <2>3. seen \in Seens
    BY <1>7 DEF RecordResult
  <2>4. ASSUME seen.trial \in Automatic PROVE seen = [trial |-> last.trial, boot |-> last.boot]
    <3> DEFINE e == [kind |-> "trial", trial |-> seen.trial, boot |-> seen.boot]
    <3>1. log # << >> /\ log[Len(log)].of \in {Bad, e}
      BY <2>4, <1>7 DEF RecordResult, LastIs
    <3>2. Len(log) \in DOMAIN log
      BY <3>1
    <3>3. log[Len(log)].of = e /\ e # Bad
      BY <3>1, <3>2, <1>7 DEF RecordResult, Readable
    <3>4. Len(log) \in TrialLines
      BY <3>2, <3>3 DEF TrialLines
    <3>5. LastTrial = Len(log)
      BY <2>1, <3>4 DEF TrialLines
    <3> QED
      BY <2>3, <3>3, <3>5 DEF Seens
  <2> DEFINE named == [trial |-> last.trial, boot |-> last.boot]
  <2>5. named \in Seens
    BY <2>2 DEF Entries, Seens
  <2>6. /\ [last EXCEPT !.kind = "result"] \in Entries
        /\ [last EXCEPT !.kind = "result"].kind = "result"
    BY <2>2 DEF Entries
  <2>7. /\ entry' = [last EXCEPT !.kind = "result"]
        /\ verdicts' = verdicts \cup {<<seen, named>>}
        /\ run' = "write" /\ seen' = None /\ phase = "up"
        /\ UNCHANGED <<machine, boot, phase, plan, port, log, disk>>
    BY <1>7 DEF RecordResult
  <2> HIDE DEF last, named
  <2>8. verdicts' \subseteq Seens \X Seens
    BY <2>3, <2>5, <2>7
  <2>9. ASSUME NEW v \in verdicts', v[1].trial \in Automatic PROVE v[1] = v[2]
    <3>1. CASE v \in verdicts
      <4> HIDE DEF TrialTypeOK, PhaseInv, RecordInv, SeenInv
      <4> QED
        BY <2>9, <3>1
    <3>2. CASE v = <<seen, named>>
      <4>1. v[1] = seen /\ v[2] = named
        BY <3>2
      <4> QED
        BY <2>4, <2>9, <4>1 DEF named
    <3> QED
      BY <2>7, <3>1, <3>2
  <2>10. entry' \in Entries /\ entry'.kind = "result"
    BY <2>6, <2>7
  <2>11. TrialTypeOK'
    BY <2>7, <2>8, <2>10
  <2>12. PhaseInv' /\ RecordInv' /\ SeenInv'
    BY <2>7, <2>10
  <2>13. ResultNamesItsTrial'
    BY <2>9
  <2> HIDE DEF TrialTypeOK, PhaseInv, RecordInv, SeenInv, ResultNamesItsTrial
  <2> QED
    BY <2>11, <2>12, <2>13
<1>8. CASE Stage
  <2>1. Tables \in Plans /\ Tables.product = machine.product
    BY DEF Tables, Plans
  <2> QED
    BY <1>8, <2>1 DEF Stage, CheckDMI
<1>9. CASE Poweroff
  <2>1. plan \in Plans /\ Valid(plan)
    BY <1>9 DEF Poweroff, Power, MatchesDMI
  <2>2. S5WriteValue(machine.reg, plan.typ) \in 0..MaxWord
    <3>1. plan.typ \in 1..7
      BY <2>1 DEF Valid
    <3> QED
      BY <3>1, WrittenValue
  <2>3. machine' \in [product : STRING, base : Nat, typ : Nat, reg : 0..MaxWord]
    BY <1>9, <2>2 DEF Poweroff, Power, MatchesDMI
  <2>4. run = "idle" /\ disk = log
    BY <1>9 DEF Poweroff, Power, MatchesDMI, InRamfs
  <2> QED
    BY <1>9, <2>3, <2>4 DEF Poweroff, Power, MatchesDMI, InRamfs
<1>10. CASE KernelOff
  BY <1>10 DEF KernelOff
<1>11. CASE Stop
  BY <1>11 DEF Stop
<1>12. CASE Unmount
  BY <1>12 DEF Unmount
<1>13. CASE Writeback
  BY <1>13 DEF Writeback
<1>14. CASE Kill
  BY <1>14 DEF Kill
<1>15. CASE PowerCut
  <2>1. log' \in Seq(Lines) /\ disk' = log'
    BY <1>15, SurvivorsType DEF PowerCut
  <2>2. ASSUME disk = log PROVE log' = log
    BY <2>2, <1>15, NothingLost DEF PowerCut
  <2>3. /\ phase' = "off" /\ run' = "idle" /\ entry' = None
        /\ UNCHANGED <<machine, boot, plan, port, seen, verdicts>>
    BY <1>15 DEF PowerCut
  <2>4. SeenInv'
    BY <2>1, <2>2, <2>3
  <2> QED
    BY <2>1, <2>3, <2>4
<1>16. CASE Boot
  <2>1. boot' \in 1..MaxBoots
    BY <1>16, TrialsAssumption DEF Boot
  <2>2. run = "idle"
    BY <1>16 DEF Boot
  <2> QED
    BY <1>16, <2>1, <2>2 DEF Boot
<1>17. CASE UNCHANGED trialVars
  BY <1>17 DEF trialVars
<1> HIDE DEF TrialInv
<1> QED
  BY <1>1, <1>2, <1>3, <1>4, <1>5, <1>6, <1>7, <1>8, <1>9, <1>10, <1>11, <1>12, <1>13,
     <1>14, <1>15, <1>16, <1>17 DEF TrialNext

LEMMA TrialInductive == TrialSpec => []TrialInv
  BY TrialInitEstablishes, TrialStepPreserves, PTL DEF TrialSpec

\* Every variable keeps its type: what is written to the register is a word, and
\* what a power loss leaves is a history.
THEOREM TrialTypeCorrect == TrialSpec => []TrialTypeOK
<1>1. TrialInv => TrialTypeOK
  BY DEF TrialInv
<1> QED
  BY <1>1, TrialInductive, PTL

\* The result of an automatic trial names the trial whose power-off was watched, for
\* any trials, any number of boots and lines, and wherever power is lost.
THEOREM ResultNamesItsTrialAlways == TrialSpec => []ResultNamesItsTrial
<1>1. TrialInv => ResultNamesItsTrial
  BY DEF TrialInv
<1> QED
  BY <1>1, TrialInductive, PTL

\* What a write to the register finds and leaves.
PortWriteStep ==
  port' # port /\ port' # None =>
    /\ disk = log /\ run = "idle" /\ machine.product = ExpectedProduct
    /\ LET v == machine'.reg IN
         /\ v % 1024 = port' % 1024 /\ v \div 16384 = port' \div 16384
         /\ SlpField(v) \in 9..15

LEMMA PortWritten == TrialInv /\ [TrialNext]_trialVars => PortWriteStep
<1> SUFFICES ASSUME TrialInv, [TrialNext]_trialVars, port' # port, port' # None
             PROVE  /\ disk = log /\ run = "idle" /\ machine.product = ExpectedProduct
                    /\ LET v == machine'.reg IN
                         /\ v % 1024 = port' % 1024 /\ v \div 16384 = port' \div 16384
                         /\ SlpField(v) \in 9..15
  BY DEF PortWriteStep
<1>1. Poweroff
  BY DEF TrialNext, trialVars, logVars, testVars, operVars, Launch, Instruct, Execute, Write,
         Sync, RequestOff, RecordResult, Stage, KernelOff, Stop, Unmount, Writeback, Kill,
         PowerCut, Boot
<1>2. /\ phase = "ramfs" /\ Valid(plan) /\ plan \notin {None, Torn}
      /\ plan.product = machine.product /\ port' = machine.reg
      /\ machine' = [machine EXCEPT !.reg = S5WriteValue(machine.reg, plan.typ)]
  BY <1>1 DEF Poweroff, Power, MatchesDMI, InRamfs
<1>3. disk = log /\ run = "idle" /\ machine.product = ExpectedProduct
  BY <1>2 DEF TrialInv, PhaseInv
<1>4. /\ machine.reg \in 0..MaxWord
      /\ machine'.reg = S5WriteValue(machine.reg, plan.typ)
  BY <1>2 DEF TrialInv, TrialTypeOK
<1>5. plan.typ \in 1..7
  BY <1>2 DEF Valid
<1> QED
  BY <1>2, <1>3, <1>4, <1>5, WrittenValue

\* The register is written when everything is on the disk and nothing runs, on the
\* expected model only, whatever the tables of the machines that are met say; and
\* of its bits only SLP_TYP and SLP_EN change, to a type from 1 to 7 and to 1.
THEOREM PortWriteComesLastAlways == TrialSpec => PortWriteComesLast
<1>1. TrialInv /\ [TrialNext]_trialVars => [PortWriteStep]_trialVars
  BY PortWritten
<1>2. TrialSpec => [][PortWriteStep]_trialVars
  BY <1>1, TrialInductive, PTL DEF TrialSpec
<1> QED
  BY <1>2, PTL DEF PortWriteComesLast, PortWriteStep
==================================================================================
