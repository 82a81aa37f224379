-------------------------------- MODULE SshChild --------------------------------
(***************************************************************************)
(* opencode-login-bridge and adguard-tunnel: a command starts ssh, which   *)
(* carries the ports, and waits until ssh ends, a signal asks it to stop,  *)
(* or (the bridge) its deadline passes.  The goroutine of main, the one    *)
(* that waits for ssh, the one that waits for the signal and the one that  *)
(* waits for the deadline take steps in any order; ssh may end at any time *)
(* by itself; a Ctrl+C at the terminal reaches ssh as well.                *)
(*                                                                         *)
(* Abstracted: which ports are carried and whether ssh got them; flags     *)
(* that are refused before anything is started; xdg-open.                  *)
(***************************************************************************)
EXTENDS Naturals, Sequences

CONSTANTS
  Capacity   \* of the channel the reasons are sent on

ASSUME CapacityAssumption == Capacity \in Nat \ {0}

VARIABLES
  command,    \* "bridge" or "tunnel"
  deadline,   \* the bridge has one
  \* ssh
  ssh,        \* "none", "running", "ended", "reaped"
  status,     \* how it ended
  by,         \* who ended it
  \* the signals
  listening,  \* signal.NotifyContext is in force
  signalled,  \* a signal was caught
  ctx,        \* its context is done
  \* the goroutines
  main, onSignal, onDeadline,
  \* what they share
  done,       \* the result of Wait, << >> until there is one
  cause,      \* the reasons
  \* what the caller sees
  exit        \* "none", "ok", "failed", "killed"

childVars  == <<ssh, status, by>>
signalVars == <<listening, signalled, ctx>>
chanVars   == <<done, cause>>
sshVars == <<command, deadline, childVars, signalVars, main, onSignal, onDeadline, chanVars,
             exit>>

Mains      == {"begin", "start", "early", "arm", "late"}
Waiters    == {"off", "wait", "cause", "kill", "over"}
SshTypeOK ==
  /\ command \in {"bridge", "tunnel"} /\ deadline \in BOOLEAN
  /\ ssh \in {"none", "running", "ended", "reaped"} /\ status \in {"ok", "err"}
  /\ by \in {"nobody", "itself", "terminal", "command"}
  /\ listening \in BOOLEAN /\ signalled \in BOOLEAN /\ ctx \in BOOLEAN
  /\ main \in Mains /\ onSignal \in Waiters /\ onDeadline \in Waiters
  /\ done \in Seq({"ok", "err"}) /\ cause \in Seq({"signal", "deadline"})
  /\ exit \in {"none", "ok", "failed", "killed"}

SshInit ==
  /\ command \in {"bridge", "tunnel"} /\ deadline \in BOOLEAN
  /\ ssh = "none" /\ status = "ok" /\ by = "nobody"
  /\ listening = FALSE /\ signalled = FALSE /\ ctx = FALSE
  /\ main = "begin" /\ onSignal = "off" /\ onDeadline = "off"
  /\ done = << >> /\ cause = << >> /\ exit = "none"

(***************************************************************************)
(* ssh and the signals                                                     *)
(***************************************************************************)
\* ssh ends, unless it has already.
End(who, s) ==
  IF ssh = "running"
  THEN ssh' = "ended" /\ status' = s /\ by' = who
  ELSE UNCHANGED childVars

\* The connection is refused or lost, a port cannot be had, the other side closes.
SshEnds ==
  /\ ssh = "running" /\ \E s \in {"ok", "err"} : End("itself", s)
  /\ UNCHANGED <<command, deadline, signalVars, main, onSignal, onDeadline, chanVars, exit>>

\* SIGTERM to the command, or Ctrl+C at the terminal, which ssh gets too.
\* Without a handler the command is gone.
Signal(terminal) ==
  /\ exit = "none"
  /\ IF terminal THEN End("terminal", "err") ELSE UNCHANGED childVars
  /\ IF listening
     THEN signalled' = TRUE /\ UNCHANGED exit
     ELSE exit' = "killed" /\ UNCHANGED signalled
  /\ UNCHANGED <<command, deadline, listening, ctx, main, onSignal, onDeadline, chanVars>>

\* The goroutine of NotifyContext cancels the context.
Cancel ==
  /\ exit = "none" /\ signalled /\ ~ctx /\ ctx' = TRUE
  /\ UNCHANGED <<command, deadline, childVars, listening, signalled, main, onSignal,
                 onDeadline, chanVars, exit>>

\* Wait returns: in a goroutine of the bridge, in main of the tunnel.
Reap ==
  /\ exit = "none" /\ ssh = "ended" /\ (command = "tunnel" => main = "late")
  /\ ssh' = "reaped" /\ done' = Append(done, status)
  /\ UNCHANGED <<command, deadline, status, by, signalVars, main, onSignal, onDeadline,
                 cause, exit>>

(***************************************************************************)
(* main                                                                    *)
(***************************************************************************)
\* The bridge listens for signals before it starts ssh, ...
ListenFirst ==
  /\ exit = "none" /\ command = "bridge" /\ main = "begin" /\ main' = "start"
  /\ listening' = TRUE
  /\ UNCHANGED <<command, deadline, childVars, signalled, ctx, onSignal, onDeadline,
                 chanVars, exit>>

Start ==
  /\ exit = "none" /\ main = IF command = "bridge" THEN "start" ELSE "begin"
  /\ \/ /\ ssh' = "running" /\ main' = "early" /\ UNCHANGED exit
        /\ onSignal' = IF command = "bridge" THEN "wait" ELSE "off"
     \/ exit' = "failed" /\ UNCHANGED <<ssh, main, onSignal>>
  /\ UNCHANGED <<command, deadline, status, by, signalVars, onDeadline, chanVars>>

\* ... the tunnel after it has, and has announced it.
ListenLate ==
  /\ exit = "none" /\ command = "tunnel" /\ main = "early" /\ main' = "late"
  /\ listening' = TRUE /\ onSignal' = "wait"
  /\ UNCHANGED <<command, deadline, childVars, signalled, ctx, onDeadline, chanVars, exit>>

\* Two seconds after the start the bridge says that it is up.
SaysUp ==
  /\ exit = "none" /\ command = "bridge" /\ main = "early" /\ main' = "arm"
  /\ UNCHANGED <<command, deadline, childVars, signalVars, onSignal, onDeadline, chanVars, exit>>

ArmDeadline ==
  /\ exit = "none" /\ main = "arm" /\ main' = "late"
  /\ onDeadline' = IF deadline THEN "wait" ELSE "off"
  /\ UNCHANGED <<command, deadline, childVars, signalVars, onSignal, chanVars, exit>>

\* The bridge has received the result of Wait, in the first select or after it:
\* a reason, if one was sent, makes it a success.
BridgeReturns ==
  /\ exit = "none" /\ command = "bridge" /\ main \in {"early", "late"} /\ done # << >>
  /\ exit' = IF Head(done) = "ok" \/ cause # << >> THEN "ok" ELSE "failed"
  /\ UNCHANGED <<command, deadline, childVars, signalVars, main, onSignal, onDeadline, chanVars>>

\* The tunnel looks whether the context is done.
TunnelReturns ==
  /\ exit = "none" /\ command = "tunnel" /\ main = "late" /\ done # << >>
  /\ exit' = IF Head(done) = "ok" \/ ctx THEN "ok" ELSE "failed"
  /\ UNCHANGED <<command, deadline, childVars, signalVars, main, onSignal, onDeadline, chanVars>>

(***************************************************************************)
(* The goroutines of the signal and of the deadline                        *)
(***************************************************************************)
\* Mutant: ssh is killed and no reason sent.
HearsKill == "kill"

\* What the signal's goroutine does when the context is done: the bridge sends
\* its reason, the tunnel gives the signals back to the system.
Hears == "cause"

HearSignal ==
  /\ exit = "none" /\ onSignal = "wait" /\ ctx /\ onSignal' = Hears
  /\ UNCHANGED <<command, deadline, childVars, signalVars, main, onDeadline, chanVars, exit>>

\* The timer fires, or the deadline's goroutine sees the context done and ends.
HearDeadline ==
  /\ exit = "none" /\ onDeadline = "wait"
  /\ onDeadline' \in {"cause"} \cup IF ctx THEN {"over"} ELSE {}
  /\ UNCHANGED <<command, deadline, childVars, signalVars, main, onSignal, chanVars, exit>>

\* Mutant: nobody receives while main waits for ssh, and the channel has no buffer.
FitsUnbuffered == FALSE

\* A send blocks while the channel is full.
Fits == Len(cause) < Capacity

\* The bridge: cause <- "Ctrl+C".  The tunnel: stop().
SendSignal ==
  /\ exit = "none" /\ onSignal = "cause" /\ onSignal' = "kill"
  /\ IF command = "bridge"
     THEN Fits /\ cause' = Append(cause, "signal") /\ UNCHANGED listening
     ELSE listening' = FALSE /\ UNCHANGED cause
  /\ UNCHANGED <<command, deadline, childVars, signalled, ctx, main, onDeadline, done, exit>>

SendDeadline ==
  /\ exit = "none" /\ onDeadline = "cause" /\ onDeadline' = "kill"
  /\ Fits /\ cause' = Append(cause, "deadline")
  /\ UNCHANGED <<command, deadline, childVars, signalVars, main, onSignal, done, exit>>

\* cmd.Process.Kill; a process that was waited for is left alone.
KillOnSignal ==
  /\ exit = "none" /\ onSignal = "kill" /\ onSignal' = "over" /\ End("command", "err")
  /\ UNCHANGED <<command, deadline, signalVars, main, onDeadline, chanVars, exit>>

KillOnDeadline ==
  /\ exit = "none" /\ onDeadline = "kill" /\ onDeadline' = "over" /\ End("command", "err")
  /\ UNCHANGED <<command, deadline, signalVars, main, onSignal, chanVars, exit>>

Goroutines ==
  \/ Cancel \/ Reap \/ ListenFirst \/ Start \/ ListenLate \/ SaysUp \/ ArmDeadline
  \/ BridgeReturns \/ TunnelReturns \/ HearSignal \/ SendSignal \/ SendDeadline
  \/ KillOnSignal \/ KillOnDeadline

SshNext == SshEnds \/ Signal(TRUE) \/ Signal(FALSE) \/ HearDeadline \/ Goroutines

\* Each goroutine that can go on does; main goes on whether or not the two
\* seconds have passed.  Neither the end of ssh nor a signal nor the deadline
\* ever has to come.
SshFairness ==
  /\ WF_sshVars(Cancel) /\ WF_sshVars(Reap) /\ WF_sshVars(HearSignal)
  /\ WF_sshVars(SendSignal) /\ WF_sshVars(SendDeadline)
  /\ WF_sshVars(KillOnSignal) /\ WF_sshVars(KillOnDeadline)
  /\ WF_sshVars(ListenFirst \/ Start \/ ListenLate \/ SaysUp \/ ArmDeadline
               \/ BridgeReturns \/ TunnelReturns)

SshSpec == SshInit /\ [][SshNext]_sshVars /\ SshFairness

(***************************************************************************)
(* Properties                                                              *)
(***************************************************************************)
\* The signal was caught, or the deadline has passed.
Asked == ctx \/ onDeadline \in {"cause", "kill"} \/ cause # << >>

\* A command that kills its own ssh, for a signal or its deadline, does not report a
\* lost connection, whichever goroutine comes first; and one that reports success
\* had an ssh that ended well or was asked to stop.  Nothing is said of an ssh that a
\* Ctrl+C at the terminal ended: CtrlCIsClean is about it, and is false.
OwnKillIsNoFailure ==
  /\ exit = "ok" => status = "ok" \/ Asked
  /\ exit = "failed" => by # "command"

\* A signal or a deadline always ends the command, and no ssh that could still
\* hold the ports stays behind it, unless a second signal meets the tunnel after
\* it has given the signals back.
StopsWhenAsked == Asked ~> exit = "killed" \/ (exit # "none" /\ ssh # "running")

\* "SIGINT/SIGTERM close the bridge cleanly (exit 0)": a Ctrl+C at the terminal
\* is not taken for a lost connection.  The code does not keep this: when ssh is
\* waited for before the signal's goroutine has sent its reason, the exit status is 1.
CtrlCIsClean == exit = "failed" => by # "terminal"
===================================================================================
