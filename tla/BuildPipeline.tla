----------------------------- MODULE BuildPipeline -----------------------------
(***************************************************************************)
(* nixos-build and nixos-build-all: a command is a list of steps that runs *)
(* until one fails (internal/nixbuild/nixbuild.go, cmd/nixos-build,        *)
(* cmd/nixos-build-all).  The upgrade's steps rewrite version pins, locks  *)
(* and hashes of the checkout from what is released upstream               *)
(* (internal/opencodeupdate, quotaupdate, releasepins, flakepins).  Any    *)
(* step may fail or be killed between two writes, after which the operator *)
(* runs the command again, or another one; upstream goes on releasing.     *)
(*                                                                         *)
(* The checkout is the version each of its files speaks of.                *)
(*                                                                         *)
(* Abstracted: BrowserMCP, Engram and the packages that nix-update moves   *)
(* by themselves, which are one write of one file or like Gentle AI;       *)
(* prereleases and new majors, which are not upstream's newest version;    *)
(* files torn by a kill in the middle of a write.                          *)
(***************************************************************************)
EXTENDS Naturals, Sequences

CONSTANTS
  ReleaseFiles,   \* packages that releasepins rewrites, in its order
  MaxVersion      \* bound of upstream's versions

Files == {ReleaseFiles[i] : i \in DOMAIN ReleaseFiles}

\* The files of a package that must speak of one version.
OpenCode == {"oc_manifest", "oc_executable", "oc_lock"}
Quota    == {"q_manifest", "q_lock", "q_hash"}
Gentle   == {"g_url", "g_package", "g_render", "g_assets", "g_lock", "g_vendor"}
Parts    == OpenCode \cup Quota \cup Gentle \cup Files
Packages == {"opencode", "quota", "gentle"} \cup Files

ASSUME ReleasesAssumption ==
  /\ ReleaseFiles \in Seq(STRING) /\ MaxVersion \in Nat \ {0}
  /\ Files \cap (OpenCode \cup Quota \cup Gentle \cup {"opencode", "quota", "gentle"}) = {}

VARIABLES
  upstream,  \* newest version of each package
  part,      \* version each file of the checkout speaks of
  env,       \* the platform and the tools of the run
  command,   \* what runs, or ran last
  at,        \* its step
  writes,    \* files the step still has to write
  target,    \* version the step fetched
  code,      \* "running", or the exit status: "ok" or "failed"
  pushed,    \* the Darwin hook has pushed the running system
  \* history
  failure    \* the step whose command failed, 0 if none did

runVars == <<env, command, at, writes, target, code, pushed, failure>>
vars    == <<upstream, part, runVars>>

(***************************************************************************)
(* Plans                                                                   *)
(***************************************************************************)
\* Of nixos-build-all, and of both.
AllCommands == {"all-check", "all-eval", "all-build", "all-hm", "all"}
Commands    == {"switch", "boot", "test", "dry", "check", "build", "safe", "upgrade"}
                 \cup AllCommands

\* nh is looked up on Linux only; --raw and --no-nom hide nh and nom.
Envs == {e \in [darwin : BOOLEAN, nh : BOOLEAN, nom : BOOLEAN] : e.darwin => ~e.nh}

Through(kind, nom) == [kind |-> kind, nom |-> nom]
Plainly(kind)      == Through(kind, FALSE)

\* nixos-build takes nom on Linux only, nixos-build-all wherever it is.
Rebuild(e, op)     == Through(op, e.nom /\ ~e.nh /\ ~e.darwin)

\* nixos-build upgrade.
UpgradePlan ==
  << Plainly("opencode"), Plainly("npmlock"), Plainly("browser"), Plainly("quota"),
     Plainly("releases"), Plainly("flakepins"), Plainly("flakeupdate"), Plainly("source") >>

\* The other commands of nixos-build.
SystemPlan(e, c) ==
  CASE c = "switch" -> << Rebuild(e, "switch") >>
    [] c \in {"boot", "test"} ->
         << IF e.darwin THEN Plainly("unsupported") ELSE Rebuild(e, c) >>
    [] c = "dry"     -> << Plainly("dry") >>
    [] c = "check"   -> << Plainly("check") >>
    [] c = "build"   -> << Rebuild(e, "build") >>
    [] c = "safe"    -> << Plainly("check"), Rebuild(e, "build"), Plainly("dry"),
                           Rebuild(e, "switch") >>

\* nixos-build-all: the hosts of an output are listed, and each one is evaluated
\* or built; two hosts stand for them all.
RunBuild(e, kind) == Through(kind, e.nom)
Hosts(e, kind)    == << Plainly("list"), RunBuild(e, kind), RunBuild(e, kind) >>
CheckAll(e)       == << RunBuild(e, "check") >>
EvalAll(e)        == Hosts(e, "eval") \o Hosts(e, "eval") \o Hosts(e, "eval")
BuildSystems(e)   == Hosts(e, "build") \o Hosts(e, "build")
BuildHM(e)        == Hosts(e, "build")
AllPlan(e, c) ==
  CASE c = "all-check" -> CheckAll(e)
    [] c = "all-eval"  -> EvalAll(e)
    [] c = "all-build" -> BuildSystems(e)
    [] c = "all-hm"    -> BuildHM(e)
    [] c = "all"       -> CheckAll(e) \o EvalAll(e) \o BuildSystems(e) \o BuildHM(e)

Plan(e, c) ==
  CASE c = "upgrade" -> UpgradePlan
    [] c \in AllCommands -> AllPlan(e, c)
    [] OTHER -> SystemPlan(e, c)

Step == Plan(env, command)[at]
Running == code = "running" /\ at <= Len(Plan(env, command))

\* The files each step writes, in its order.  Gentle AI: the input in flake.nix, then
\* its package and the two nix files of its assets.
OpenCodeWrites == << "oc_manifest", "oc_executable" >>
QuotaWrites    == << "q_manifest", "q_lock", "q_hash" >>
PinWrites      == << "g_url", "g_package", "g_render", "g_assets" >>
SourceWrites   == << "g_vendor" >>   \* of what nix-update follows, only this belongs with others
ReleaseWrites  == ReleaseFiles
Written(kind) ==
  CASE kind = "opencode"    -> OpenCodeWrites
    [] kind = "npmlock"     -> << "oc_lock" >>
    [] kind = "quota"       -> QuotaWrites
    [] kind = "releases"    -> ReleaseWrites
    [] kind = "flakepins"   -> PinWrites
    [] kind = "flakeupdate" -> << "g_lock" >>
    [] kind = "source"      -> SourceWrites
    [] OTHER                -> << >>

\* The newest version upstream: drafts, prereleases and other majors are passed
\* over, a tag is followed to its commit.
LatestRelease(f) == upstream[f]
LatestTag        == upstream["gentle"]
LatestOfMajor    == upstream["quota"]
LatestOnRegistry == upstream["opencode"]

\* A file that npm or nix generates follows the file it is generated from.
Origin == [oc_lock |-> "oc_manifest", q_lock |-> "q_manifest", q_hash |-> "q_lock",
           g_lock |-> "g_url", g_vendor |-> "g_lock"]
Value(p) == CASE p \in DOMAIN Origin -> part[Origin[p]]
              [] p \in Files -> LatestRelease(p)     \* fetched file by file
              [] OTHER -> target

Fetches == {"opencode", "quota", "flakepins"}

\* Mutant: a step is skipped when its first file is up to date.
SkipsUpToDate(kind, latest) == latest = part[Written(kind)[1]]

\* quotaupdate rewrites nothing unless there is a newer version; the others
\* rewrite their files whatever these say.
Skips(kind, latest) == kind = "quota" /\ latest = part["q_manifest"]

TypeOK ==
  /\ upstream \in [Packages -> 1..MaxVersion] /\ part \in [Parts -> 1..MaxVersion]
  /\ env \in Envs /\ command \in Commands /\ at \in Nat \ {0}
  /\ writes \in Seq(Parts) /\ target \in 1..MaxVersion
  /\ code \in {"running", "ok", "failed"} /\ pushed \in BOOLEAN /\ failure \in Nat

Init ==
  /\ upstream = [p \in Packages |-> 1] /\ part = [p \in Parts |-> 1]
  /\ env \in Envs /\ command = "check" /\ at = 1 /\ writes = << >> /\ target = 1
  /\ code = "failed" /\ pushed = FALSE /\ failure = 0

(***************************************************************************)
(* Actions                                                                 *)
(***************************************************************************)
Release(p) ==
  /\ upstream[p] < MaxVersion /\ upstream' = [upstream EXCEPT ![p] = @ + 1]
  /\ UNCHANGED <<part, runVars>>

\* main: a command is planned for the host it runs on.
Begin(c) ==
  /\ code # "running" /\ code' = "running" /\ command' = c /\ at' = 1
  /\ writes' = << >> /\ pushed' = FALSE /\ failure' = 0 /\ target' = 1
  /\ UNCHANGED <<upstream, part, env>>

\* Run goes on to the next step.
Advance == at' = at + 1 /\ writes' = << >> /\ UNCHANGED <<code, failure, target>>

\* Run returns the status of a step that failed.
Abort(own) ==
  /\ code' = "failed" /\ failure' = IF own THEN at ELSE failure
  /\ writes' = << >> /\ UNCHANGED <<at, target>>

\* Mutant: the status of a pipe is its last command's.
LastStatus(started, c, n) == started /\ n

\* RunThroughNom: neither the command nor nom failed to start or to finish.
Status(started, c, n) == started /\ c /\ n

\* A step that runs a command and writes no modelled file.  When nom cannot be
\* started the command may have finished all the same.
Execute ==
  /\ Running /\ writes = << >> /\ Step.kind \notin Fetches /\ Written(Step.kind) = << >>
  /\ \E started, c, n \in BOOLEAN :
       /\ Step.kind = "unsupported" => ~c
       /\ ~Step.nom => n /\ started
       /\ IF Status(started, c, n)
          THEN /\ at' = at + 1 /\ UNCHANGED <<writes, code, target>>
               /\ failure' = IF c THEN failure ELSE at
          ELSE Abort(~c)
  /\ UNCHANGED <<upstream, part, env, command, pushed>>

\* The updaters read the registry or GitHub, and their own files, before they
\* write anything.
Fetch(kind, latest) ==
  /\ Running /\ writes = << >> /\ Step.kind = kind
  /\ IF Skips(kind, latest) THEN Advance
     ELSE /\ target' = latest /\ writes' = Written(kind)
          /\ UNCHANGED <<at, code, failure>>
  /\ UNCHANGED <<upstream, part, env, command, pushed>>

UpdateOpenCode == Fetch("opencode", LatestOnRegistry)
UpdateQuota    == Fetch("quota", LatestOfMajor)
UpdatePins     == Fetch("flakepins", LatestTag)

\* npm, nix and releasepins start to write.
Generate ==
  /\ Running /\ writes = << >> /\ Step.kind \notin Fetches
  /\ writes' = Written(Step.kind) /\ writes' # << >>
  /\ UNCHANGED <<upstream, part, env, command, at, target, code, failure, pushed>>

Write ==
  /\ Running /\ writes # << >>
  /\ part' = [part EXCEPT ![Head(writes)] = Value(Head(writes))]
  /\ IF Len(writes) = 1 THEN Advance
     ELSE writes' = Tail(writes) /\ UNCHANGED <<at, code, failure, target>>
  /\ UNCHANGED <<upstream, env, command, pushed>>

\* A fetch, a write or a generator fails, or the run is killed.
Fail ==
  /\ Running /\ Abort(TRUE)
  /\ UNCHANGED <<upstream, part, env, command, pushed>>

\* Run returns 0; maybePush copies the system after a Darwin command that
\* applies one, as far as the copy works.
Applying == {"switch", "boot", "test", "safe"}
Finish ==
  /\ code = "running" /\ at > Len(Plan(env, command)) /\ code' = "ok"
  /\ pushed' \in {FALSE, env.darwin /\ command \in Applying}
  /\ UNCHANGED <<upstream, part, env, command, at, writes, target, failure>>

Next ==
  \/ \E p \in Packages : Release(p)
  \/ \E c \in Commands : Begin(c)
  \/ Execute \/ UpdateOpenCode \/ UpdateQuota \/ UpdatePins \/ Generate \/ Write \/ Fail \/ Finish

Spec == Init /\ [][Next]_vars

(***************************************************************************)
(* Properties                                                              *)
(***************************************************************************)
\* "A failed step reports its error and stops the following steps": once the
\* command of a step has failed, whatever nom does, no later step runs, the
\* command does not exit 0, and no system is pushed.
FailureStops ==
  failure # 0 => at = failure /\ code = "failed" /\ ~pushed

Agree(ps) == \A p, q \in ps : part[p] = part[q]

\* An upgrade that exits 0 leaves OpenCode's executable, closure and lock, and
\* Gentle AI's input, literals, lock and vendor hash at one version each, however
\* many upgrades failed before it and whatever was released in between.
UpgradeConverges ==
  command = "upgrade" /\ code = "ok" => Agree(OpenCode) /\ Agree(Gentle)
===============================================================================
