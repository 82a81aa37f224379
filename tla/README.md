# Formal models of the nixos-hosts tools

The repository is a Nix flake for a handful of Linux and macOS hosts. Most of
it is declarative configuration; what *runs* and keeps state is the Go module
`pkgs/nixos-scripts` (about 11,700 lines without tests), which the hosts call
from systemd units, launchd jobs, activation scripts and the command line.
These specifications model the part of it whose mistakes a unit test would
hardly reach: transactions over files and services that can be interrupted at
any point, and processes that race through a lock.

Every module translates code. Where a document, a comment or a test says
something else, the disagreement is a property with a configuration of its own
that TLC refutes, and is listed under *Disagreements* in the module's section.
Two of them are runs (`managed_worktree_gate`, `ai_backup_leftover`); the other
configurations are kept beside the modules and run in the same way.

| section | module | what it models | proofs |
|---|---|---|---|
| 2 | `RelayPolicy`, `PolicyPromotion` | promotion of the relay's credential on rog | `RelayPolicy_proofs` |
| 3 | `RelayControl` | the relay client on macm5 | `RelayControl_proofs` |
| 4 | `ManagedWorktree` | managed agent worktrees | `ManagedWorktree_proofs` |
| 5 | `AssetReconcile` | owned files of the AI clients | `AssetReconcile_proofs` |
| 6 | `LayoutMigrate` | resumable move to OpenCode's native layout | `LayoutMigrate_proofs` |
| 7 | `AiBackup` | backup and restore of agent state | `AiBackup_proofs` |
| 8 | `BuildPipeline` | nixos-build, nixos-build-all and the version updates | `BuildPipeline_proofs` |
| 9 | `SshChild` | login bridge and tunnel around an ssh child | `Commands_proofs` |
| 10 | `ShutdownTrial` | shutdown trials, their history, the power-off hook | `Commands_proofs` |
| 11 | `Netconsole` | shipping the kernel log and verifying it | `Commands_proofs` |

`SshChild`, `ShutdownTrial` and `Netconsole` model three small commands; their proofs
are in one module that extends all three, so their definitions have names of
their own (`SshInit`, `TrialSpec`, `NetTypeOK`).

Run any check from this directory:

    tlc -workers 2 -config RelayPolicyEtc.cfg MCRelayPolicy.tla
    tlapm RelayPolicy_proofs.tla

## 1. Inventory

*Correct when* says what a part should do; where the code does not keep it, the
section of its module says so under "Disagreements".

Paths are relative to `pkgs/nixos-scripts/` unless they start with `linux/`,
`darwin/`, `shared/` or `docs/`.

### Relay control plane

* **relay-policy** (`internal/sshrelay/policy.go`, `cmd/relay-policy`,
  `linux/system/services/network/ssh-relay.nix`). *State:* the live policy,
  the promotion marker and a temporary file in `/var/lib/ssh-relay`; a staged
  token and a lock in `/run/ssh-relay-staging`; the systemd unit's mask,
  loaded condition and activity. *Operations:* stage, apply, revoke, with a
  fail-stop when apply fails late. *Interacts* with systemd through
  `systemctl`, with deployments that replace the unit file, and with the
  server that reads the policy when it starts. *Hard:* a kill, reboot or power
  loss between any two system calls; a mask the installed unit overrides; a
  unit changed on disk but not loaded. *Correct when:* the policy is replaced
  only under a stopped server that cannot start; a revoked credential is not
  served again before an apply; success means durable; a failed apply leaves
  the server down.
* **relayctl** (`internal/sshrelay/relay.go`, `launchctl.go`, `cmd/relayctl`).
  *State:* `state.json` (enabled, generation), staged and live header files, a
  lock file; the launchd job. *Operations:* on, off, status, stage, apply-auth,
  revoke-auth. *Interacts* with launchd, which loads and unloads the job on
  its own time, and with the client that reads the live headers. *Hard:* `on`
  drops the lock between saving the intent and each launchctl call, so an
  `off`, an apply or a revoke can run in between; calls fail or take effect
  after they timed out. *Correct when:* the newest command wins; the headers
  change only while the client is not running; a failure leaves the client
  off; the lock is given back.
* **relay client** (`internal/sshrelay/client.go`, `cmd/relay-client`). No
  state of its own: validates its arguments and headers and execs the tunnel.

### Working trees, assets and layout

* **code-work** (`cmd/code-work`, `internal/managedworktree`). *State:* a task
  record per task, a lock directory, git worktrees and branches, the
  main branch. *Operations:* new, ready, merge, abandon, clean, check,
  recover-lock; and the older create, done, abort, prune. *Hard:* the
  lock outlives a crashed holder and is broken by hand; merge verifies the
  record before it takes the lock; a merge is followed by validation and
  activation that may fail. *Correct when:* only ready work is merged; a record
  and the branch it speaks of agree; one integration at a time.
* **AI client assets** (`internal/aiassets/reconcile.go`). *State:* installed
  files, a manifest of what the tool owns, a pending journal. *Operation:*
  reconcile a generation. *Hard:* a crash between journal, writes, removals
  and the final manifest; files the user edits meanwhile. *Correct when:* no
  file of the user's is overwritten or removed, and a crashed run can be run
  again.
* **OpenCode layout migration** (`internal/opencodelayout`). *State:* old and
  new directories, an archive, `.incomplete` and `.steps` markers.
  *Operation:* migrate, resumed after a crash. *Correct when:* every file is in
  exactly one place at every point, and a resumed run ends where an
  uninterrupted one would.
* **OpenCode home launcher** (`internal/opencodehome`), **harness and seed
  helpers**. Prepare directories and exec; short sequences without recovery.

### Building, caching, updating

* **nixos-build, nixos-build-all** (`internal/nixbuild`, `cmd/nixos-build`):
  a list of steps per command, run in order until one fails, with nom as a pipe.
  *State:* the files of the checkout that an upgrade rewrites. *Hard:* the
  command and nom fail independently; an upgrade stops between two files and is
  run again when upstream has moved on. *Correct when:* no step follows a failed
  one, the exit status is the command's, and an upgrade that ends well leaves
  each package at one version.
* **nixcache** (`internal/nixcache`): prewarm roots and push.  *State:* one
  directory of GC roots and a staged next one. *Correct when:* the old roots
  survive a failed prewarm.
* **release pins, flake pins, quota and opencode updates**
  (`internal/releasepins`, `flakepins`, `quotaupdate`, `opencodeupdate`):
  rewrite version and hash files, some in two steps where the second may fail.
* **project and rtk initialisation, gitutil, reporoot, git-id**: small file
  generators and lookups.

### Backups, tunnels, peers

* **ai-backup** (`cmd/ai-backup`): payloads run on a machine over ssh, a
  stream of tar through zstd between them. *State:* the archive with its
  `.part` file and `.sha256`; on the target the members, the databases, staged
  snapshots in `home-snap`, `.pre-restore` copies. *Hard:* either end of the
  stream fails; a restore is four payloads, each of which replaces several items
  and can stop in between; a program writes meanwhile. *Correct when:* a restore
  that reports success brought the whole machine, whatever it replaced is kept,
  and two machines are never merged.
* **opencode-login-bridge** and **adguard-tunnel**: an ssh child, a signal, a
  deadline race for the exit status. *State:* the child, a channel of reasons,
  the signal context. *Correct when:* the status tells why the child ended, and
  a command that is asked to stop stops and leaves no ssh behind.
* **sshtunnel** picks a free port that another process may take first.
* **wg-peer** (`internal/wg`, `cmd/wg-peer`): a peer list edited in a Nix file,
  a key in a sops file; address allocation. *Correct when:* addresses are
  unique and a half-done add is visible.
* **sops-rotate-keys, linkctl, gpg helpers, device-link**: sequences of
  external commands.

### Power and diagnostics

* **shutdown trials** (`internal/shutdowntrial`), **S5 write**
  (`internal/s5write`, `cmd/rog-poweroff-hook`): a trial is recorded and powers
  the machine off, its result is recorded on the next boot; a plan staged in
  `/run` is carried out from the shutdown ramfs. *State:* the history file, the
  plan, the power register. *Hard:* the machine hangs and is cut. *Correct when:*
  a result names the trial that was watched, and the register is written last.
* **netconsole** (`internal/netconsole`): a UDP receiver that appends, syncs and
  acknowledges, and a setup that probes the way with a nonce. *State:* the
  kernel's target, pstore's parameters, the log file. *Correct when:* a setup
  that reports ready has its probe on the receiver's disk.
* **netdiag, dsdt, fadt, kmsg, pstore readers**: read-only reports.

### Declarative part

The Nix modules under `linux/`, `darwin/`, `shared/`, `hosts/` and `overlays/`
declare services; the EFI power-off application, the Engram plug-in and the
patched response headers are self-contained packages. They are used here only
where a module depends on them (the relay's unit).
## 2. Promotion of the relay's credential: `RelayPolicy`

### Correspondence

| model | code |
|---|---|
| `cache`, `disk` | `/var/lib/ssh-relay` as processes see it and as a power loss would leave it: marker, temporary file, live policy |
| `stage` | the staged token; `Stage` is `relay-policy stage` |
| `mask`, `fileCond`, `loadedCond`, `srv`, `serving` | systemd's view of the unit: runtime mask, `ConditionPathExists` in the file and as loaded, activity, the policy the server read |
| `lock` | `flock` on `transaction.lock` |
| `pc` and the locals | where in `Apply`, `Revoke` or `failStop` a process is |
| `committed`, `revoked`, `lastDone` | history, read by the properties only |

Each call that reads or changes shared state is an action: `Acquire`
(`withLock`), `Inhibit` and `InhibitSync` (`inhibit`), `WasEnabled`, `Mask`,
`SeenStopped`, `Verify` (`maskAndWait`), `ReadToken`, `CreateTmp`, `WriteTmp`,
`RenameLive`, `LiveSync` (`installPolicy`), `ClearMarker`, `ClearSync`,
`Unmask`, `IssueStart`, `Started`. `Error` is a call that fails and aborts,
`CompensatedError` one that `Apply` answers with `failStop`. systemd acts on its
own through `StartJob`, `ServerUp`, `ServerDown`; a deployment through `Deploy`
and `DaemonReload`; `Kill`, `Reboot` and `PowerLoss` strike between any two
steps.

Two constants describe the host. `EtcUnitWins` is TRUE where the unit in `/etc`
overrides a mask in `/run`, as on NixOS; then only the marker and the unit's
condition hold the server down. `OldUnit` lets the first installed unit lack
that condition. `DeployAnytime` lets a deployment run inside a transaction.

`PolicyPromotion` states the promise without any of this: a policy, a server,
and a hold that a replacement needs. `RelayPolicy!PromiseSpec` is the
refinement; the hold is `Inhibited`, the marker together with a loaded unit
that heeds it.

### What the runs show

* `relay_policy_etc`: two processes, two tokens, a unit that overrides the
  mask. Replacement only under a stopped server, the served policy is the live
  one, a replacement that a power loss could undo is durably inhibited, a
  revoke sticks, success is durable, a verified fail-stop holds, and the
  refinement; under `FairSpec` the lock is always given back.
* `RelayPolicyMask.cfg` (kept, not listed as a run): the same host where the mask works, so `maskAndWait`
  takes `LoadState=masked` for proof and never inspects the unit.

Bounds: two processes are enough for one to hold the lock while another begins
or is killed, and the lock serialises the rest; two tokens make "the staged
token changed after it was read" and "the old token is served" visible. There
is no counter. `RelayPolicyMask.cfg` uses the symmetry of `Procs` and `Tokens`; the
other run does not, since it checks liveness.

Fairness: `WF_vars(Step(p))` for each process and nothing for systemd, kills or
operators. The code bounds every `systemctl` call and every wait by a context
deadline, so a running process always takes a next step; that the unit ever
stops is *not* assumed.

### What is proved

`RelayPolicy_proofs` proves, for any sets of processes and tokens and both kinds
of host, that the specification keeps the type invariant and `ServedIsLive`,
`ReplacementIsInhibited`, `RevocationSticks`, `DurableSuccess`,
`ReplaceOnlyWhileStopped`, `FailStopHolds`, and that it implements
`PolicyPromotion`. Assumptions: `ConstantsAssumption`, `UnitAssumption` and
`~DeployAnytime`. The last one is needed: the stop is observed before the
inhibition is verified, so a deployment in between makes the verification pass
for a server that the previous unit, without the condition, started meanwhile
(TLC finds it with `DeployAnytime = TRUE` and `OldUnit = TRUE`).

None of the properties is inductive. The strengthening `IInv` has four parts:

* `TypeOK`;
* `Control`: who holds the lock, and which steps a failing or a revoking
  process can be at;
* `Protect`: from the verified stop to the removal of the marker the server is
  down and cannot start, whatever systemd does; this is what makes a
  replacement safe;
* `Persist`: at each step, which of marker and policy are already on disk.

`Control` gives the exclusion, `Protect` rests on it, and `Persist` on both; the
theorem `Invariance` proves them together, one step per action.

The liveness property is only model-checked.

### Disagreements

* `RelayPolicyRerun.cfg`: `installPolicy` refuses a temporary file that is
  already there, and nobody but its creator removes it. A process killed
  between create and rename makes every later transaction fail, while the
  documentation asks the operator to "rerun stage and apply".
* `RelayPolicyReenable.cfg`: `apply` starts a unit that `is-enabled` reports
  enabled. Where the installed unit overrides the mask this is so after a
  revoke too, which the documentation excludes.

## 3. Control of the relay client: `RelayControl`

### Correspondence

| model | code |
|---|---|
| `st` | `state.json`: `Enabled` and `Generation` |
| `stage`, `headers` | the staged token and the live header file |
| `lock` | `flock` on `state.lock` |
| `job`, `using` | launchd's job (not loaded, loaded, starting, running, being removed) and the headers the client loaded |
| `gen`, `was`, `token`, `bad` | a process's `generation`, `wasEnabled`, the token read, and whether a call failed whose error is only collected |
| `author`, `stopped` | history: who wrote the state last; off or revoke has succeeded |

`on` is `OnWrite`, `OnPrint`, `OnAcquire` (`currentGenerationCall`),
`Bootstrap`, `Kickstart`, with the lock free in between. `off` is `OffWrite`,
which may fail, and `OffBootout`, which is called in any case. `credentials` is
`Bump`, `Bootout`, `WaitGone`, then `ClearHeaders` or `ReadStage` and
`InstallHeaders`, then `Save` and for an apply that was on `StartPrint`,
`Bootstrap`, `Kickstart`. `CredentialsFail` leads to `Bootout`, `WaitGone` and
`FailSave` again, with `CleanupError` for errors that are collected. A launchctl
call that fails may have had its effect (`Effect`).

The model takes from the code's use of launchctl that bootout of a running job
returns before the client is gone, that print finds the job until then, and
that nothing but kickstart starts the client (`RunAtLoad` and `KeepAlive` are
false). A `Login` kills all processes and registers the agent again. An
activation that reloads the agent by itself is left out, and so is a launchctl
child that outlives a killed relayctl.

### What the runs show

* `relay_control`: two commands, two tokens, generations up to `MaxGen` = 3 at a
  command's start. The headers change only under a stopped client, the running
  client uses the live ones, off and revoke stick against an on or apply in
  flight, a superseded on starts nothing, only an enabled intent starts, a
  failed promotion with a working cleanup leaves the client off, and the
  refinement of `PolicyPromotion`. The client keeps the same abstract promise as
  the server; what holds it down is a job that is not loaded. Under `FairSpec`
  every command returns.

Bounds: two processes give every pair of commands; `MaxGen` = 3 lets three
writes precede a last command, so that an on can be superseded, and superseded
again by a second on. `FairSpec` is weak fairness of each process's steps: all
calls and polls carry a deadline, so `Error` is always there to be taken. That
launchd ends the client is not assumed.

### What is proved

`RelayControl_proofs` proves all safety properties of `relay_control` and the
refinement for any processes, tokens and bound. `IInv` adds to `TypeOK`:
`Control` (lock and program counters), `Intents` (no generation is handed out
twice, so an on that still has the current one wrote the state last; a
promotion's `was` is the saved intent) and `Protect` (the job stays unloaded
from the proof of the stop until the state is saved). Command termination is
only model-checked.

### Disagreement

* `RelayControlAgain.cfg`: `Off` does not wait as `bootoutLocked` does. An on right
  after it finds the job still registered, skips bootstrap, and its kickstart
  fails once the job is gone; the test for separate processes demands that a
  later on bootstraps and kickstarts.


## 4. Managed agent worktrees: `ManagedWorktree`

### Correspondence

| model | code |
|---|---|
| `rec[t]` | `State` in `<id>.json`, "none" without the file |
| `branch`, `made` | the branch `managed/<id>` and how many commits it has beyond its base |
| `tree`, `dir` | git's registration of the worktree (none, plain, locked) and its directory |
| `merged` | how many of each branch's commits the main branch has |
| `orig`, `conflict` | `ORIG_HEAD`, and an unfinished merge in the main checkout |
| `lock` | the directory `managed-worktrees/.lock` |
| `pc`, `op`, `task`, `tip` | a process's position, command, task and the commit it merged |
| `before`, `promised` | history: the main branch when the lock was taken; commits merged when the record became integrated |

`new` is `Load` ... `SessionEnds`, `clean` is `Clean` ... `RemoveRecord`, and
`merge` is `Gate`, `Acquire`, `Merge`, `Rollback`, `RollbackFails` or `Validated`,
`Activated`, `MergeSave`; `RollbackFails` is the reset after a failed validation
ending with an error, which the code does not look at; `ready`, `abandon` and `prune` are one step under the
lock. `--abort` is `DiscardTree` and `DiscardBranch`, outside the lock, and then a
prune under it. A git call that fails without effect is `Error`. The lock is a
directory: `Kill` leaves it, `Return` removes it, `RecoverLock` is the operator's,
taken when no process is in flight, as the document asks.

Taken from git (2.39): `worktree remove --force` and `worktree prune` spare a
locked worktree; `branch -D` refuses a branch that a registered worktree has
checked out, even when its directory is gone; `merge` of a branch that is
already merged sets `ORIG_HEAD` to `HEAD`. `clean` looks only at the record: the
model lets it delete commits made after the merge, as the code does. Left out: the older `create` and
`--done`, `check`, worktrees with uncommitted files, commits the operator makes
on main, and a base branch other than main.

### What the runs show

* `managed_worktree`: two processes on one task. One operation at a time; an
  active or ready task has its branch and a worktree that git protects,
  whatever was killed, failed, or hit by an `--abort` in the middle; integrated
  work stays merged through later rollbacks; a reset that git carries out after a
  failed validation restores exactly what the command found (`RollbackRestores`: it
  goes wrong when `ORIG_HEAD` is not what this merge left there). It is the git lock on the worktree that carries the second:
  without it an `--abort` before the record is saved takes the branch away (that
  property's mutant).

Bounds: two processes are enough to interleave with one lock holder; one task
is enough for what they can do to each other's files, and the gate's stale
record lets one task be merged, integrated and merged again. Rollbacks across
tasks are covered by the proofs, which hold for any set of tasks. Two commits
let a branch move on after its merge.

### What is proved

`ManagedWorktree_proofs`: type correctness and the four safety properties for any
processes, tasks and commits. `IInv` adds to `TypeOK` `Holding` (a process under
the lock has it alone; a registered worktree pins its branch; a record is there
only when its worktree is locked) and `Main` (during validation `ORIG_HEAD` is
the main branch as the holder found it, and keeps every promise made before).

### Disagreements

* `ManagedWorktreeReset.cfg`: managed.go:351 discards the result of `git reset --merge
  ORIG_HEAD`; when it fails, the merge stays in the main branch and the command says
  "validation failed; merge rolled back" (`RollbackIsDone` is violated).
* the run `managed_worktree_gate`: merge verifies the record before it takes the lock;
  the document says after. A task abandoned in between is merged.
* `ManagedWorktreeRetry.cfg`: after a failed activation a second merge finds
  nothing to merge; when its validation fails the reset to `ORIG_HEAD` undoes
  nothing, while the message says that the merge was rolled back.

Noted: `new` holds the lifecycle lock until the agent's session ends, so that ready,
merge and clean of every task are refused for hours, and the agent's own `ready`
can never succeed inside its session.


## 5. Owned AI assets: `AssetReconcile`

### Correspondence

| model | code |
|---|---|
| `disk[f]` | the content of a file below the target, or none |
| `manifest[f]` | the entry in `.gentle-ai-owned.json`: digest, revision, and `prior` for a pending one; `Unowned` is Go's zero entry |
| `phase`, `todo`, `cur` | where the run is, the files its loop still has to visit, the file it looked at last |
| `plan` | `m` until the preflight is over, `next` afterwards |
| `edits`, `fresh`, `raced` | history: what the user changed since the journalled run began, since the present run began, and since its last look at `cur` |
| `placed`, `last`, `done` | history: files whose content the tool put there, the generation journalled last, whether it finished |

A run is `Begin`, `Adopt`, `Preflight`, `Journal`, then `LookToWrite` and `Put`
for each wanted file in any order, `LookToRemove` and `Unlink` (or
`SkipRemoval`) for each retired one, and `Final`. `Refuse` and `Changed` are its
own error returns, `Fail` is any other error and a kill. `Put` is `Link` where
the preflight saw nothing, and fails if there is a file now; it is `Rename`
otherwise and replaces whatever is there.

The flock serialises runs and dies with its holder; nothing is read before it is
held, so one run at a time loses no behaviour. A power loss that rolls the
directory back to an earlier point is a kill at that point; one that reorders
renames is not covered, and the document promises nothing about it.

### What the run shows

* `asset_reconcile`: two files; three generations that change, drop and add one,
  two of them with the same revision; a legacy tree; contents of the repository
  and of the user. Whatever is interrupted and whatever the user does:
  installed files are recorded; a stopped generation is refused again only for
  files the user changed since it began; after a finished run every other file
  is as wanted; what the user wrote is lost only between the last look and the
  rename or remove, and never where no file was seen.

Bounds: the rules are per file, and the two files differ in what the three
generations do to them, so that one run replaces, adds, removes and adopts. The
user may edit without limit. The proofs hold for any number of each.

### What is proved

`AssetReconcile_proofs` proves all five properties for any files, contents,
generations and trees, from two assumptions: what the repository ships and what
the user writes are different contents, and trees are functions from files to
shipped contents. `IInv` is needed because each property speaks of the disk and the
manifest while the run acts on its plan: `Authority` (no prior state in the
manifest or the plan is the user's), `Looked` (what the last look established),
`Starting` and `Journalled` (how the plan relates to the manifest at each phase),
`Progress` (which files are already in place or retired), and `Recorded`
(installed files are recorded, and every untouched file is in one of the states
that let the generation be repeated: before its replacement, after it, settled,
retired).


## 6. OpenCode's directories: `LayoutMigrate`

### Correspondence

| model | code |
|---|---|
| `at[i]` | where a file of the user is: a named place in a directory, in an archive, nowhere yet, or lost |
| `dirs` | the directories that exist: native (`config`, `share`, `state`, `cache`, `back`), old (`lconf`, `lrun`, `lenv`), those inside the old runtime root (`data`, `lstate`), `skills` |
| `archive`, `prevDone` | an archive with `.incomplete`; with `.previous-archived` |
| `prev`, `kept` | what is already below `previous/` and `old/` of that archive |
| `server` | the old server, as `service.json` tells: off, on, or running unseen once that file has moved |
| `step`, `looked`, `todo`, `retire` | where a run is: `Moves` in their order, then the three old roots, then the end |
| `snap`, `snapOld`, `quiet`, `done`, `late` | history: the files when the archive was made, whether there was an old layout, whether nobody has written since, whether it is complete, what was written since the last look |

A run is `Start` (refused by a live server), `Open`, for each move `SkipMove`,
`RefuseMove` or `Look` and `Rename`, with `MarkPrevious` after the fifth; then for
each old root `ListRoot`, `ArchiveEntry` (or `RefuseEntry`) and `RemoveRoot`; then
`Close`. `Fail` is an error or a kill anywhere. A rename of a directory spares a
destination that has files; that of a file replaces it.

Left out: the intents under `.steps`, which the code writes and tests but which
change nothing it does; process ids that are used again; the empty parents
`data` and `state` of the old root, which are archived with the rest; an archive
directory whose `.incomplete` was never written, which no run looks at.

### What the runs show

* `layout_migrate`: one file of each kind that moves differently (native, in the
  old data directory, the old database, other old files) and one that OpenCode
  creates at any time, in the place of the database, in the old root or in the
  old data directory. Unless something was written meanwhile, no move or entry
  of a resumed run finds its destination taken (`ResumeAccepted`), and when a
  migration completes, whatever interrupted it, every file is where one run would
  have taken it and nothing of the old layout is left (`SameResult`). Even with
  writers, a file is lost only in the window between look and rename
  (`NothingLost`).

Bounds: moves are independent but for the order native first, old second, and a
directory before the files in it; the instance has a pair for each of these.
Kills and activations are not bounded.

### What is proved

`LayoutMigrate_proofs`: type correctness and `NothingLost` for any files, names and
places, from `PlacesAssumption`. `NothingLost` needs `Vacant`: between the look and
the rename of a file, whatever is at its destination has been written since; and
`LookedAt`, since only moves and roots are looked at.

`ResumeAccepted` and `SameResult` are proved for every set of files that satisfies
`NoOldDatabase`: no file called like the database lies, or is ever written, inside
the old data directory. The hypothesis is needed, in the code as in the model: with
a database both there and beside it, `data` becomes `share` and its `db` is in the
way of the second, so that move refuses at every run. Every other combination of
files, any number of kills, failures and resumed runs is covered. Neither property
is inductive. `RInv` adds, besides what the markers `.incomplete` and
`.previous-archived` tell of the step (`Stages`) and that a file's directories exist
(`Placed`), what holds of a migration as long as nobody else writes (`Continued`):

* `PrevGone`, `KeptGone`: what is in the archive is no longer where it was, so an
  archive entry cannot find its place taken;
* `Past`, `RootsGone`: the moves before the one a run is at have nothing left to
  move, those of an earlier run included;
* `Free`: once the native directories are archived, whatever a later move has
  still to take has its destination free; this is where two databases would break it;
* `Tracked`: every file is where it was when the archive was made, or already where
  it is to go, and which of the two is settled for the half of the table that is done.

One lemma per action shows that it keeps `RInv`; the long one is `RenameContinues`,
with a case for each kind of move (a native directory to the archive, an old
directory to a native one, a single file). `ResumeAccepted` is `Free` and the
`...Gone` parts at the move at hand, and `SameResult` follows at `Close` from `Past`,
`RootsGone` and `Tracked`. `Final` names for each place the one it ends at; its
conditions are tried in order, a database in `lrun` before the rest of that root.

### Disagreements

* `LayoutMigrateRetire.cfg`: with `--retire-openfang-skills` a host without the old
  layout, but with unowned skills, has its native OpenCode directories archived,
  database and sessions included. The flag's help speaks of the skills only, and
  the flag is given at every activation of such a host.



## 7. Backup and restore of agent state: `AiBackup`

### Correspondence

| model | code |
|---|---|
| `part`, `archive`, `unsummed` | the `.part` file, `<host>-<time>.tar.zst`, a `.sha256` that was created and not filled |
| `bpc`, `source`, `staged` | `doBackup`'s position, the machine, the snapshots the payload has taken |
| `live`, `kept`, `snap` | what is at each item's place on the target, in its `.pre-restore` copies, in `home-snap/` |
| `wal`, `mixed` | the `-wal` beside a database; databases that were put beside the `-wal` of another |
| `rpc`, `from`, `todo`, `dest` | the payload of the restore, its archive, what it still has to treat, the database just moved aside |
| `wrote` | history: what a program wrote since the restore began |

An *item* is a member of the manifest or a database. Members differ in what a
restore does before it extracts them: `Aside` (moved), `Copied` (`.claude.json`),
`Loose` (neither; the directories of `AI_BACKUP_EXTRA` are `Extras` among them).
`Archived` is what a backup of a machine takes: all it has, but not the extras of a
machine in `Remote`, since `doBackup` sends its script over ssh without the
assignment that `backupPayload` would add. A database is its file and its `-wal`:
`Use` may commit in the `-wal` alone, `Checkpoint` is sqlite bringing it into the
file, and `MoveAside` moves the file without it, as `mv "$dest"` does. A backup is `StartBackup`, `Snapshot`, `Stream`, `Publish`,
`CreateSidecar`, `Sum`; `Stream` chooses which end fails and how much came
through. A restore is `BeginRestore` (archive, sidecar, pre-flight with or without
`--force`), the payloads `Keep`, `Extract` and `MoveAside`/`Place`, and `Check`.
`RestoreStops` and `BackupStops` are a failing command, a dropped connection or a
kill at any of these points. `Use` is OpenCode or Claude writing at any time: the
pre-flight refuses when one runs, but nothing keeps it from being started later.

### What the runs show

* `ai_backup`: three machines, of which one uses another OpenCode channel and one
  has an empty database, are backed up and restored onto a target with state of
  its own. A restore that prints "restore complete" has brought every member and
  database that a backup of the machine archives, with nothing else in a database
  that was not put beside another's `-wal`, and no database fails its check
  (`CompleteIsWhole`, an end-to-end property: it rests on `pipeTwo` looking at both
  ends). What a member or the file of a database held is at its place or in a copy
  after any number of stopped and repeated restores (`NothingLost`). Rows that are
  only in a `-wal`, and the extras of a remote machine, are outside of both: see the
  disagreements.
* `ai_backup_leftover`: see below.

Bounds: one item of each kind that is treated differently, two channels of the
database so that one archive has what another has not, an archive for each
machine, one of them remote; OpenCode writes one database and one member. Stops and repetitions are not bounded.

### What is proved

`AiBackup_proofs`: type correctness, `CompleteIsWhole` and `NothingLost` for any
machines, items and writing programs, from `MachinesAssumption`. `IInv` has
`ArchiveInv` (a published archive is the whole machine, which needs what the stream
may publish) and one part for each payload: `KeepInv`, `ExtractInv` and `PlaceInv`
say what the payload before has already done to each item, and what the current
one has not reached yet. `NothingLost` uses that an item is replaced only by
`Extract`, whose members were kept by the payload before, and by `Place`, whose
`dest` is empty.

### Disagreements

* `AiBackupLog.cfg`: docs/ai-backup.md:95 and the command's own message
  (`main.go:351`) say that every replaced item is kept. A database is kept without its
  `-wal`: rows that a killed OpenCode had committed there are in no copy
  (`ReplacedIsKept` is violated), and the `-wal` then lies beside the restored file.
* `AiBackupExtras.cfg`: docs/ai-backup.md:155 says that the directories of
  `AI_BACKUP_EXTRA` that exist on the source host are archived. `backupPayload`
  (433-435), which forwards the variable, is called by a test only; `doBackup` sends
  `remoteBackupScript` (482). A local backup works, its shell inherits the variable;
  one over ssh archives none of them and reports success (`ExtrasArrive` is
  violated).
* the run `ai_backup_leftover`: the third payload places every snapshot it finds in
  `home-snap/`, and the second extracts into whatever is there. After a restore
  stopped between the two, restoring another machine's archive places the first
  machine's databases as well, though docs/ai-backup.md promises that "repeat
  restores never merge two machines' state".

Noted while modelling, and not stated as properties: the members in `Loose`
(plans, todos, keybindings.json, opencode-multimodal.json, extras) get no `.pre-restore`
copy, although a message of the command says that every replaced item is kept
(`NothingLost` leaves them out); a backup killed while its sidecar is empty leaves
a good archive that restore refuses. The archive is not synced before it is renamed; power loss is not
modelled.

## 8. Builds and version updates: `BuildPipeline`

### Correspondence

| model | code |
|---|---|
| `env`, `command` | `nixbuild.Env` (Darwin, nh, nom) and the command's name |
| `at`, `writes`, `target` | the step `Run` is at, the files the updater still writes, the version it fetched |
| `code`, `pushed` | the exit status, and whether `maybePush` copied the system |
| `part[f]` | the version that file `f` of the checkout speaks of |
| `upstream[p]` | the newest version of package `p`; `Release` moves it at any time |
| `failure` | history: the step whose command failed |

`Plan` is the list of steps `Steps` builds, or the calls `nixos-build-all` makes.
`Execute` is a step that runs a command, with nom or without: the command, nom and
nom's start fail independently, and `Status` is what `RunThroughNom` returns. The
updaters are `UpdateOpenCode`, `UpdateQuota`, `UpdatePins` and `Generate`, which fetch
and then `Write` one file at a time in the code's order; files that npm or nix
generates take the version of the file they are generated from (`Origin`). `Fail`
is an error or a kill between any two of these.

### What the run shows

* `build_pipeline`: all commands, one after another, on every platform, while
  upstream releases. After a failed step nothing follows, the status is not 0 and
  nothing is pushed (`FailureStops`). An upgrade that exits 0 leaves OpenCode's
  manifest, executable and lock, and Gentle AI's input, literals, lock and vendor
  hash at one version each, whatever an earlier upgrade left half done
  (`UpgradeConverges`): these updaters write whatever the files say. The quota plug-in
  is not part of it: see the disagreement.

Bounds: two versions and one file of releasepins; two hosts stand for the lists
of nixos-build-all. Runs are not bounded.

### What is proved

`BuildPipeline_proofs`: type correctness, `FailureStops` and `UpgradeConverges` for any
packages, files of releasepins and versions. `UpgradeConverges` needs `WritesInv`
(what a step still has to write) and `StageInv` (which files agree once an upgrade
has passed a step); nothing is assumed about the files it finds.

### Disagreements

The quota plug-in is not in `UpgradeConverges`, because it does not converge:
`quotaupdate` writes package.json before it regenerates the lock and the hash, and
skips everything when package.json has the newest version. When the lock or the
hash fails, the next upgrade exits 0 with the old ones
(`internal/quotaupdate/quotaupdate.go:122-136`; docs/software-updates.md says that
the plug-in's lock and hash are updated with it). To see it, add `Agree(Quota)` to
the invariant. docs/nix-cache.md says that the hook pushes after `upgrade`;
`applyingCommand` does not include it, and the model follows the code.

## 9. An ssh child, signals and a deadline: `SshChild`

### Correspondence

| model | code |
|---|---|
| `ssh`, `status`, `by` | the child, how it ended and (history) who ended it |
| `listening`, `signalled`, `ctx` | `signal.NotifyContext` is in force, has caught a signal, its context is done |
| `main`, `onSignal`, `onDeadline` | the goroutines of `run` |
| `done`, `cause` | the channels of the result of `Wait` and of the reasons, which holds `Capacity` |
| `exit` | the exit status, or a death by signal |

The login bridge listens first (`ListenFirst`), starts ssh, says that it is up
after two seconds (`SaysUp`), arms its deadline and waits; the tunnel starts ssh and
listens afterwards (`ListenLate`). `SendSignal` and `SendDeadline` block while the
channel is full. A `Signal` reaches the command alone, or the terminal's whole
group, ssh included; ssh may end by itself at any time.

### What the run shows

* `ssh_child`: both commands, with any signals. The status is 0 only when ssh ended
  well or the command was asked to stop, and never 1 because the command killed its
  own ssh (`OwnKillIsNoFailure`): the reason is in the channel before the kill. It says
  nothing of an ssh that the terminal ended: see the disagreement. A command
  that is asked to stop stops, and leaves no ssh behind (`StopsWhenAsked`): nobody
  receives reasons before ssh has ended, so the senders must not block.

There is no bound: the state space is finite. Fairness: a goroutine that can go on
does, main whether or not its two seconds have passed; neither the end of ssh, nor a
signal, nor the deadline ever has to come. A killed process ends at once.

### What is proved

`Commands_proofs`: type correctness and `OwnKillIsNoFailure` for any capacity. `SshInv` adds
`WaitInv` (ssh is started and waited for once) and `ReasonInv` (who kills has sent
its reason). `StopsWhenAsked` is model-checked only.

### Disagreements

* `SshChildCtrlC.cfg`: the usage text (`main.go:67`) says that SIGINT closes the bridge cleanly with
  exit 0.
  A Ctrl+C at the terminal reaches ssh too; when main sees ssh end before the
  signal's goroutine has sent its reason, the bridge exits 1.

Noted: the bridge says that it is up after two seconds, while ssh may take five to
connect; a SIGTERM to the tunnel before it listens leaves its ssh running
(`StopsWhenAsked` speaks of signals that were caught); the tunnel's port is given
up before ssh takes it.

## 10. Shutdown trials and the power-off hook: `ShutdownTrial`

### Correspondence

| model | code |
|---|---|
| `log`, `disk` | the lines of the history file, and those a power loss would leave |
| `run`, `entry` | the running test-shutdown and the entry it appends |
| `plan`, `machine`, `port` | the staged plan, the DMI identity and power register, the register before the hook wrote it |
| `phase`, `boot` | up, stopping, in the shutdown ramfs, back from the write, off; the boot's number |
| `seen`, `verdicts` | history: the power-off the operator watched, and what each result was filed under |

`Launch` hands a trial to systemd-run, `Execute` applies its steps, `Write` and `Sync`
are `Append`, `RequestOff` is systemctl poweroff; `RecordResult` reads the history and
appends the result. A write fails with nothing or a part on the file; a line after
a part is glued to it (`Appended`), and a line that cannot be parsed makes `Read`
fail (`Readable`). `Stage` and `Poweroff` are the hook's two modes. `Kill`,
`Writeback` and `PowerCut` may come at any time.

### What the run shows

* `shutdown_trial`: two trials and the manual one, three boots, three lines. A
  result names the trial, and the boot, that the operator watched
  (`ResultNamesItsTrial`): the record is synced before the power-off is asked for, so
  a hang that is cut by hand leaves it. The register is written when the history is
  on the disk and no process of it runs, on the expected machine only, and changes
  nothing but SLP_TYP and SLP_EN (`PortWriteComesLast`).

Bounds: `MaxBoots` = 3 and `MaxLines` = 3 let a torn line, a lost one and two trials
precede a result. The system may stop in an off machine, so deadlock is not checked.

### What is proved

`Commands_proofs`: type correctness, `ResultNamesItsTrial` and `PortWriteComesLast`
for any machines, trials, boots and lines, from `TrialsAssumption`. `TrialInv`
adds:

* `RecordInv`: the entry at hand is of this boot, and from the write on it, or a
  line that cannot be read, is the last of the history; when the power-off is asked
  for, the disk has the history too;
* `SeenInv`: while the operator has the end of an automatic trial to record, nothing
  is being appended, the disk has the history and that trial is its last line. It is
  what survives the power loss: of a history that is on the disk there is nothing to
  lose (lemma `NothingLost`, about `Survivors`);
* `PhaseInv`: no process of it outlives the unmount, the shutdown ramfs finds all on
  the disk, and a plan that was staged is valid and of the expected machine.

A manual trial is no line of the history, and `SeenInv` says nothing of it: that is
the disagreement below. The lemmas it rests on: `AppendedLast` (what is appended, or
an unreadable line, comes last), `SurvivorsType`, `Greatest` (a history with a trial
has a last one, so `LastTrial` names it; from the library's well-founded induction), and
`WrittenValue`: whatever 16-bit word is read, `S5WriteValue` gives one that differs in
bits 10 to 13 only, by splitting the word into its three fields.

### Disagreements

* `ShutdownTrialManual.cfg`: the trial "outside" only prints instructions, one of
  which says "Then record each with test-shutdown result". It records no trial, so
  the result is filed under the last automatic one.

Noted: once a line is torn no result can ever be recorded, and every later entry is
lost to `Read`; a trial that fails leaves its runtime settings in force until the
reboot; two trials can run at once (the model runs one).

## 11. Shipping the kernel log: `Netconsole`

### Correspondence

| model | code |
|---|---|
| `pstore`, `enabled` | kernel parameters that are right; `target1/enabled` in configfs |
| `setup`, `result`, `nonce`, `attempt` | netconsole-setup's position and outcome, its nonce and probe |
| `probes`, `acks` | datagrams that were sent, and may arrive any number of times, in any order, or never |
| `handling`, `step`, `file`, `stored` | the receiver's line, what it does with it next, the file and what is synced |

The setup is `Begin`, `EnsurePstore`, `BindSource`, `ConfigureTarget`, then `Probe` and
`ReceiveAck` or `Timeout`; the receiver is `Read`, `AppendLine`, `SyncLog`, `Ack`, with
`Drop` where the file fails. `SetupStops` and `ReceiverStops` are stops, kills and
reboots of either side.

### What the run shows

* `netconsole`: three runs of the setup with two probes each. One that reports
  "target1 ready" has its own probe on the receiver's disk, and pstore switched on
  for the crash that no datagram survives (`ReadyIsLogged`). An acknowledgement of
  an earlier run does not count, and the receiver acknowledges only what it has
  synced.

Bounds: three runs let acknowledgements of two earlier ones arrive late; nothing
depends on the number of probes beyond the first retry. Datagrams are not bounded.

### What is proved

`Commands_proofs`: type correctness and `ReadyIsLogged` for any number of runs and
attempts, from `AttemptsAssumption`. `NetInv` adds `Received` (every acknowledgement
that ever was is of a line on the receiver's disk, and the disk only has what the
file has, so that no stop takes it back) and `Configured` (the setup goes past
`EnsurePstore` only with both parameters right, and has no result before its end).

## Not modelled, and why

* Ownership, mode and link-count checks of the relay directories are steps that
  may fail; which bit pattern they accept is not a property here.
* The relay client's validation, and the ports the login bridge reads from a URL:
  pure functions with unit tests.
* code-work's older create and `--done`, which touch only unmanaged worktrees, and
  check, which runs nix.
* nix-cache, wg-peer and sops-rotate-keys: sequences of external commands around one
  write or one swap of a directory, without recovery of their own.
* opencode-home, project and rtk initialisation, gpg helpers, device links: each run
  prepares one thing and ends, or becomes another program.
* The declarative Nix modules: they have no behaviour of their own beyond the
  services they declare. Read-only reports. Formatting, logging and help texts.
* What the external programs do inside: git, systemd, launchd, ssh, npm and nix
  appear as the effects the code relies on, marked external.

Every safety invariant and action property that a passing run checks is also a
theorem. Model-checked and not proved: liveness (`LockReleased`, `CommandsReturn`,
`StopsWhenAsked`), which the provers cannot do; and what the runs that find a
disagreement refute.

## Plan

Done: the modules of the table in the head, in that order. Left, in order:

1. What an operator can still rely on where a record cannot be read or finished:
   invariants of the states that the hazards without a property describe.
2. `NixCache`: the two directories of roots, a prewarm that stops, a push from the
   old one meanwhile.
3. `WgPeer`: free addresses of several prefixes, and a rebuild that fails after
   the peer was written.
