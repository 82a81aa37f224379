------------------------------- MODULE AiBackup -------------------------------
(***************************************************************************)
(* ai-backup (cmd/ai-backup/main.go): a backup streams a machine's agent   *)
(* state, with snapshots of its databases, into an archive; a restore puts *)
(* an archive over the state of a target, as four payloads one after       *)
(* another.  Any step may fail, either command may be killed at any point, *)
(* and OpenCode or Claude may be started and write while a restore runs.   *)
(*                                                                         *)
(* An item is a member of the manifest or a database, under its real name. *)
(* Its content is the set of what it is made of: the name of the machine   *)
(* it was archived on, what the target had at first, what a program wrote. *)
(* A database is a file and its -wal: rows that a program committed stay   *)
(* in the -wal until sqlite brings them into the file, and sqlite reads    *)
(* whatever -wal lies beside a file.  A snapshot has both in one file.     *)
(*                                                                         *)
(* A machine has one archive: a later one of the same machine differs in   *)
(* nothing the properties see.                                             *)
(*                                                                         *)
(* Abstracted: how hosts are reached; the order of the items inside one    *)
(* payload; the time stamps of kept copies, which never coincide.  One     *)
(* command runs at a time.                                                 *)
(***************************************************************************)
EXTENDS FiniteSets

CONSTANTS
  Machines,   \* machines that are backed up; each stands for its archive too
  Aside,      \* members that a restore moves aside: projects, auth.json, ...
  Copied,     \* members that it copies first: .claude.json
  Loose,      \* members that it does neither with: plans, keybindings.json, ...
  Extras,     \* the ones of these that are named in AI_BACKUP_EXTRA
  Trees,      \* the members that are directories
  OpenCode,   \* OpenCode's databases
  Engram,     \* Engram's
  Remote,     \* machines reached over ssh; the others back up themselves
  Has,        \* what a machine has
  Written,    \* items that a program writes while the commands run
  Empty,      \* databases of a machine whose snapshot is an empty file
  Damaged,    \* databases whose first content fails the integrity check
  Orig, Mine, \* content the target had at first; content a program wrote
  None

Dbs    == OpenCode \cup Engram
Plain  == Aside \cup Copied \cup Loose
Items  == Plain \cup Dbs

ASSUME MachinesAssumption ==
  /\ Has \in [Machines -> SUBSET Items] /\ Written \subseteq Items /\ Empty \in [Machines -> SUBSET Dbs]
  /\ Trees \subseteq Aside \cup Loose /\ Plain \cap Dbs = {}
  /\ Aside \cap Copied = {} /\ Loose \cap (Aside \cup Copied) = {}
  /\ {Orig, Mine, None} \cap Machines = {} /\ Orig # Mine
  /\ Extras \subseteq Loose /\ Remote \subseteq Machines
  /\ None \notin Items /\ Damaged \subseteq Dbs

VARIABLES
  \* the destination directory
  part,      \* members in the backup's .part file, None if there is no file
  archive,   \* members in a published archive, None if there is none
  unsummed,  \* archives whose .sha256 was created and not filled
  \* the backup
  bpc, source, staged,
  \* the target
  live,      \* content of each item at its place, {} if it is absent
  wal,       \* content of the -wal beside a database; it outlives a killed program
  kept,      \* content of its .pre-restore copies that no archive has
  snap,      \* staged snapshot in home-snap/, {} if there is none
  mixed,     \* databases put in place beside the -wal of the one before
  \* the restore
  rpc, from,
  todo,      \* items the payload still has to treat
  dest,      \* the database whose old file was just moved aside
  \* history
  wrote      \* items written by a program since the restore began

destVars   == <<part, archive, unsummed>>
backupVars == <<bpc, source, staged>>
targetVars == <<live, wal, kept, snap, mixed>>
restoreVars == <<rpc, from, todo, dest>>
vars == <<destVars, backupVars, targetVars, restoreVars, wrote>>

Local    == {Orig, Mine}
Contents == Machines \cup Local
NoFile   == {None}
BackupSteps  == {"idle", "snap", "publish", "open", "sum"}
RestoreSteps == {"keep", "extract", "place"}

TypeOK ==
  /\ part \in (SUBSET Items) \cup {NoFile}
  /\ archive \in [Machines -> (SUBSET Items) \cup {NoFile}]
  /\ unsummed \subseteq Machines
  /\ bpc \in BackupSteps /\ source \in Machines \cup {None} /\ staged \subseteq Dbs
  /\ live \in [Items -> SUBSET Contents] /\ kept \in [Items -> SUBSET Local]
  /\ wal \in [Dbs -> SUBSET {Mine}] /\ snap \in [Dbs -> SUBSET Machines] /\ mixed \subseteq Dbs
  /\ rpc \in RestoreSteps \cup {"idle", "complete", "failed"}
  /\ from \in Machines \cup {None}
  /\ todo \subseteq Items /\ dest \in Dbs \cup {None} /\ wrote \subseteq Items

Init ==
  /\ part = NoFile /\ archive = [m \in Machines |-> NoFile]
  /\ unsummed = {}
  /\ bpc = "idle" /\ source = None /\ staged = {}
  /\ live \in [Items -> {{}, {Orig}}]
  /\ wal = [d \in Dbs |-> {}] /\ kept = [i \in Items |-> {}] /\ snap = [d \in Dbs |-> {}] /\ mixed = {}
  /\ rpc = "idle" /\ from = None /\ todo = {} /\ dest = None
  /\ wrote = {}

(***************************************************************************)
(* Backup                                                                  *)
(***************************************************************************)
\* doBackup: the host answers, the .part file is created, the payload starts.
StartBackup(m) ==
  /\ bpc = "idle" /\ rpc \notin RestoreSteps /\ archive[m] = NoFile
  /\ part' = {} /\ source' = m /\ staged' = {} /\ bpc' = "snap"
  /\ UNCHANGED <<archive, unsummed, targetVars, restoreVars, wrote>>

\* snap(): one database is staged.
Snapshot(d) ==
  /\ bpc = "snap" /\ d \in (Has[source] \cap Dbs) \ staged
  /\ staged' = staged \cup {d}
  /\ UNCHANGED <<destVars, bpc, source, targetVars, restoreVars, wrote>>

\* The payload refuses to archive without an OpenCode snapshot, or an empty one.
FailsClosed == staged \cap OpenCode = {} \/ staged \cap Empty[source] # {}

\* What the payload archives.  AI_BACKUP_EXTRA is in the environment of a local
\* shell; ssh does not pass it on, and doBackup sends the script without the
\* assignment that backupPayload would put before it.
Archived(m) == IF m \in Remote THEN Has[m] \ Extras ELSE Has[m]

\* The members on the command line of tar.
Manifest == (Archived(source) \cap Plain) \cup staged

\* Mutant: only the last command of the pipe counts.
LastFailed(src, dst) == ~dst

\* pipeTwo reports an error of either end.
PipeFailed(src, dst) == ~dst \/ ~src

\* sqlite, tar or ssh fails on one side, or zstd on the other, or neither.
\* What came through before is in the file.
Stream ==
  /\ bpc = "snap"
  /\ \E src, dst \in BOOLEAN, got \in SUBSET Manifest :
       /\ src => Has[source] \cap Dbs \subseteq staged /\ ~FailsClosed
       /\ src /\ dst => got = Manifest
       /\ IF PipeFailed(src, dst)
          THEN /\ part' = NoFile   \* os.Remove(part)
               /\ bpc' = "idle" /\ source' = None
          ELSE /\ part' = got
               /\ bpc' = "publish" /\ source' = source
  /\ staged' = {}
  /\ UNCHANGED <<archive, unsummed, targetVars, restoreVars, wrote>>

\* os.Rename(part, archive)
Publish ==
  /\ bpc = "publish"
  /\ archive' = [archive EXCEPT ![source] = part]
  /\ part' = NoFile /\ bpc' = "open"
  /\ UNCHANGED <<unsummed, source, staged, targetVars, restoreVars, wrote>>

\* The sidecar is created and then filled by sha256sum.
CreateSidecar ==
  /\ bpc = "open" /\ bpc' = "sum"
  /\ unsummed' = unsummed \cup {source}
  /\ UNCHANGED <<part, archive, source, staged, targetVars, restoreVars, wrote>>
Sum ==
  /\ bpc = "sum" /\ bpc' = "idle" /\ source' = None
  /\ unsummed' = unsummed \ {source}
  /\ UNCHANGED <<part, archive, staged, targetVars, restoreVars, wrote>>

\* A kill, or an error of rename, create or sha256sum: what is there stays, but
\* a .part file has its time in its name, and nothing ever reads it again.
BackupStops ==
  /\ bpc # "idle" /\ bpc' = "idle" /\ source' = None /\ staged' = {} /\ part' = NoFile
  /\ UNCHANGED <<archive, unsummed, targetVars, restoreVars, wrote>>

(***************************************************************************)
(* Restore                                                                 *)
(***************************************************************************)
\* Mutant: .claude.json is not among the members that are kept.
TreesToKeep == Aside

\* The members that preRestoreScript moves aside or copies.
ToKeep == Aside \cup Copied

\* What a restore without --force refuses to replace.
Collisions == {i \in Aside \cup Copied \cup Dbs : live[i] # {}}

\* doRestore: the archive is there, its sidecar matches if there is one, and the
\* pre-flight passes.  The pre-flight refuses a running program too; but a
\* program may start a moment later, so that this restricts nothing.
BeginRestore(m, force) ==
  /\ bpc = "idle" /\ rpc \notin RestoreSteps
  /\ archive[m] # NoFile /\ m \notin unsummed /\ (force \/ Collisions = {})
  /\ from' = m /\ rpc' = "keep" /\ todo' = ToKeep /\ wrote' = {}
  /\ UNCHANGED <<destVars, backupVars, targetVars, dest>>

\* Content that a .pre-restore copy adds to what is in the archives.
Own(i) == live[i] \ Machines

\* preRestoreScript: members are moved aside or copied.
Keep(i) ==
  /\ rpc = "keep" /\ i \in todo
  /\ kept' = [kept EXCEPT ![i] = @ \cup Own(i)]
  /\ live' = [live EXCEPT ![i] = IF i \in Aside THEN {} ELSE @]
  /\ todo' = todo \ {i}
  /\ UNCHANGED <<destVars, backupVars, wal, snap, mixed, rpc, from, dest, wrote>>

StartExtract ==
  /\ rpc = "keep" /\ todo = {} /\ rpc' = "extract" /\ todo' = archive[from]
  /\ UNCHANGED <<destVars, backupVars, targetVars, from, dest, wrote>>

\* zstd -dc | tar -x: a file is replaced, a directory is merged into, a
\* snapshot lands in home-snap/.
Extract(i) ==
  /\ rpc = "extract" /\ i \in todo /\ todo' = todo \ {i}
  /\ IF i \in Dbs
     THEN snap' = [snap EXCEPT ![i] = {from}] /\ UNCHANGED live
     ELSE /\ live' = [live EXCEPT ![i] = (IF i \in Trees THEN @ ELSE {}) \cup {from}]
          /\ UNCHANGED snap
  /\ UNCHANGED <<destVars, backupVars, wal, kept, mixed, rpc, from, dest, wrote>>

StartPlace ==
  /\ rpc = "extract" /\ todo = {} /\ rpc' = "place"
  /\ UNCHANGED <<destVars, backupVars, targetVars, from, todo, dest, wrote>>

\* place(): the old database file is moved aside, then the snapshot moved in.
\* The -wal of the old file stays where it is, and is now the new file's.
MoveAside(d) ==
  /\ rpc = "place" /\ dest = None /\ snap[d] # {} /\ live[d] # {} /\ dest' = d
  /\ kept' = [kept EXCEPT ![d] = @ \cup Own(d)] /\ live' = [live EXCEPT ![d] = {}]
  /\ UNCHANGED <<destVars, backupVars, wal, snap, mixed, rpc, from, todo, wrote>>
Place(d) ==
  /\ rpc = "place" /\ snap[d] # {} /\ (dest = d \/ (dest = None /\ live[d] = {}))
  /\ live' = [live EXCEPT ![d] = snap[d]] /\ snap' = [snap EXCEPT ![d] = {}]
  /\ mixed' = IF wal[d] = {} THEN mixed \ {d} ELSE mixed \cup {d}
  /\ dest' = None
  /\ UNCHANGED <<destVars, backupVars, wal, kept, rpc, from, todo, wrote>>

\* home-snap/ is removed and every database checked, old ones included.  A
\* file that is read with the -wal of another may pass the check or not.
Check ==
  /\ rpc = "place" /\ dest = None /\ \A d \in Dbs : snap[d] = {}
  /\ \E ok \in {TRUE, mixed = {}} :
       rpc' = IF ok /\ \A d \in Damaged : Orig \notin live[d] THEN "complete" ELSE "failed"
  /\ UNCHANGED <<destVars, backupVars, targetVars, from, todo, dest, wrote>>

\* A payload that fails, or a kill: the next payload does not run,
\* what was done stays done.
RestoreStops ==
  /\ rpc \in RestoreSteps /\ rpc' = "failed" /\ from' = None /\ todo' = {}
  /\ dest' = None /\ wrote' = {}
  /\ UNCHANGED <<destVars, backupVars, targetVars>>

(***************************************************************************)
(* The programs whose state it is                                          *)
(***************************************************************************)
\* A program rewrites an item, or adds to a directory; a database it may write
\* in the -wal alone.  What it writes is told apart once per item.
Use(i) ==
  /\ i \in Written /\ Mine \notin live[i] \cup kept[i] /\ i \notin wrote
  /\ wrote' = wrote \cup {i}
  /\ \/ live' = [live EXCEPT ![i] = @ \cup {Mine}] /\ UNCHANGED wal
     \/ /\ i \in Dbs /\ live[i] # {} /\ Mine \notin wal[i]
        /\ wal' = [wal EXCEPT ![i] = @ \cup {Mine}] /\ UNCHANGED live
  /\ UNCHANGED <<destVars, backupVars, kept, snap, mixed, restoreVars>>

\* sqlite, in a program or in the integrity check, brings a -wal into the file
\* beside it and removes it.
Checkpoint(d) ==
  /\ live[d] # {} /\ wal[d] # {}
  /\ live' = [live EXCEPT ![d] = @ \cup wal[d]] /\ wal' = [wal EXCEPT ![d] = {}]
  /\ UNCHANGED <<destVars, backupVars, kept, snap, mixed, restoreVars, wrote>>

Next ==
  \/ \E m \in Machines : StartBackup(m) \/ \E f \in BOOLEAN : BeginRestore(m, f)
  \/ \E d \in Dbs : Snapshot(d) \/ MoveAside(d) \/ Place(d) \/ Checkpoint(d)
  \/ Stream \/ Publish \/ CreateSidecar \/ Sum \/ BackupStops
  \/ StartExtract \/ StartPlace \/ Check \/ RestoreStops
  \/ \E i \in Items : Keep(i) \/ Extract(i) \/ Use(i)

Spec == Init /\ [][Next]_vars

(***************************************************************************)
(* Properties                                                              *)
(***************************************************************************)
\* What is kept before it is replaced: whatever stops a restore and however often
\* it is repeated, what a member or the file of a database held is at its place or
\* in a copy, unless a program wrote the item while the restore ran.  The members
\* in Loose have no copy, and the rows that are in a -wal alone neither: see
\* ReplacedIsKept.
NothingLost ==
  [][\A i \in Items \ Loose :
       i \notin wrote => Own(i) \cup kept[i] \subseteq live'[i] \cup kept'[i]]_vars

\* From one end to the other: a restore that reports "restore complete" has
\* brought every member and database of the archived machine, but for the extras
\* of one reached over ssh, whatever failed in the backup and in earlier
\* restores.  Nothing the target had is left in them, except in the members that
\* are not kept and in a database that found another's -wal; and no database is
\* damaged by what it had at first.
CompleteIsWhole ==
  rpc = "complete" =>
    /\ \A i \in Archived(from) \ wrote :
         /\ from \in live[i]
         /\ i \in ToKeep => live[i] = {from}
         /\ i \in Dbs \ mixed => live[i] \cup wal[i] = {from}
    /\ \A d \in Damaged \ wrote : Orig \notin live[d]

\* "repeat restores never merge two machines' state": the databases a restore
\* puts in place are those of its own archive.
NeverMerges ==
  [][\A d \in Dbs : Place(d) => live'[d] = {from}]_vars

\* docs/ai-backup.md:95, main.go:351, "every replaced item is kept": the copy of a
\* database has all that the database held when the restore began.
ReplacedIsKept ==
  [][\A d \in Dbs \ wrote :
       MoveAside(d) => (live[d] \cup wal[d]) \ Machines \subseteq kept'[d]]_vars

\* docs/ai-backup.md:155: the directories named in AI_BACKUP_EXTRA that exist on
\* the source host are archived, and a restore brings them.
ExtrasArrive ==
  rpc = "complete" => \A i \in (Has[from] \cap Extras) \ wrote : from \in live[i]
=============================================================================
