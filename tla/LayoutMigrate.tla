----------------------------- MODULE LayoutMigrate -----------------------------
(***************************************************************************)
(* opencode-layout-migrate (internal/opencodelayout/migrate.go): moves a   *)
(* user's OpenCode data from the versioned layout into the native          *)
(* directories and everything that was in their way into an archive.  It   *)
(* is run by every activation, may fail or be killed before any step, and  *)
(* continues an archive that is marked incomplete.                         *)
(*                                                                         *)
(* Data is a set of files, each in a directory that is moved as a whole or *)
(* file by file.  OpenCode of either layout may write meanwhile; the old   *)
(* layout's server announces its process in service.json.                  *)
(*                                                                         *)
(* Abstracted: the directories above the named ones; where in an archive a *)
(* file is; the intents under .steps, which are written before a rename    *)
(* and change nothing when they are found again.                           *)
(***************************************************************************)
EXTENDS Naturals

CONSTANTS
  Items,    \* files of the user, now or later
  Home,     \* where each is if it exists at first; Absent if OpenCode creates it
  Names,    \* names of files in a directory
  Written   \* places where OpenCode of either layout may create a file

All     == "all"      \* the directory itself
Absent  == [dir |-> "nowhere", name |-> "absent"]
Lost    == [dir |-> "nowhere", name |-> "lost"]
Archive == [dir |-> "archive", name |-> All]

Live    == {"config", "share", "state", "cache", "back"}
Roots   == {"lconf", "lrun", "lenv"}   \* configOld, runtimeOld, envOld
Inner   == {"data", "lstate"}          \* directories in runtimeOld
Dirs    == Live \cup Roots \cup Inner \cup {"skills"}
Places  == [dir : Dirs, name : Names]

ASSUME PlacesAssumption ==
  /\ Home \in [Items -> Places \cup {Absent}] /\ Written \subseteq Places
  /\ All \notin Names /\ Names \cap Dirs = {}

\* The moves in their order: native directories into the archive, the skills,
\* the old layout's data into the native directories.
Move(from, name, to) == [from |-> from, name |-> name, to |-> to]
Moves == << Move("config", All, "archive"), Move("share", All, "archive"),
            Move("state", All, "archive"), Move("cache", All, "archive"),
            Move("back", All, "archive"), Move("skills", All, "archive"),
            Move("data", All, "share"), Move("lrun", "db", "share"),
            Move("lrun", "wal", "share"), Move("lrun", "shm", "share"),
            Move("lstate", All, "state"), Move("lconf", "jsonc", "config"),
            Move("lconf", "service", "config") >>
Skills   == 6             \* the first move after .previous-archived
RootAt   == [k \in 14..16 |-> CASE k = 14 -> "lconf" [] k = 15 -> "lrun" [] OTHER -> "lenv"]
Closing  == 17
Opening  == 18            \* a new archive is made

VARIABLES
  at,        \* where each file is
  dirs,      \* directories that exist
  owned,     \* OpenFang has a manifest of its skills
  server,    \* the old server: off, on, or hidden once its service.json moved
  archive,   \* an archive with .incomplete exists
  prevDone,  \* and with .previous-archived
  prev,      \* the directories moved into it whole
  kept,      \* the remaining files moved into it
  step,      \* the run: 0 between runs, then where it is
  retire, looked, todo,  \* its locals
  snap, snapOld, quiet, done, late
             \* history: at and the old layout's presence when the archive was
             \* made; nobody wrote since; it is complete; files written since
             \* the last look

archiveVars == <<archive, prevDone, prev, kept>>
run  == <<step, retire, looked, todo>>
hist == <<snap, snapOld, quiet, done, late>>
vars == <<at, dirs, owned, server, archiveVars, run, hist>>

TypeOK ==
  /\ at \in [Items -> Places \cup {Absent, Lost, Archive}]
  /\ snap \in [Items -> Places \cup {Absent, Lost, Archive}]
  /\ dirs \subseteq Dirs
  /\ server \in {"off", "on", "hidden"}
  /\ {owned, archive, prevDone, retire, looked, snapOld, quiet, done} \subseteq BOOLEAN
  /\ prev \subseteq Dirs /\ kept \subseteq Roots \X (Names \cup Inner)
  /\ step \in 0..18 /\ todo \subseteq Names \cup Inner /\ late \subseteq Items

\* The directories that hold d: only runtimeOld's are in another one here.
WithParent(d) == IF d \in Inner THEN {d, "lrun"} ELSE {d}
Holding(f) == UNION {WithParent(f[i].dir) : i \in {j \in Items : f[j] \in Places}}

Init ==
  /\ \E there \in SUBSET Items : at = [i \in Items |-> IF i \in there THEN Home[i] ELSE Absent]
  /\ dirs = Holding(at)
  /\ owned \in BOOLEAN /\ server = "off"
  /\ archive = FALSE /\ prevDone = FALSE /\ prev = {} /\ kept = {}
  /\ step = 0 /\ retire = FALSE /\ looked = FALSE /\ todo = {}
  /\ snap = at /\ snapOld = FALSE /\ quiet = TRUE /\ done = FALSE /\ late = {}

(***************************************************************************)
(* OpenCode                                                                *)
(***************************************************************************)
Occupied(d, n) == \E i \in Items : at[i] = [dir |-> d, name |-> n]

\* Anything may write to the native directories, the old server to the others.
Write(i, place) ==
  /\ Home[i] = Absent /\ at[i] = Absent /\ ~Occupied(place.dir, place.name)
  /\ place.dir \in Roots \cup Inner => server # "off"
  /\ at' = [at EXCEPT ![i] = place]
  /\ dirs' = dirs \cup WithParent(place.dir)
  /\ quiet' = FALSE /\ late' = late \cup {i}
  /\ UNCHANGED <<owned, server, archiveVars, run, snap, snapOld, done>>

StartServer ==
  /\ server = "off"
  /\ server' = "on" /\ dirs' = dirs \cup {"lrun", "lstate"} /\ quiet' = FALSE
  /\ UNCHANGED <<at, owned, archiveVars, run, snap, snapOld, done, late>>

StopServer ==
  /\ server # "off" /\ server' = "off"
  /\ UNCHANGED <<at, dirs, owned, archiveVars, run, hist>>

(***************************************************************************)
(* A run                                                                   *)
(***************************************************************************)
OldLayout == Roots \cap dirs # {}

\* refuseRunningServer: service.json is at its old place and its process lives.
ServerSeen == server = "on"

\* Mutant: a resumed run archives the native directories again.
StartOver(flag) ==
  /\ step = 0 /\ ~ServerSeen
  /\ retire' = (flag /\ "skills" \in dirs /\ ~owned)
  /\ archive \/ OldLayout \/ retire'
  /\ step' = IF ~archive THEN Opening ELSE 1
  /\ prev' = {}
  /\ UNCHANGED <<at, dirs, owned, server, archive, prevDone, kept, looked, todo, hist>>

\* Refused while the old server is running, as far as service.json tells.
Start(flag) ==
  /\ step = 0 /\ ~ServerSeen
  /\ retire' = (flag /\ "skills" \in dirs /\ ~owned)
  /\ archive \/ OldLayout \/ retire'
  /\ step' = IF ~archive THEN Opening ELSE IF prevDone THEN Skills ELSE 1
  /\ UNCHANGED <<at, dirs, owned, server, archiveVars, looked, todo, hist>>

Stop == step' = 0 /\ retire' = FALSE /\ looked' = FALSE /\ todo' = {}

\* A failing call or a kill.
Fail ==
  /\ step # 0 /\ Stop
  /\ UNCHANGED <<at, dirs, owned, server, archiveVars, hist>>

\* Mutant: .previous-archived written with .incomplete.
OpenMarked ==
  /\ step = Opening /\ step' = 1
  /\ archive' = TRUE /\ prevDone' = TRUE /\ prev' = {} /\ kept' = {}
  /\ snap' = at /\ snapOld' = OldLayout /\ quiet' = TRUE /\ done' = FALSE
  /\ UNCHANGED <<at, dirs, owned, server, retire, looked, todo, late>>

\* The archive and its .incomplete; one without the other is never looked at.
Open ==
  /\ step = Opening /\ step' = 1
  /\ archive' = TRUE /\ prevDone' = FALSE /\ prev' = {} /\ kept' = {}
  /\ snap' = at /\ snapOld' = OldLayout /\ quiet' = TRUE /\ done' = FALSE
  /\ UNCHANGED <<at, dirs, owned, server, retire, looked, todo, late>>

MarkPrevious ==
  /\ step = Skills /\ ~prevDone
  /\ prevDone' = TRUE
  /\ UNCHANGED <<at, dirs, owned, server, archive, prev, kept, run, hist>>

\* moveStep's conditions.
SourceExists(m) == IF m.name = All THEN m.from \in dirs ELSE Occupied(m.from, m.name)
TargetExists(m) ==
  IF m.to = "archive" THEN m.from \in prev
  ELSE IF m.name = All THEN m.to \in dirs ELSE Occupied(m.to, m.name)

AtMove == step \in 1..13 /\ (step >= Skills => prevDone)
Due(m) == SourceExists(m) /\ (m.from = "skills" => retire)

SkipMove ==
  /\ AtMove /\ ~looked /\ ~Due(Moves[step])
  /\ step' = step + 1
  /\ UNCHANGED <<at, dirs, owned, server, archiveVars, retire, looked, todo, hist>>

\* A destination that exists is never overwritten.
RefuseMove ==
  /\ AtMove /\ ~looked /\ Due(Moves[step]) /\ TargetExists(Moves[step])
  /\ Stop
  /\ UNCHANGED <<at, dirs, owned, server, archiveVars, hist>>

\* Mutant: the destination is not looked at.
LookAway ==
  /\ AtMove /\ ~looked /\ Due(Moves[step])
  /\ looked' = TRUE /\ late' = {}
  /\ dirs' = IF Moves[step].name = All THEN dirs ELSE dirs \cup {Moves[step].to}
  /\ UNCHANGED <<at, owned, server, archiveVars, step, retire, todo, snap, snapOld,
                 quiet, done>>

\* The look at the destination; a file's directory is made.
Look ==
  /\ AtMove /\ ~looked /\ Due(Moves[step]) /\ ~TargetExists(Moves[step])
  /\ looked' = TRUE /\ late' = {}
  /\ dirs' = IF Moves[step].name = All THEN dirs ELSE dirs \cup {Moves[step].to}
  /\ UNCHANGED <<at, owned, server, archiveVars, step, retire, todo, snap, snapOld,
                 quiet, done>>

Moved(i, m) ==
  /\ at[i].dir = m.from
  /\ m.name \in {All, at[i].name}
\* Mutant: the name of the move, not of the file.
DestinationNamed(i, m) ==
  IF m.to = "archive" THEN Archive ELSE [dir |-> m.to, name |-> m.name]
Destination(i, m) ==
  IF m.to = "archive" THEN Archive ELSE [dir |-> m.to, name |-> at[i].name]

\* Rename of a directory spares a destination with files in it; that of a file
\* replaces one that has appeared since.
CanRename(m) ==
  m.name = All /\ m.to # "archive" => \A i \in Items : at[i].dir # m.to

Rename ==
  /\ AtMove /\ looked /\ SourceExists(Moves[step]) /\ CanRename(Moves[step])
  /\ LET m == Moves[step] IN
     /\ at' = [i \in Items |->
                 IF Moved(i, m) THEN Destination(i, m)
                 ELSE IF m.name # All /\ at[i] = [dir |-> m.to, name |-> m.name]
                      THEN Lost ELSE at[i]]
     /\ dirs' = IF m.name # All THEN dirs
                ELSE (dirs \ {m.from}) \cup ({m.to} \cap Dirs)
     /\ prev' = IF m.to = "archive" THEN prev \cup {m.from} ELSE prev
     /\ server' = IF m.from = "lstate" /\ server = "on" THEN "hidden" ELSE server
  /\ looked' = FALSE /\ step' = step + 1 /\ late' = {}
  /\ UNCHANGED <<owned, archive, prevDone, kept, retire, todo, snap, snapOld, quiet,
                 done>>

Entries(r) ==
  {at[i].name : i \in {j \in Items : at[j].dir = r}}
    \cup (IF r = "lrun" THEN Inner \cap dirs ELSE {})

\* archiveRemainder reads a root's entries, archives each, and removes the root,
\* which fails if something has been added meanwhile.
ListRoot ==
  /\ step \in 14..16 /\ ~looked
  /\ looked' = TRUE /\ todo' = Entries(RootAt[step])
  /\ UNCHANGED <<at, dirs, owned, server, archiveVars, step, retire, hist>>

ArchiveEntry(n) ==
  /\ step \in 14..16 /\ looked /\ n \in todo
  /\ LET r == RootAt[step] IN
     /\ n \in Entries(r) => <<r, n>> \notin kept
     /\ kept' = IF n \in Entries(r) THEN kept \cup {<<r, n>>} ELSE kept
     /\ at' = [i \in Items |->
                 IF \/ at[i] = [dir |-> r, name |-> n]
                    \/ n \in Inner /\ at[i].dir = n
                 THEN Archive ELSE at[i]]
     /\ dirs' = dirs \ {n}
     /\ server' = IF n = "lstate" /\ server = "on" THEN "hidden" ELSE server
  /\ todo' = todo \ {n}
  /\ UNCHANGED <<owned, archive, prevDone, prev, step, retire, looked, hist>>

RefuseEntry(n) ==
  /\ step \in 14..16 /\ looked /\ n \in todo \cap Entries(RootAt[step])
  /\ <<RootAt[step], n>> \in kept
  /\ Stop
  /\ UNCHANGED <<at, dirs, owned, server, archiveVars, hist>>

RemoveRoot ==
  /\ step \in 14..16 /\ looked /\ todo = {} /\ Entries(RootAt[step]) = {}
  /\ dirs' = dirs \ {RootAt[step]}
  /\ step' = step + 1 /\ looked' = FALSE
  /\ UNCHANGED <<at, owned, server, archiveVars, retire, todo, hist>>

Close ==
  /\ step = Closing
  /\ archive' = FALSE /\ prevDone' = FALSE /\ prev' = {} /\ kept' = {}
  /\ done' = TRUE /\ Stop
  /\ UNCHANGED <<at, dirs, owned, server, snap, snapOld, quiet, late>>

Next ==
  \/ \E i \in Items, place \in Written : Write(i, place)
  \/ StartServer \/ StopServer
  \/ \E flag \in BOOLEAN : Start(flag)
  \/ Fail \/ Open \/ MarkPrevious \/ SkipMove \/ RefuseMove \/ Look \/ Rename
  \/ ListRoot \/ RemoveRoot \/ Close
  \/ \E n \in Names \cup Inner : ArchiveEntry(n) \/ RefuseEntry(n)

Spec == Init /\ [][Next]_vars

(***************************************************************************)
(* Properties                                                              *)
(***************************************************************************)
\* "archiving pre-existing native-path content and other legacy files rather
\* than overwriting or deleting them": a file is lost only if it was written at
\* the destination between moveStep's look and its rename.
NothingLost ==
  [][\A i \in Items : at'[i] = Lost /\ at[i] # Lost => looked /\ i \in late]_vars

\* "If activation is interrupted, rerunning it resumes the in-progress archive":
\* unless something wrote meanwhile, no step of the resumed run is refused.
ResumeAccepted ==
  archive /\ quiet =>
    /\ \A k \in IF prevDone THEN Skills..13 ELSE 1..Skills :
         SourceExists(Moves[k]) => ~TargetExists(Moves[k])
    /\ \A r \in Roots, n \in Names \cup Inner : <<r, n>> \in kept => n \notin Entries(r)

\* Where an uninterrupted migration takes a file.
Final(place) ==
  IF place.dir = "data" \/ (place.dir = "lrun" /\ place.name \in {"db", "wal", "shm"})
  THEN [dir |-> "share", name |-> place.name]
  ELSE IF place.dir = "lstate" THEN [dir |-> "state", name |-> place.name]
  ELSE IF place.dir = "lconf" /\ place.name \in {"jsonc", "service"}
  THEN [dir |-> "config", name |-> place.name]
  ELSE IF place.dir \in Live \cup Roots THEN Archive ELSE place

\* Wherever it was interrupted and however often, a migration that completes
\* has taken every file where an uninterrupted one does, and left nothing of
\* the old layout.
SameResult ==
  done /\ quiet =>
    /\ (Roots \cup Inner) \cap dirs = {}
    /\ \A i \in Items :
         IF snap[i] \in Places /\ snap[i].dir = "skills"
         THEN at[i] \in {snap[i], Archive}
         ELSE at[i] = Final(snap[i])

\* The flag "archive unowned OpenFang skills" is about the skills: on a host
\* without the old layout the user's OpenCode data stays where it is.
LiveDataStays ==
  done /\ quiet /\ ~snapOld =>
    \A i \in Items : snap[i] \in Places /\ snap[i].dir \in Live => at[i] = snap[i]
=============================================================================
