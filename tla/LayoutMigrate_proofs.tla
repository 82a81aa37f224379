-------------------------- MODULE LayoutMigrate_proofs --------------------------
(***************************************************************************)
(* Theorems about LayoutMigrate for any files, names and places.           *)
(***************************************************************************)
EXTENDS LayoutMigrate, TLAPS

(***************************************************************************)
(* The table of moves                                                      *)
(***************************************************************************)
\* Every move leaves one of the directories, for a native one or the archive.
LEMMA MovesType ==
  ASSUME NEW k \in 1..13
  PROVE  /\ Moves[k].from \in Dirs
         /\ Moves[k].to \in Live \cup {"archive"}
         /\ Moves[k].to = "archive" => Moves[k].name = All
  BY SMT DEF Moves, Move, Dirs, Live, Roots, Inner, All

LEMMA RootsType == ASSUME NEW k \in 14..16 PROVE RootAt[k] \in Roots
  BY DEF RootAt, Roots

\* What at and the other places of a file are.
LEMMA FilePlaces ==
  /\ \A p \in Places : p.dir \in Dirs /\ p.name \in Names
  /\ \A d \in Dirs, n \in Names : [dir |-> d, name |-> n] \in Places
  /\ Absent.dir \notin Dirs /\ Lost.dir \notin Dirs /\ Archive.dir \notin Dirs
  /\ \A p \in Places : p # Lost /\ p # Archive /\ p # Absent
  /\ Lost # Archive /\ Lost # Absent
  BY DEF Places, Absent, Lost, Archive, Dirs, Live, Roots, Inner

LEMMA HoldingType == ASSUME NEW f PROVE Holding(f) \subseteq Dirs
  BY DEF Holding, WithParent, Places, Dirs, Roots, Inner

(***************************************************************************)
(* The inductive invariant                                                 *)
(***************************************************************************)
\* Only a move or an old root is looked at.
LookedAt == looked => step \in 1..16

\* Between the look and the rename of a file, whatever is at its destination
\* was written since the look.
Vacant ==
  looked /\ step \in 1..13 /\ Moves[step].name # All =>
    \A i \in Items :
      at[i] = [dir |-> Moves[step].to, name |-> Moves[step].name] => i \in late

IInv == TypeOK /\ LookedAt /\ Vacant

\* TypeOK in two parts: what is TRUE or FALSE, and the rest.
Flags == {owned, archive, prevDone, retire, looked, snapOld, quiet, done} \subseteq BOOLEAN
Others ==
  /\ at \in [Items -> Places \cup {Absent, Lost, Archive}]
  /\ snap \in [Items -> Places \cup {Absent, Lost, Archive}]
  /\ dirs \subseteq Dirs
  /\ server \in {"off", "on", "hidden"}
  /\ prev \subseteq Dirs /\ kept \subseteq Roots \X (Names \cup Inner)
  /\ step \in 0..18 /\ todo \subseteq Names \cup Inner /\ late \subseteq Items

LEMMA FlagsType == TypeOK <=> Flags /\ Others
  BY DEF TypeOK, Flags, Others

LEMMA InitIInv == Init => IInv
  <1> SUFFICES ASSUME Init PROVE IInv
    OBVIOUS
  <1>1. TypeOK
    <2>1. at \in [Items -> Places \cup {Absent, Lost, Archive}]
      BY PlacesAssumption DEF Init
    <2>2. dirs \subseteq Dirs
      BY HoldingType DEF Init
    <2>3. Flags
      BY ZenonT(30) DEF Init, Flags
    <2>4. Others
      <3>1. /\ snap = at /\ server = "off" /\ prev = {} /\ kept = {} /\ step = 0
            /\ todo = {} /\ late = {}
        BY DEF Init
      <3> QED
        BY <2>1, <2>2, <3>1 DEF Others
    <2> QED
      BY <2>3, <2>4, FlagsType
  <1> QED
    BY <1>1 DEF Init, IInv, LookedAt, Vacant

LEMMA WriteKeeps ==
  ASSUME IInv, NEW i \in Items, NEW place \in Written, Write(i, place) PROVE IInv'
  <1> place \in Places /\ place.dir \in Dirs
    BY PlacesAssumption, FilePlaces
  <1>1. TypeOK'
    <2>1. WithParent(place.dir) \subseteq Dirs
      BY DEF WithParent, Dirs, Roots
    <2> QED
      BY <2>1 DEF Write, IInv, TypeOK, archiveVars, run
  <1>2. Vacant'
    BY DEF Write, IInv, TypeOK, Vacant, archiveVars, run
  <1> QED
    BY <1>1, <1>2 DEF Write, IInv, LookedAt, archiveVars, run

LEMMA LookKeeps == ASSUME IInv, Look PROVE IInv'
  <1> step \in 1..13
    BY DEF Look, AtMove
  <1>1. TypeOK'
    <2>1. Moves[step].name # All => Moves[step].to \in Dirs
      BY MovesType DEF Dirs
    <2> QED
      BY <2>1 DEF Look, IInv, TypeOK, archiveVars
  <1>2. Vacant'
    <2> SUFFICES ASSUME Moves[step].name # All, NEW i \in Items,
                        at[i] = [dir |-> Moves[step].to, name |-> Moves[step].name]
                 PROVE  FALSE
      BY DEF Vacant, Look
    <2> QED
      BY MovesType DEF Look, TargetExists, Occupied
  <1> QED
    BY <1>1, <1>2 DEF Look, IInv, LookedAt

LEMMA RenameKeeps == ASSUME IInv, Rename PROVE IInv'
  <1> step \in 1..13
    BY DEF Rename, AtMove
  <1> DEFINE m == Moves[step]
  <1>1. at' \in [Items -> Places \cup {Absent, Lost, Archive}]
    <2>1. ASSUME NEW i \in Items, Moved(i, m)
          PROVE  Destination(i, m) \in Places \cup {Archive}
      <3>1. at[i] \in Places
        BY <2>1, MovesType, FilePlaces DEF Moved, IInv, TypeOK
      <3> QED
        BY <3>1, MovesType, FilePlaces DEF Destination, Dirs
    <2> QED
      BY <2>1 DEF Rename, IInv, TypeOK
  <1>2. dirs' \subseteq Dirs /\ prev' \subseteq Dirs
    BY MovesType DEF Rename, IInv, TypeOK
  <1>3. server' \in {"off", "on", "hidden"}
    BY DEF Rename, IInv, TypeOK
  <1>4. Flags'
    BY FlagsType, Zenon DEF Rename, IInv, Flags
  <1>5. Others'
    BY <1>1, <1>2, <1>3, FlagsType DEF Rename, IInv, Others
  <1>6. TypeOK'
    BY <1>4, <1>5 DEF TypeOK, Flags, Others
  <1> QED
    BY <1>6 DEF Rename, IInv, LookedAt, Vacant

LEMMA ArchiveEntryKeeps ==
  ASSUME IInv, NEW n \in Names \cup Inner, ArchiveEntry(n) PROVE IInv'
  <1> step \in 14..16 /\ RootAt[step] \in Roots
    BY RootsType DEF ArchiveEntry
  <1>1. Flags'
    BY FlagsType, Zenon DEF ArchiveEntry, IInv, Flags, hist
  <1>2. Others'
    <2>1. at' \in [Items -> Places \cup {Absent, Lost, Archive}]
      BY FlagsType DEF ArchiveEntry, IInv, Others
    <2>2. kept' \subseteq Roots \X (Names \cup Inner)
      BY FlagsType DEF ArchiveEntry, IInv, Others
    <2> QED
      BY <2>1, <2>2, FlagsType DEF ArchiveEntry, IInv, Others, hist
  <1>3. TypeOK'
    BY <1>1, <1>2 DEF TypeOK, Flags, Others
  <1> QED
    BY <1>3 DEF ArchiveEntry, IInv, LookedAt, Vacant

\* The other steps touch no file, and look at nothing that is moved.
LEMMA OthersKeep ==
  ASSUME IInv,
         \/ StartServer \/ StopServer \/ (\E flag \in BOOLEAN : Start(flag))
         \/ Fail \/ Open \/ MarkPrevious \/ SkipMove \/ RefuseMove
         \/ ListRoot \/ RemoveRoot \/ Close
         \/ (\E n \in Names \cup Inner : RefuseEntry(n))
         \/ UNCHANGED vars
  PROVE  IInv'
  <1> USE DEF archiveVars, run, hist
  <1>1. CASE StartServer
    BY <1>1 DEF StartServer, IInv, TypeOK, LookedAt, Vacant, Dirs, Roots, Inner
  <1>2. CASE StopServer
    BY <1>2 DEF StopServer, IInv, TypeOK, LookedAt, Vacant
  <1>3. CASE \E flag \in BOOLEAN : Start(flag)
    BY <1>3 DEF Start, IInv, TypeOK, LookedAt, Vacant, Opening, Skills
  <1>4. CASE Fail \/ RefuseMove \/ \E n \in Names \cup Inner : RefuseEntry(n)
    <2>1. Flags'
      BY <1>4, FlagsType, Zenon DEF Fail, RefuseMove, RefuseEntry, Stop, IInv, Flags
    <2>2. Others'
      <3>1. Stop /\ UNCHANGED <<at, snap, dirs, server, prev, kept, late>>
        BY <1>4 DEF Fail, RefuseMove, RefuseEntry
      <3> QED
        BY <3>1, FlagsType DEF Stop, IInv, Others
    <2>3. TypeOK'
      BY <2>1, <2>2 DEF TypeOK, Flags, Others
    <2> QED
      BY <1>4, <2>3 DEF Fail, RefuseMove, RefuseEntry, Stop, IInv, LookedAt, Vacant
  <1>5. CASE Open
    <2>1. Flags'
      BY <1>5, FlagsType, Zenon DEF Open, Opening, OldLayout, IInv, Flags
    <2>2. Others'
      BY <1>5, FlagsType DEF Open, Opening, OldLayout, IInv, Others
    <2>3. TypeOK'
      BY <2>1, <2>2 DEF TypeOK, Flags, Others
    <2> QED
      BY <1>5, <2>3 DEF Open, Opening, OldLayout, IInv, LookedAt, Vacant
  <1>6. CASE MarkPrevious
    BY <1>6 DEF MarkPrevious, IInv, TypeOK, LookedAt, Vacant
  <1>7. CASE SkipMove
    BY <1>7 DEF SkipMove, AtMove, IInv, TypeOK, LookedAt, Vacant
  <1>8. CASE ListRoot
    <2> Entries(RootAt[step]) \subseteq Names \cup Inner
      BY <1>8, RootsType, FilePlaces DEF Entries, ListRoot, IInv, TypeOK, Dirs
    <2> QED
      BY <1>8 DEF ListRoot, IInv, TypeOK, LookedAt, Vacant
  <1>9. CASE RemoveRoot
    <2>1. Flags'
      BY <1>9, FlagsType, Zenon DEF RemoveRoot, IInv, Flags
    <2>2. Others'
      BY <1>9, FlagsType DEF RemoveRoot, IInv, Others
    <2>3. TypeOK'
      BY <2>1, <2>2 DEF TypeOK, Flags, Others
    <2> QED
      BY <1>9, <2>3 DEF RemoveRoot, IInv, LookedAt, Vacant
  <1>10. CASE Close
    <2>1. Flags'
      BY <1>10, FlagsType, Zenon DEF Close, Stop, IInv, Flags
    <2>2. Others'
      BY <1>10, FlagsType DEF Close, Stop, IInv, Others
    <2>3. TypeOK'
      BY <2>1, <2>2 DEF TypeOK, Flags, Others
    <2> QED
      BY <1>10, <2>3 DEF Close, Stop, IInv, LookedAt, Vacant
  <1>11. CASE UNCHANGED vars
    BY <1>11 DEF vars, IInv, TypeOK, LookedAt, Vacant
  <1> QED
    BY <1>1, <1>2, <1>3, <1>4, <1>5, <1>6, <1>7, <1>8, <1>9, <1>10, <1>11

LEMMA NextKeeps == IInv /\ [Next]_vars => IInv'
  BY WriteKeeps, LookKeeps, RenameKeeps, ArchiveEntryKeeps, OthersKeep DEF Next

\* Every reachable state satisfies the inductive invariant.
THEOREM Invariance == Spec => []IInv
  BY InitIInv, NextKeeps, PTL DEF Spec

\* Every variable keeps its type.
THEOREM TypeCorrect == Spec => []TypeOK
  BY Invariance, PTL DEF IInv

(***************************************************************************)
(* Nothing is lost                                                         *)
(***************************************************************************)
\* Only a rename loses a file, and only one that Vacant says is late.
LEMMA StepLosesOnlyLate ==
  ASSUME IInv, [Next]_vars, NEW i \in Items, at'[i] = Lost, at[i] # Lost
  PROVE  looked /\ i \in late
  <1>1. ASSUME NEW j \in Items, NEW place \in Written, Write(j, place) PROVE FALSE
    BY <1>1, PlacesAssumption, FilePlaces DEF Write, IInv, TypeOK
  <1>2. ASSUME NEW n \in Names \cup Inner, ArchiveEntry(n) PROVE FALSE
    BY <1>2, FilePlaces DEF ArchiveEntry
  <1>3. ASSUME Rename PROVE looked /\ i \in late
    <2> DEFINE m == Moves[step]
    <2> step \in 1..13 /\ looked
      BY <1>3 DEF Rename, AtMove
    <2>1. at'[i] = IF Moved(i, m) THEN Destination(i, m)
                   ELSE IF m.name # All /\ at[i] = [dir |-> m.to, name |-> m.name]
                        THEN Lost ELSE at[i]
      BY <1>3 DEF Rename
    <2>2. Moved(i, m) => Destination(i, m) # Lost
      <3>1. m.to # "nowhere"
        BY MovesType DEF Live
      <3> QED
        BY <3>1, FilePlaces DEF Destination, Lost
    <2> QED
      BY <2>1, <2>2 DEF IInv, Vacant
  <1>4. at' # at
    OBVIOUS
  <1> QED
    BY <1>1, <1>2, <1>3, <1>4
       DEF Next, vars, StartServer, StopServer, Start, Fail, Open, MarkPrevious, SkipMove,
           RefuseMove, Look, ListRoot, RemoveRoot, Close, RefuseEntry

\* Whatever exists, is written and is interrupted: a migration loses a file only
\* if it was written at its destination after moveStep looked there.
THEOREM NothingLostAlways == Spec => NothingLost
  <1>1. IInv /\ [Next]_vars
          => [\A i \in Items : at'[i] = Lost /\ at[i] # Lost => looked /\ i \in late]_vars
    BY StepLosesOnlyLate
  <1> QED
    BY Invariance, <1>1, PTL DEF Spec, NothingLost


(***************************************************************************)
(* A migration that was interrupted                                        *)
(***************************************************************************)
\* The databases of the old layout are in runtimeOld, none is in its data
\* directory, where a move would take both to the same name.
NoOldDatabase ==
  \A place \in Written \cup {Home[i] : i \in Items} :
    place.dir = "data" => place.name \notin {"db", "wal", "shm"}

OneDatabase == \A i \in Items : at[i].dir = "data" => at[i].name \notin {"db", "wal", "shm"}

\* The directories of a file exist.
Placed == \A i \in Items : at[i] \in Places => WithParent(at[i].dir) \subseteq dirs

\* The markers tell which steps a run may be at.
Stages ==
  /\ step \in 1..17 => archive
  /\ step \in 7..17 => prevDone
  /\ step \in 1..5 => ~prevDone
  /\ prevDone => archive
  /\ archive => ~done
  /\ looked /\ step \in 1..13 /\ Moves[step].name # All => Moves[step].to \in dirs

\* What is in the archive is not in its old place as well.
PrevGone == \A d \in prev : ~prevDone \/ d = "skills" => d \notin dirs
KeptGone == \A r \in Roots, n \in Names \cup Inner : <<r, n>> \in kept => n \notin Entries(r)

\* The moves before the one a run is at, of its half, have nothing left to move.
Past == \A k \in 1..13 :
          k < step /\ (IF prevDone THEN 7 <= k ELSE k <= 5) => ~SourceExists(Moves[k])
RootsGone ==
  /\ \A k \in 14..16 : k < step => RootAt[k] \notin dirs
  /\ step \in 16..17 => Inner \cap dirs = {}

\* Once the native directories are archived, what a move still has to take has
\* its destination free.
Free == prevDone => \A k \in 7..13 : SourceExists(Moves[k]) => ~TargetExists(Moves[k])

\* Each file is where it was when the archive was made, or where it is to go.
Goal(p) == IF p.dir = "skills" THEN Archive ELSE Final(p)
Tracked == \A i \in Items :
  /\ at[i] \in {snap[i], Goal(snap[i])}
  /\ prevDone /\ snap[i].dir \in Live => at[i] = Archive
  /\ ~prevDone /\ snap[i].dir \notin Live \cup {"skills"} => at[i] = snap[i]

Continued == PrevGone /\ KeptGone /\ Past /\ RootsGone /\ Free /\ Tracked

\* The inductive invariant of a migration, with IInv: while nobody else writes,
\* an unfinished one is Continued, and a finished one has the SameResult.
RInv ==
  /\ Placed /\ OneDatabase /\ Stages
  /\ archive /\ quiet => Continued
  /\ SameResult

\* The table of moves, row by row.
LEMMA Table ==
  /\ \A k \in 1..5 : Moves[k].name = All /\ Moves[k].to = "archive" /\ Moves[k].from \in Live
  /\ \A d \in Live : \E k \in 1..5 : Moves[k].from = d
  /\ Moves[6] = Move("skills", All, "archive")
  /\ Moves[7] = Move("data", All, "share")
  /\ Moves[8] = Move("lrun", "db", "share")
  /\ Moves[9] = Move("lrun", "wal", "share")
  /\ Moves[10] = Move("lrun", "shm", "share")
  /\ Moves[11] = Move("lstate", All, "state")
  /\ Moves[12] = Move("lconf", "jsonc", "config")
  /\ Moves[13] = Move("lconf", "service", "config")
  <1>1. \A k \in 1..5 : Moves[k].name = All /\ Moves[k].to = "archive" /\ Moves[k].from \in Live
    BY SMT DEF Moves, Move, Live
  <1>2. /\ Moves[1].from = "config" /\ Moves[2].from = "share" /\ Moves[3].from = "state"
        /\ Moves[4].from = "cache" /\ Moves[5].from = "back"
    BY SMT DEF Moves, Move
  <1>3. \A d \in Live : \E k \in 1..5 : Moves[k].from = d
    <2> SUFFICES ASSUME NEW d \in Live PROVE \E k \in 1..5 : Moves[k].from = d
      OBVIOUS
    <2> 1 \in 1..5 /\ 2 \in 1..5 /\ 3 \in 1..5 /\ 4 \in 1..5 /\ 5 \in 1..5
      OBVIOUS
    <2> QED
      BY <1>2 DEF Live
  <1> QED
    BY <1>1, <1>3, SMT DEF Moves

\* What the moves look for, and where.
LEMMA Sources ==
  /\ \A k \in 1..5 : SourceExists(Moves[k]) <=> Moves[k].from \in dirs
  /\ SourceExists(Moves[6]) <=> "skills" \in dirs
  /\ SourceExists(Moves[7]) <=> "data" \in dirs
  /\ SourceExists(Moves[8]) <=> Occupied("lrun", "db")
  /\ SourceExists(Moves[9]) <=> Occupied("lrun", "wal")
  /\ SourceExists(Moves[10]) <=> Occupied("lrun", "shm")
  /\ SourceExists(Moves[11]) <=> "lstate" \in dirs
  /\ SourceExists(Moves[12]) <=> Occupied("lconf", "jsonc")
  /\ SourceExists(Moves[13]) <=> Occupied("lconf", "service")
  BY Table DEF SourceExists, Move, All

LEMMA Targets ==
  /\ \A k \in 1..5 : TargetExists(Moves[k]) <=> Moves[k].from \in prev
  /\ TargetExists(Moves[6]) <=> "skills" \in prev
  /\ TargetExists(Moves[7]) <=> "share" \in dirs
  /\ TargetExists(Moves[8]) <=> Occupied("share", "db")
  /\ TargetExists(Moves[9]) <=> Occupied("share", "wal")
  /\ TargetExists(Moves[10]) <=> Occupied("share", "shm")
  /\ TargetExists(Moves[11]) <=> "state" \in dirs
  /\ TargetExists(Moves[12]) <=> Occupied("config", "jsonc")
  /\ TargetExists(Moves[13]) <=> Occupied("config", "service")
  BY Table DEF TargetExists, Move, All

LEMMA InitRInv == ASSUME NoOldDatabase, Init PROVE RInv
  <1>1. TypeOK
    BY InitIInv DEF IInv
  <1>2. Placed
    <2> SUFFICES ASSUME NEW i \in Items, at[i] \in Places
                 PROVE  WithParent(at[i].dir) \subseteq Holding(at)
      BY DEF Placed, Init
    <2> QED
      BY DEF Holding
  <1>3. OneDatabase
    BY DEF OneDatabase, Init, NoOldDatabase, Absent
  <1>4. step = 0 /\ ~archive /\ ~prevDone /\ ~done /\ ~looked
    BY DEF Init
  <1>5. Stages
    BY <1>4 DEF Stages
  <1>6. SameResult
    BY <1>4 DEF SameResult
  <1> QED
    BY <1>2, <1>3, <1>4, <1>5, <1>6 DEF RInv

\* Where a file is, there is a directory.
LEMMA InDirectory ==
  ASSUME IInv, Placed, NEW i \in Items, at[i].dir \in Dirs
  PROVE  at[i] \in Places /\ at[i].dir \in dirs /\ (at[i].dir \in Inner => "lrun" \in dirs)
  <1>1. at[i] \in Places
    BY FilePlaces DEF IInv, TypeOK
  <1> QED
    BY <1>1 DEF Placed, WithParent

\* Whoever else writes ends the quiet that the rest is about.
LEMMA WriteResumes ==
  ASSUME NoOldDatabase, IInv, RInv, NEW i \in Items, NEW place \in Written, Write(i, place)
  PROVE  RInv'
  <1> USE DEF archiveVars, run
  <1>0. /\ at' = [at EXCEPT ![i] = place] /\ dirs' = dirs \cup WithParent(place.dir)
        /\ quiet' = FALSE
        /\ UNCHANGED <<archive, prevDone, step, looked, done>>
    BY DEF Write
  <1>1. at'[i] = place /\ \A j \in Items \ {i} : at'[j] = at[j]
    BY <1>0 DEF IInv, TypeOK
  <1>2. Placed'
    BY <1>0, <1>1 DEF RInv, Placed
  <1>3. OneDatabase'
    BY <1>1 DEF RInv, OneDatabase, NoOldDatabase
  <1>4. Stages'
    BY <1>0 DEF RInv, Stages
  <1> QED
    BY <1>0, <1>2, <1>3, <1>4 DEF RInv, SameResult

LEMMA StartServerResumes == ASSUME IInv, RInv, StartServer PROVE RInv'
  <1>0. /\ dirs \subseteq dirs' /\ quiet' = FALSE
        /\ UNCHANGED <<at, archive, prevDone, step, looked, done>>
    BY DEF StartServer, archiveVars, run
  <1>1. Stages'
    BY <1>0 DEF RInv, Stages
  <1> QED
    BY <1>0, <1>1 DEF RInv, Placed, OneDatabase, SameResult

\* A step that moves nothing has only the program counter to account for.
LEMMA StepOnly ==
  ASSUME RInv, UNCHANGED <<at, dirs, archive, prevDone, prev, kept, snap, quiet, done>>,
         Stages', archive /\ quiet => Past' /\ RootsGone'
  PROVE  RInv'
  <1>1. (Placed /\ OneDatabase /\ SameResult)'
    BY DEF RInv, Placed, OneDatabase, SameResult, Final
  <1>2. ASSUME archive, quiet PROVE (PrevGone /\ KeptGone /\ Free /\ Tracked)'
    BY <1>2 DEF RInv, Continued, PrevGone, KeptGone, Free, Tracked, Goal, Final, Entries,
                SourceExists, TargetExists, Occupied
  <1> QED
    BY <1>1, <1>2 DEF RInv, Continued

LEMMA WaitingResumes ==
  ASSUME IInv, RInv,
         \/ StopServer \/ (\E flag \in BOOLEAN : Start(flag)) \/ Fail \/ RefuseMove
         \/ (\E n \in Names \cup Inner : RefuseEntry(n)) \/ UNCHANGED vars
  PROVE  RInv'
  <1> USE DEF archiveVars, run, hist
  <1>0. UNCHANGED <<at, dirs, archive, prevDone, prev, kept, snap, quiet, done>>
    BY DEF StopServer, Start, Fail, RefuseMove, RefuseEntry, vars
  <1>1. \/ UNCHANGED <<step, looked>>
        \/ step' = 0 /\ looked' = FALSE
        \/ step = 0 /\ step' = (IF ~archive THEN Opening ELSE IF prevDone THEN Skills ELSE 1)
                    /\ UNCHANGED looked
    BY DEF StopServer, Start, Fail, RefuseMove, RefuseEntry, Stop, vars
  <1>2. step = 0 => ~looked
    BY DEF IInv, LookedAt
  <1>3. Stages'
    BY <1>0, <1>1, <1>2 DEF RInv, Stages, Opening, Skills
  <1>4. ASSUME archive, quiet PROVE Past' /\ RootsGone'
    BY <1>0, <1>1, <1>4 DEF RInv, Continued, Past, RootsGone, Opening, Skills, SourceExists,
        Occupied
  <1> QED
    BY <1>0, <1>3, <1>4, StepOnly

LEMMA SkipResumes == ASSUME IInv, RInv, SkipMove PROVE RInv'
  <1>0. /\ UNCHANGED <<at, dirs, archive, prevDone, prev, kept, snap, quiet, done, looked>>
        /\ step \in 1..13 /\ step' = step + 1 /\ ~looked /\ ~Due(Moves[step])
        /\ step >= 6 => prevDone
    BY DEF SkipMove, AtMove, archiveVars, hist, Skills
  <1>1. Stages'
    BY <1>0 DEF RInv, Stages
  <1>2. step # 6 => ~SourceExists(Moves[step])
    BY <1>0, Table DEF Due, Move, Live, Roots
  <1>3. ASSUME archive, quiet PROVE Past' /\ RootsGone'
    <2>1. ASSUME NEW k \in 1..13, k < step', (IF prevDone THEN 7 <= k ELSE k <= 5)
          PROVE  ~SourceExists(Moves[k])
      BY <1>0, <1>2, <1>3, <2>1 DEF RInv, Continued, Past
    <2>2. \A k \in 1..13 : SourceExists(Moves[k])' <=> SourceExists(Moves[k])
      BY <1>0 DEF SourceExists, Occupied
    <2>3. Past'
      BY <2>1, <2>2, <1>0 DEF Past
    <2> QED
      BY <1>0, <2>3 DEF RootsGone
  <1> QED
    BY <1>0, <1>1, <1>3, StepOnly

LEMMA ListResumes == ASSUME IInv, RInv, ListRoot PROVE RInv'
  <1>0. /\ UNCHANGED <<at, dirs, archive, prevDone, prev, kept, snap, quiet, done, step>>
        /\ step \in 14..16
    BY DEF ListRoot, archiveVars, hist
  <1>1. Stages'
    BY <1>0 DEF RInv, Stages
  <1>2. ASSUME archive, quiet PROVE Past' /\ RootsGone'
    BY <1>0, <1>2 DEF RInv, Continued, Past, RootsGone, SourceExists, Occupied
  <1> QED
    BY <1>0, <1>1, <1>2, StepOnly

LEMMA OpenResumes == ASSUME IInv, RInv, Open PROVE RInv'
  <1>0. /\ UNCHANGED <<at, dirs, looked>> /\ step = 18 /\ step' = 1
        /\ archive' /\ ~prevDone' /\ prev' = {} /\ kept' = {} /\ snap' = at /\ ~done'
    BY DEF Open, Opening
  <1>1. ~looked
    BY <1>0 DEF IInv, LookedAt
  <1>2. Stages'
    BY <1>0, <1>1 DEF Stages
  <1>3. (Placed /\ OneDatabase /\ SameResult)'
    BY <1>0 DEF RInv, Placed, OneDatabase, SameResult
  <1>4. (PrevGone /\ KeptGone /\ RootsGone /\ Free)'
    BY <1>0 DEF PrevGone, KeptGone, RootsGone, Free
  <1>5. Past'
    BY <1>0 DEF Past
  <1>6. Tracked'
    <2>1. \A i \in Items : at'[i] = snap'[i]
      BY <1>0
    <2> QED
      BY <1>0, <2>1, FilePlaces DEF Tracked
  <1> QED
    BY <1>2, <1>3, <1>4, <1>5, <1>6 DEF RInv, Continued

LEMMA MarkResumes == ASSUME IInv, RInv, MarkPrevious PROVE RInv'
  <1>0. /\ UNCHANGED <<at, dirs, archive, prev, kept, snap, quiet, done, step, looked>>
        /\ step = 6 /\ ~prevDone /\ prevDone'
    BY DEF MarkPrevious, run, hist, Skills
  <1>1. Stages'
    BY <1>0 DEF RInv, Stages
  <1>2. (Placed /\ OneDatabase /\ SameResult)'
    BY <1>0 DEF RInv, Placed, OneDatabase, SameResult, Final
  <1>3. ASSUME archive, quiet PROVE Continued'
    <2> Continued
      BY <1>3 DEF RInv
    <2>1. Live \cap dirs = {}
      <3>1. \A k \in 1..5 : Moves[k].from \notin dirs
        BY <1>0, Sources DEF Continued, Past
      <3> QED
        BY <3>1, Table
    <2>2. \A i \in Items : at[i].dir \notin Live
      BY <2>1, InDirectory DEF RInv, Dirs
    <2>3. Free'
      <3>1. \A n : ~Occupied("share", n) /\ ~Occupied("config", n)
        BY <2>2 DEF Occupied, Live
      <3>2. "share" \notin dirs /\ "state" \notin dirs
        BY <2>1 DEF Live
      <3>3. \A k \in 7..13 : ~TargetExists(Moves[k])
        <4> SUFFICES ASSUME NEW k \in 7..13 PROVE ~TargetExists(Moves[k])
          OBVIOUS
        <4>1. k \in {7, 8, 9, 10, 11, 12, 13}
          OBVIOUS
        <4> QED
          BY <3>1, <3>2, <4>1, Targets
      <3> QED
        BY <1>0, <3>3 DEF Free, TargetExists, Occupied
    <2>4. Tracked'
      <3>1. ASSUME NEW i \in Items, snap[i].dir \in Live PROVE at[i] = Archive
        <4>1. Goal(snap[i]) = Archive
          BY <3>1 DEF Goal, Final, Live
        <4> QED
          BY <3>1, <4>1, <2>2 DEF Continued, Tracked
      <3> QED
        BY <1>0, <3>1 DEF Continued, Tracked, Goal, Final
    <2>5. (PrevGone /\ KeptGone /\ RootsGone)'
      BY <1>0 DEF Continued, PrevGone, KeptGone, RootsGone, Entries
    <2>6. Past'
      BY <1>0 DEF Past
    <2> QED
      BY <2>3, <2>4, <2>5, <2>6 DEF Continued
  <1> QED
    BY <1>0, <1>1, <1>2, <1>3 DEF RInv

LEMMA LookResumes == ASSUME IInv, RInv, Look PROVE RInv'
  <1>0. /\ UNCHANGED <<at, archive, prevDone, prev, kept, snap, quiet, done, step>>
        /\ step \in 1..13 /\ (step >= 6 => prevDone)
        /\ dirs' = IF Moves[step].name = All THEN dirs ELSE dirs \cup {Moves[step].to}
        /\ SourceExists(Moves[step])
    BY DEF Look, AtMove, archiveVars, Due, Skills
  <1>1. Stages'
    BY <1>0 DEF RInv, Stages
  <1>2. (Placed /\ OneDatabase)'
    BY <1>0 DEF RInv, Placed, OneDatabase
  <1>3. SameResult'
    BY <1>0 DEF RInv, Stages, SameResult
  <1>4. ASSUME archive, quiet PROVE Continued'
    <2> Continued
      BY <1>4 DEF RInv
    <2>0. step \in 1..7 \cup {11} => Moves[step].name = All
      BY Table, step \in 1..5 \/ step \in {6, 7, 11} \/ step \notin 1..7 \cup {11} DEF Move
    <2>1. CASE Moves[step].name = All
      <3>1. dirs' = dirs
        BY <1>0, <2>1
      <3>2. (PrevGone /\ KeptGone /\ RootsGone)'
        BY <1>0, <3>1 DEF Continued, PrevGone, KeptGone, Entries, RootsGone
      <3>3. (Past /\ Free)'
        BY <1>0, <3>1 DEF Continued, Past, Free, SourceExists, TargetExists, Occupied
      <3>4. Tracked'
        BY <1>0 DEF Continued, Tracked, Goal, Final
      <3> QED
        BY <3>2, <3>3, <3>4 DEF Continued
    <2>2. CASE Moves[step].name # All
      <3>1. step \in 8..13 \ {11} /\ prevDone
        BY <1>0, <2>0, <2>2
      <3>2. /\ Moves[step].to \in {"share", "config"}
            /\ (Moves[step].to = "share" => step \in 8..10)
        BY <3>1, Table, step \in {8, 9, 10, 12, 13} DEF Move
      <3>3. \A d : d \notin {"share", "config"} => (d \in dirs' <=> d \in dirs)
        BY <1>0, <2>2, <3>2
      <3>4. "data" \notin dirs
        BY <3>1, Sources DEF Continued, Past
      <3>5. \A k \in 6..13 : SourceExists(Moves[k])' <=> SourceExists(Moves[k])
        <4> SUFFICES ASSUME NEW k \in 6..13
                     PROVE  SourceExists(Moves[k])' <=> SourceExists(Moves[k])
          OBVIOUS
        <4>1. Moves[k].from \in {"skills", "data", "lstate", "lrun", "lconf"}
          BY Table, k \in {6, 7, 8, 9, 10, 11, 12, 13} DEF Move
        <4> QED
          BY <1>0, <3>3, <4>1 DEF SourceExists, Occupied
      <3>6. Past'
        BY <1>0, <3>1, <3>5 DEF Continued, Past
      <3>7. Free'
        <4> SUFFICES ASSUME NEW k \in 7..13, SourceExists(Moves[k])'
                     PROVE  ~TargetExists(Moves[k])'
          BY DEF Free
        <4>1. SourceExists(Moves[k]) /\ ~TargetExists(Moves[k])
          BY <3>1, <3>5 DEF Continued, Free
        <4>2. k # 7
          BY <4>1, <3>4, Sources
        <4>3. Moves[k].to # "archive" /\ (Moves[k].name = All => Moves[k].to = "state")
          BY <4>2, Table, k \in {8, 9, 10, 11, 12, 13} DEF Move, All
        <4> QED
          BY <1>0, <3>3, <4>1, <4>3 DEF TargetExists, Occupied
      <3>8. PrevGone' /\ RootsGone'
        BY <1>0, <3>1, <3>3, RootsType DEF Continued, PrevGone, RootsGone, Roots, Inner
      <3>9. KeptGone'
        BY <1>0, <3>3 DEF Continued, KeptGone, Entries, Inner
      <3>10. Tracked'
        BY <1>0 DEF Continued, Tracked, Goal, Final
      <3> QED
        BY <3>6, <3>7, <3>8, <3>9, <3>10 DEF Continued
    <2> QED
      BY <2>1, <2>2
  <1> QED
    BY <1>0, <1>1, <1>2, <1>3, <1>4 DEF RInv

\* An old root that is removed is empty.
LEMMA RemoveRootResumes == ASSUME IInv, RInv, RemoveRoot PROVE RInv'
  <1> DEFINE r == RootAt[step]
  <1>0. /\ UNCHANGED <<at, archive, prevDone, prev, kept, snap, quiet, done>>
        /\ step \in 14..16 /\ step' = step + 1 /\ ~looked' /\ dirs' = dirs \ {r}
        /\ Entries(r) = {} /\ r \in Roots
    BY RootsType DEF RemoveRoot, archiveVars, hist
  <1>1. Stages'
    BY <1>0 DEF RInv, Stages
  <1>2. ASSUME NEW i \in Items PROVE at[i].dir # r
    BY <1>0, <1>2 DEF Entries
  <1>3. r = "lrun" => Inner \cap dirs = {}
    BY <1>0 DEF Entries
  <1>4. Placed'
    <2> SUFFICES ASSUME NEW i \in Items, at[i] \in Places PROVE r \notin WithParent(at[i].dir)
      BY <1>0 DEF RInv, Placed
    <2>1. at[i].dir \in Dirs
      BY FilePlaces
    <2> QED
      BY <1>0, <1>2, <1>3, <2>1, InDirectory DEF RInv, WithParent
  <1>5. OneDatabase' /\ SameResult'
    BY <1>0 DEF RInv, Stages, OneDatabase, SameResult
  <1>6. ASSUME archive, quiet PROVE Continued'
    <2> Continued
      BY <1>6 DEF RInv
    <2>1. (PrevGone /\ KeptGone)'
      BY <1>0 DEF Continued, PrevGone, KeptGone, Entries
    <2>2. \A k \in 7..13 : /\ SourceExists(Moves[k])' => SourceExists(Moves[k])
                           /\ TargetExists(Moves[k])' => TargetExists(Moves[k])
      BY <1>0 DEF SourceExists, TargetExists, Occupied
    <2>3. Past' /\ Free'
      BY <1>0, <2>2 DEF RInv, Stages, Continued, Past, Free
    <2>4. RootsGone'
      BY <1>0, <1>3 DEF Continued, RootsGone, RootAt
    <2>5. Tracked'
      BY <1>0 DEF Continued, Tracked, Goal, Final
    <2> QED
      BY <2>1, <2>3, <2>4, <2>5 DEF Continued
  <1> QED
    BY <1>0, <1>1, <1>4, <1>5, <1>6 DEF RInv

LEMMA CloseResumes == ASSUME IInv, RInv, Close PROVE RInv'
  <1>0. /\ UNCHANGED <<at, dirs, snap, quiet>> /\ step = 17 /\ step' = 0
        /\ ~archive' /\ ~prevDone' /\ ~looked'
    BY DEF Close, Closing, Stop
  <1>1. Stages'
    BY <1>0 DEF Stages
  <1>2. (Placed /\ OneDatabase)'
    BY <1>0 DEF RInv, Placed, OneDatabase
  <1>3. ASSUME quiet PROVE SameResult'
    <2>1. prevDone /\ Continued
      BY <1>0, <1>3 DEF RInv, Stages
    <2>2. (Roots \cup Inner) \cap dirs = {}
      BY <1>0, <2>1 DEF Continued, RootsGone, Roots, RootAt
    <2>3. ASSUME NEW i \in Items
          PROVE  IF snap[i] \in Places /\ snap[i].dir = "skills"
                 THEN at[i] \in {snap[i], Archive} ELSE at[i] = Final(snap[i])
      <3>1. CASE snap[i].dir = "skills"
        <4>1. snap[i] \in Places
          BY <3>1 DEF IInv, TypeOK, Absent, Lost, Archive
        <4> QED
          BY <2>1, <3>1, <4>1 DEF Continued, Tracked, Goal
      <3>2. CASE snap[i].dir \in Live
        BY <2>1, <3>2 DEF Continued, Tracked, Final, Live
      <3>3. CASE snap[i].dir \notin Live \cup {"skills"}
        <4>1. at[i].dir \notin Roots \cup Inner
          BY <2>2, InDirectory DEF RInv, Dirs
        <4>2. snap[i].dir \notin Roots \cup Inner => Final(snap[i]) = snap[i]
          BY <3>3 DEF Final, Inner, Roots
        <4> QED
          BY <2>1, <3>3, <4>1, <4>2 DEF Continued, Tracked, Goal
      <3> QED
        BY <3>1, <3>2, <3>3, FilePlaces DEF Live
    <2> QED
      BY <1>0, <2>2, <2>3 DEF SameResult, Final
  <1> QED
    BY <1>0, <1>1, <1>2, <1>3 DEF RInv, SameResult

LEMMA ArchiveEntryResumes ==
  ASSUME IInv, RInv, NEW n \in Names \cup Inner, ArchiveEntry(n) PROVE RInv'
  <1> DEFINE r == RootAt[step]
  <1>0. /\ UNCHANGED <<archive, prevDone, prev, snap, quiet, done, step, looked>>
        /\ step \in 14..16 /\ dirs' = dirs \ {n} /\ r \in Roots
        /\ kept' = IF n \in Entries(r) THEN kept \cup {<<r, n>>} ELSE kept
    BY RootsType DEF ArchiveEntry, hist
  <1>1. \A i \in Items :
          at'[i] = IF \/ at[i] = [dir |-> r, name |-> n]
                      \/ n \in Inner /\ at[i].dir = n
                   THEN Archive ELSE at[i]
    <2>1. at' = [i \in Items |-> IF \/ at[i] = [dir |-> r, name |-> n]
                                    \/ n \in Inner /\ at[i].dir = n
                                 THEN Archive ELSE at[i]]
      BY DEF ArchiveEntry
    <2> HIDE DEF r
    <2> QED
      BY <2>1
  <1>2. Stages'
    BY <1>0 DEF RInv, Stages
  <1>3. n \in Dirs => n \in Inner
    BY PlacesAssumption
  <1>4. Placed'
    <2> SUFFICES ASSUME NEW i \in Items, at'[i] \in Places
                 PROVE  WithParent(at'[i].dir) \subseteq dirs'
      BY DEF Placed
    <2>1. at'[i] = at[i] /\ at[i].dir \in Dirs /\ ~(n \in Inner /\ at[i].dir = n)
      BY <1>1, FilePlaces
    <2>2. n \notin WithParent(at[i].dir)
      BY <1>3, <2>1 DEF WithParent, Inner, Dirs, Roots
    <2> QED
      BY <1>0, <2>1, <2>2 DEF RInv, Placed
  <1>5. OneDatabase'
    BY <1>1 DEF RInv, OneDatabase, Archive
  <1>6. SameResult'
    BY <1>0 DEF RInv, Stages, SameResult
  <1>7. ASSUME archive, quiet PROVE Continued'
    <2> Continued /\ prevDone
      BY <1>0, <1>7 DEF RInv, Stages
    <2>1. PrevGone' /\ RootsGone'
      BY <1>0 DEF Continued, PrevGone, RootsGone
    <2>2. \A k \in 7..13 : /\ SourceExists(Moves[k])' => SourceExists(Moves[k])
                           /\ TargetExists(Moves[k])' => TargetExists(Moves[k])
      <3> SUFFICES ASSUME NEW k \in 7..13
                   PROVE  /\ SourceExists(Moves[k])' => SourceExists(Moves[k])
                          /\ TargetExists(Moves[k])' => TargetExists(Moves[k])
        OBVIOUS
      <3>1. Moves[k].to \in Live /\ Moves[k].from \in Dirs
        BY Table, k \in {7, 8, 9, 10, 11, 12, 13} DEF Move, Live, Dirs, Roots, Inner
      <3>2. \A d \in Dirs : \A x : Occupied(d, x)' => Occupied(d, x)
        BY <1>1 DEF Occupied, Archive, Dirs, Live, Roots, Inner
      <3> QED
        BY <1>0, <3>1, <3>2 DEF SourceExists, TargetExists, Live, Dirs
    <2>3. Past' /\ Free'
      BY <1>0, <2>2 DEF Continued, Past, Free
    <2>4. KeptGone'
      <3>1. \A q \in Roots : Entries(q)' \subseteq Entries(q)
        BY <1>0, <1>1 DEF Entries, Archive, Roots
      <3>2. n \in Entries(r) => n \notin Entries(r)'
        <4>1. ASSUME NEW j \in Items, at'[j].dir = r PROVE at'[j].name # n
          <5>0. r # "archive" /\ r \in Dirs
            BY <1>0 DEF Roots, Dirs
          <5>1. at'[j] # Archive
            BY <4>1, <5>0 DEF Archive
          <5>2. at[j] # [dir |-> r, name |-> n] /\ at'[j] = at[j]
            BY <1>1, <5>1
          <5>3. at[j] \in Places
            BY <4>1, <5>0, <5>2, FilePlaces DEF IInv, TypeOK
          <5> QED
            BY <4>1, <5>2, <5>3 DEF Places
        <4> QED
          BY <1>0, <4>1 DEF Entries
      <3> QED
        BY <1>0, <3>1, <3>2 DEF Continued, KeptGone
    <2>5. Tracked'
      <3> SUFFICES ASSUME NEW i \in Items, at'[i] # at[i]
                   PROVE  at'[i] = Goal(snap[i])
        <4>1. \A i \in Items : at'[i] = at[i] \/ at'[i] = Goal(snap[i])
          OBVIOUS
        <4>2. \A i \in Items : snap[i].dir \in Live => Goal(snap[i]) = Archive
          BY DEF Goal, Final, Live
        <4>3. \A i \in Items : Goal(snap[i])' = Goal(snap[i])
          BY <1>0 DEF Goal, Final
        <4> QED
          BY <1>0, <4>1, <4>2, <4>3 DEF Continued, Tracked
      <3>1. "data" \notin dirs /\ "lstate" \notin dirs
        BY <1>0, Sources DEF Continued, Past
      <3>2. at[i] = [dir |-> r, name |-> n] /\ at'[i] = Archive
        BY <1>1, <3>1, InDirectory DEF RInv, Inner, Dirs
      <3>3. at[i] = snap[i]
        BY <1>0, <3>2 DEF Continued, Tracked, Goal, Final, Archive, Live, Roots, Inner
      <3>4. /\ ~Occupied("lrun", "db") /\ ~Occupied("lrun", "wal") /\ ~Occupied("lrun", "shm")
            /\ ~Occupied("lconf", "jsonc") /\ ~Occupied("lconf", "service")
        BY <1>0, Sources DEF Continued, Past
      <3> QED
        BY <1>0, <3>2, <3>3, <3>4 DEF Occupied, Goal, Final, Roots, Live, Inner
    <2> QED
      BY <2>1, <2>3, <2>4, <2>5 DEF Continued
  <1> QED
    BY <1>0, <1>2, <1>4, <1>5, <1>6, <1>7 DEF RInv

\* What a move may be.
LEMMA MoveKinds ==
  ASSUME NEW k \in 1..13
  PROVE  /\ k <= 6 <=> Moves[k].to = "archive"
         /\ k <= 5 => Moves[k].from \in Live
         /\ k = 6 => Moves[k].from = "skills"
         /\ k > 6 => /\ Moves[k].from \in {"data", "lstate", "lrun", "lconf"}
                     /\ Moves[k].to \in {"share", "state", "config"}
         /\ Moves[k].name = All <=> k \in 1..7 \cup {11}
         /\ Moves[k].name = All => Moves[k].from # "lrun"
  <1>1. k \in 1..5 \/ k \in {6, 7, 8, 9, 10, 11, 12, 13}
    OBVIOUS
  <1> QED
    BY <1>1, Table DEF Move, All, Live

\* What a rename does to the files ...
Relocates(m) ==
  \A i \in Items :
    /\ Moved(i, m) => /\ at'[i].dir = m.to
                      /\ m.to = "archive" => at'[i] = Archive
                      /\ m.to # "archive" => at'[i] = [dir |-> m.to, name |-> at[i].name]
    /\ ~Moved(i, m) => \/ at'[i] = at[i]
                       \/ /\ m.name # All /\ at[i] = [dir |-> m.to, name |-> m.name]
                          /\ at'[i] = Lost

\* ... and to the rest.
Advances(m) ==
  /\ UNCHANGED <<archive, prevDone, kept, snap, quiet, done>>
  /\ step' = step + 1 /\ (step >= 6 => prevDone)
  /\ looked /\ ~looked' /\ SourceExists(m)
  /\ dirs' = IF m.name # All THEN dirs ELSE (dirs \ {m.from}) \cup ({m.to} \cap Dirs)
  /\ prev' = IF m.to = "archive" THEN prev \cup {m.from} ELSE prev

LEMMA RenameMoves ==
  ASSUME Rename
  PROVE  \E k \in 1..13 : k = step /\ Advances(Moves[k]) /\ Relocates(Moves[k])
  <1>1. step \in 1..13 /\ Advances(Moves[step])
    BY DEF Rename, AtMove, Skills, Advances
  <1>2. Relocates(Moves[step])
    <2> SUFFICES ASSUME NEW m, m = Moves[step] PROVE Relocates(m)
      OBVIOUS
    <2>1. \A i \in Items :
            at'[i] = IF Moved(i, m) THEN Destination(i, m)
                     ELSE IF m.name # All /\ at[i] = [dir |-> m.to, name |-> m.name]
                          THEN Lost ELSE at[i]
      BY DEF Rename
    <2> QED
      BY <2>1 DEF Relocates, Destination, Archive
  <1> QED
    BY <1>1, <1>2

\* Where the files of the old layout are taken.
LEMMA FinalOld ==
  /\ \A n : Final([dir |-> "data", name |-> n]) = [dir |-> "share", name |-> n]
  /\ \A n : Final([dir |-> "lstate", name |-> n]) = [dir |-> "state", name |-> n]
  /\ \A n \in {"db", "wal", "shm"} :
       Final([dir |-> "lrun", name |-> n]) = [dir |-> "share", name |-> n]
  /\ \A n \in {"jsonc", "service"} :
       Final([dir |-> "lconf", name |-> n]) = [dir |-> "config", name |-> n]
  <1>1. \A n : Final([dir |-> "data", name |-> n]) = [dir |-> "share", name |-> n]
    BY DEF Final, Live
  <1>2. \A n : Final([dir |-> "lstate", name |-> n]) = [dir |-> "state", name |-> n]
    BY DEF Final, Live
  <1>3. \A n \in {"db", "wal", "shm"} :
          Final([dir |-> "lrun", name |-> n]) = [dir |-> "share", name |-> n]
    BY DEF Final, Live
  <1>4. \A n \in {"jsonc", "service"} :
          Final([dir |-> "lconf", name |-> n]) = [dir |-> "config", name |-> n]
    BY DEF Final, Live
  <1> QED
    BY <1>1, <1>2, <1>3, <1>4

LEMMA RenamePlaces ==
  ASSUME IInv, RInv, NEW k \in 1..13, k = step, Advances(Moves[k]), Relocates(Moves[k])
  PROVE  (Placed /\ OneDatabase /\ Stages /\ SameResult)'
  <1> DEFINE m == Moves[k]
  <1>1. m.to \in {"archive", "share", "state", "config"} /\ (m.name = All => m.from # "lrun")
    BY MoveKinds
  <1>2. m.name # All => m.to \in dirs
    BY DEF RInv, Stages, Advances
  <1>3. Stages'
    BY DEF RInv, Stages, Advances
  <1>4. SameResult'
    BY DEF RInv, Stages, SameResult, Advances
  <1> HIDE DEF m
  <1>5. Advances(m) /\ Relocates(m)
    BY DEF m
  <1>6. OneDatabase'
    <2> SUFFICES ASSUME NEW i \in Items, at'[i].dir = "data"
                 PROVE  at'[i] = at[i]
      BY DEF RInv, OneDatabase
    <2>1. ~Moved(i, m)
      BY <1>1, <1>5 DEF Relocates
    <2>2. at'[i] # Lost
      BY DEF Lost
    <2> QED
      BY <1>5, <2>1, <2>2 DEF Relocates
  <1>7. Placed'
    <2> SUFFICES ASSUME NEW i \in Items, at'[i] \in Places
                 PROVE  WithParent(at'[i].dir) \subseteq dirs'
      BY DEF Placed
    <2>1. CASE Moved(i, m)
      <3>1. at'[i].dir = m.to /\ m.to \in Dirs
        BY <1>5, <2>1, FilePlaces DEF Relocates
      <3>2. m.to \in dirs'
        BY <1>2, <1>5, <3>1 DEF Advances
      <3> QED
        BY <1>1, <3>1, <3>2 DEF WithParent, Inner
    <2>2. CASE ~Moved(i, m)
      <3>1. at'[i] = at[i]
        BY <1>5, <2>2, FilePlaces DEF Relocates
      <3>2. WithParent(at[i].dir) \subseteq dirs
        BY <3>1 DEF RInv, Placed
      <3>3. m.name = All => m.from \notin WithParent(at[i].dir)
        BY <1>1, <2>2 DEF WithParent, Moved
      <3> QED
        BY <1>5, <3>1, <3>2, <3>3 DEF Advances
    <2> QED
      BY <2>1, <2>2
  <1> QED
    BY <1>3, <1>4, <1>6, <1>7

LEMMA RenameContinues ==
  ASSUME IInv, RInv, archive, quiet,
         NEW s \in 1..13, s = step, Advances(Moves[s]), Relocates(Moves[s])
  PROVE  Continued'
  <1> DEFINE m == Moves[s]
  <1>0. /\ UNCHANGED <<archive, prevDone, kept, snap, quiet, done>>
        /\ step' = s + 1 /\ (s >= 6 => prevDone)
        /\ SourceExists(m)
        /\ dirs' = IF m.name # All THEN dirs ELSE (dirs \ {m.from}) \cup ({m.to} \cap Dirs)
        /\ prev' = IF m.to = "archive" THEN prev \cup {m.from} ELSE prev
    BY DEF Advances
  <1>k. /\ s <= 6 <=> m.to = "archive"
        /\ s <= 5 => m.from \in Live
        /\ s = 6 => m.from = "skills"
        /\ s > 6  => /\ m.from \in {"data", "lstate", "lrun", "lconf"}
                     /\ m.to \in {"share", "state", "config"}
        /\ m.name = All <=> s \in 1..7 \cup {11}
        /\ m.name = All => m.from # "lrun"
    BY MoveKinds
  <1>p. s < 6 => ~prevDone
    BY DEF RInv, Stages
  <1>c. Continued /\ Placed /\ OneDatabase
    BY DEF RInv
  <1> HIDE DEF m
  <1>1. \A i \in Items :
          /\ ~Moved(i, m) => at'[i] = at[i]
          /\ Moved(i, m) => /\ at'[i].dir = m.to
                            /\ m.to = "archive" => at'[i] = Archive
                            /\ m.to # "archive" => at'[i] = [dir |-> m.to, name |-> at[i].name]
    <2>1. s > 6 => ~TargetExists(m)
      BY <1>0, <1>c DEF Continued, Free, m
    <2>2. m.name # All => ~Occupied(m.to, m.name)
      BY <1>k, <2>1 DEF TargetExists
    <2>3. Relocates(m)
      BY DEF m
    <2> QED
      BY <2>2, <2>3 DEF Occupied, Relocates
  <1>2. \A d \in Dirs : \A x :
           d \notin {"share", "state", "config"} /\ Occupied(d, x)' => Occupied(d, x)
    <2> SUFFICES ASSUME NEW d \in Dirs, NEW x, d \notin {"share", "state", "config"},
                        NEW i \in Items, at'[i] = [dir |-> d, name |-> x]
                 PROVE  at[i] = [dir |-> d, name |-> x]
      BY DEF Occupied
    <2>1. d # m.to
      BY <1>k DEF Dirs, Live, Roots, Inner
    <2>2. at'[i].dir = d
      OBVIOUS
    <2> QED
      BY <1>1, <2>1, <2>2
  <1>3. \A d : d \in dirs' => d \in dirs \/ (d = m.to /\ s \in {7, 11})
    <2>1. m.to \in Dirs => s > 6
      BY <1>k DEF Dirs, Live, Roots, Inner
    <2> SUFFICES ASSUME NEW d, d \in dirs', d \notin dirs PROVE d = m.to /\ s \in {7, 11}
      OBVIOUS
    <2>2. m.name = All /\ d = m.to /\ m.to \in Dirs
      BY <1>0
    <2> QED
      BY <1>k, <2>1, <2>2
  <1>4. \A k \in 1..13 : (IF prevDone THEN 7 <= k ELSE k <= 5) /\ SourceExists(Moves[k])'
                          => SourceExists(Moves[k])
    <2> SUFFICES ASSUME NEW k \in 1..13, IF prevDone THEN 7 <= k ELSE k <= 5,
                        SourceExists(Moves[k])'
                 PROVE  SourceExists(Moves[k])
      OBVIOUS
    <2>1. k <= 5 => s < 6
      BY <1>0
    <2>2. Moves[k].name = All => Moves[k].from # m.to \/ s < 6
      <3>1. k > 5 => k > 6
        BY <1>p, <1>0
      <3> QED
        BY <1>k, <2>1, <3>1, MoveKinds
    <2>3. Moves[k].name # All => Moves[k].from \in {"data", "lstate", "lrun", "lconf"}
      BY MoveKinds
    <2> QED
      BY <1>0, <1>2, <1>3, <2>2, <2>3 DEF SourceExists, Dirs, Roots, Inner
  <1>5. ~SourceExists(m)'
    <2>0. m.from # m.to
      BY <1>k DEF Live
    <2>1. CASE m.name = All
      BY <1>0, <2>0, <2>1 DEF SourceExists
    <2>2. CASE m.name # All
      <3> SUFFICES ASSUME NEW i \in Items, at'[i] = [dir |-> m.from, name |-> m.name] PROVE FALSE
        BY <2>2 DEF SourceExists, Occupied
      <3>1. at'[i].dir = m.from /\ at'[i].name = m.name
        OBVIOUS
      <3> QED
        BY <1>1, <2>0, <3>1 DEF Moved
    <2> QED
      BY <2>1, <2>2
  <1>6. Past'
    <2> SUFFICES ASSUME NEW k \in 1..13, k < s + 1, IF prevDone THEN 7 <= k ELSE k <= 5
                 PROVE  ~SourceExists(Moves[k])'
      BY <1>0 DEF Past
    <2>1. CASE k = s
      BY <1>5, <2>1 DEF m
    <2>2. CASE k < s
      BY <1>4, <1>c, <2>2 DEF Continued, Past
    <2> QED
      BY <1>0, <2>1, <2>2
  <1>7. PrevGone'
    BY <1>0, <1>3, <1>c, <1>k DEF Continued, PrevGone, Live, Dirs
  <1>8. RootsGone'
    BY <1>0 DEF RootsGone
  <1>9. KeptGone'
    <2>1. \A q \in Roots : Entries(q)' \subseteq Entries(q)
      <3>1. m.to \notin Roots \cup Inner
        BY <1>k DEF Roots, Inner
      <3>2. \A i \in Items, q \in Roots : at'[i].dir = q => at'[i] = at[i]
        BY <1>1, <3>1
      <3>3. Inner \cap dirs' \subseteq Inner \cap dirs
        BY <1>3, <3>1
      <3> QED
        BY <3>2, <3>3 DEF Entries
    <2> QED
      BY <1>0, <1>c, <2>1 DEF Continued, KeptGone
  <1>10. Free'
    <2> SUFFICES ASSUME prevDone, NEW k \in 7..13, SourceExists(Moves[k])',
                        TargetExists(Moves[k])'
                 PROVE  FALSE
      BY <1>0 DEF Free
    <2>0. k # s
      BY <1>5 DEF m
    <2>1. SourceExists(Moves[k]) /\ ~TargetExists(Moves[k])
      BY <1>4, <1>c DEF Continued, Free
    <2> DEFINE t == Moves[k]
    <2>2. t.to \in {"share", "state", "config"}
      BY MoveKinds
    <2>3. CASE t.name = All
      <3>1. k \in {7, 11} /\ t.to = m.to /\ s \in {7, 11}
        BY <1>3, <2>1, <2>2, <2>3, MoveKinds DEF TargetExists
      <3> QED
        BY <2>0, <3>1, Table DEF m, Move
    <2>4. CASE t.name # All
      <3>1. PICK i \in Items : at'[i] = [dir |-> t.to, name |-> t.name] /\ at[i] # at'[i]
        BY <2>1, <2>2, <2>4 DEF TargetExists, Occupied
      <3>2. at'[i].dir = t.to /\ at'[i].name = t.name
        BY <3>1
      <3>8. Moved(i, m)
        BY <1>1, <3>1
      <3>3. m.to = t.to /\ m.to # "archive"
        BY <1>1, <2>2, <3>2, <3>8
      <3>4. at[i].name = t.name
        <4>1. at'[i] = [dir |-> m.to, name |-> at[i].name]
          BY <1>1, <3>3, <3>8
        <4>2. at'[i].name = at[i].name
          BY <4>1
        <4> QED
          BY <3>2, <4>2
      <3>5. at[i].dir = m.from /\ m.name \in {All, t.name}
        BY <3>4, <3>8 DEF Moved
      <3>6. s \in {7, 8, 9, 10, 11, 12, 13} /\ k \in {8, 9, 10, 12, 13}
        BY <1>k, <2>4, <3>3, MoveKinds
      <3>7. s # 7
        BY <1>c, <3>3, <3>4, <3>5, <3>6, Table DEF OneDatabase, m, Move
      <3> QED
        BY <2>0, <3>3, <3>5, <3>6, <3>7, Table DEF m, Move, All
    <2> QED
      BY <2>3, <2>4
  <1>11. Tracked'
    <2>1. ASSUME NEW i \in Items, Moved(i, m)
          PROVE  at'[i] = Goal(snap[i]) /\ (~prevDone => snap[i].dir \in Live \cup {"skills"})
      <3> DEFINE p == snap[i]
      <3>0. /\ at[i].dir = m.from
            /\ m.to = "archive" => at'[i] = Archive
            /\ m.to # "archive" => at'[i] = [dir |-> m.to, name |-> at[i].name]
            /\ m.name \in {All, at[i].name}
        BY <1>1, <2>1 DEF Moved
      <3>t. /\ at[i] \in {p, Goal(p)}
            /\ ~prevDone /\ p.dir \notin Live \cup {"skills"} => at[i] = p
        BY <1>c DEF Continued, Tracked
      <3>1. CASE s <= 5
        <4>1. m.from \in Live
          BY <1>k, <3>1
        <4>2. p.dir \in Live
          BY <1>p, <3>0, <3>1, <3>t, <4>1 DEF Goal, Archive, Live
        <4>3. Goal(p) = Archive
          BY <4>2 DEF Goal, Final, Live
        <4> QED
          BY <1>k, <3>0, <3>1, <4>2, <4>3
      <3>2. CASE s > 5
        <4>1. m.from \in {"skills", "data", "lstate", "lrun", "lconf"} /\ prevDone
          BY <1>0, <1>k, <3>2
        <4>2. at[i] = p /\ p \in Places
          <5>1. p \in Places \cup {Absent, Lost, Archive}
            BY DEF IInv, TypeOK
          <5>2. Goal(p).dir \in {"archive", "share", "state", "config"} \/ Goal(p) = p
            BY <5>1, FilePlaces DEF Goal, Final, Archive, Places
          <5>3. at[i] = p
            BY <3>0, <3>t, <4>1, <5>2
          <5> QED
            BY <3>0, <4>1, <5>1, <5>3, FilePlaces DEF Dirs, Roots, Inner
        <4>3. s \in {6, 7, 8, 9, 10, 11, 12, 13}
          BY <3>2
        <4>4. p = [dir |-> m.from, name |-> at[i].name]
          BY <3>0, <4>2 DEF Places
        <4>5. CASE s = 6
          BY <1>k, <3>0, <4>1, <4>2, <4>5 DEF Goal
        <4>6. CASE s \in {7, 11}
          <5>1. m = Move("data", All, "share") \/ m = Move("lstate", All, "state")
            BY <4>6, Table DEF m
          <5>2. Goal(p) = [dir |-> m.to, name |-> at[i].name]
            BY <4>4, <5>1, FinalOld DEF Move, Goal
          <5> QED
            BY <1>k, <3>0, <4>1, <4>6, <5>2
        <4>7. CASE s \in {8, 9, 10}
          <5>1. m.from = "lrun" /\ m.to = "share" /\ m.name \in {"db", "wal", "shm"}
            BY <4>7, Table DEF m, Move
          <5>2. Goal(p) = [dir |-> m.to, name |-> at[i].name]
            BY <3>0, <4>4, <5>1, FinalOld DEF Goal, All
          <5> QED
            BY <3>0, <4>1, <5>1, <5>2
        <4>8. CASE s \in {12, 13}
          <5>1. m.from = "lconf" /\ m.to = "config" /\ m.name \in {"jsonc", "service"}
            BY <4>8, Table DEF m, Move
          <5>2. Goal(p) = [dir |-> m.to, name |-> at[i].name]
            BY <3>0, <4>4, <5>1, FinalOld DEF Goal, All
          <5> QED
            BY <3>0, <4>1, <5>1, <5>2
        <4> QED
          BY <4>3, <4>5, <4>6, <4>7, <4>8
      <3> QED
        BY <3>1, <3>2
    <2>2. \A i \in Items : (at'[i] = at[i] /\ ~Moved(i, m)) \/ Moved(i, m)
      BY <1>1
    <2>3. \A i \in Items : Goal(snap[i])' = Goal(snap[i])
      BY <1>0 DEF Goal, Final
    <2>4. \A i \in Items : snap[i].dir \in Live => Goal(snap[i]) = Archive
      BY DEF Goal, Final, Live
    <2>5. \A i \in Items : Moved(i, m) /\ ~prevDone => snap[i].dir \in Live \cup {"skills"}
      BY <2>1
    <2>6. \A i \in Items : Moved(i, m) => at'[i] = Goal(snap[i])
      BY <2>1
    <2> QED
      BY <1>0, <1>c, <2>2, <2>3, <2>4, <2>5, <2>6 DEF Continued, Tracked
  <1> QED
    BY <1>6, <1>7, <1>8, <1>9, <1>10, <1>11 DEF Continued

LEMMA RenameResumes == ASSUME IInv, RInv, Rename PROVE RInv'
  <1>1. PICK k \in 1..13 : k = step /\ Advances(Moves[k]) /\ Relocates(Moves[k])
    BY RenameMoves
  <1>2. UNCHANGED <<archive, quiet>>
    BY <1>1 DEF Advances
  <1>3. (Placed /\ OneDatabase /\ Stages /\ SameResult)'
    BY <1>1, RenamePlaces
  <1>4. archive /\ quiet => Continued'
    BY <1>1, RenameContinues
  <1> QED
    BY <1>2, <1>3, <1>4 DEF RInv

LEMMA NextResumes == ASSUME NoOldDatabase, IInv, RInv, [Next]_vars PROVE RInv'
  BY WriteResumes, StartServerResumes, WaitingResumes, OpenResumes, MarkResumes, SkipResumes,
     LookResumes, RenameResumes, ListResumes, ArchiveEntryResumes, RemoveRootResumes,
     CloseResumes
     DEF Next

LEMMA Resumption == ASSUME NoOldDatabase PROVE Spec => []RInv
  <1>1. Init => RInv
    BY InitRInv
  <1>2. IInv /\ RInv /\ [Next]_vars => RInv'
    BY NextResumes
  <1> QED
    BY Invariance, <1>1, <1>2, PTL DEF Spec

LEMMA ContinuedAccepts == RInv => ResumeAccepted
  <1> SUFFICES ASSUME RInv, archive, quiet
               PROVE  /\ \A k \in IF prevDone THEN Skills..13 ELSE 1..Skills :
                           SourceExists(Moves[k]) => ~TargetExists(Moves[k])
                      /\ KeptGone
    BY DEF ResumeAccepted, KeptGone
  <1> Continued
    BY DEF RInv
  <1>1. ASSUME NEW k \in 1..6, ~prevDone \/ k = 6, SourceExists(Moves[k])
        PROVE  ~TargetExists(Moves[k])
    <2>1. CASE k = 6
      BY <1>1, <2>1, Sources, Targets DEF Continued, PrevGone
    <2>2. CASE k # 6
      <3>1. k \in 1..5
        BY <2>2
      <3> QED
        BY <1>1, <3>1, Sources, Targets DEF Continued, PrevGone
    <2> QED
      BY <2>1, <2>2
  <1>2. prevDone => \A k \in 7..13 : SourceExists(Moves[k]) => ~TargetExists(Moves[k])
    BY DEF Continued, Free
  <1>3. KeptGone
    BY DEF Continued
  <1> QED
    BY <1>1, <1>2, <1>3 DEF Skills

\* "If activation is interrupted, rerunning it resumes the in-progress archive":
\* whatever the user has and wherever the migration stopped, however often, no
\* step of the resumed run finds its destination taken by an earlier one.
THEOREM ResumeAcceptedAlways == ASSUME NoOldDatabase PROVE Spec => []ResumeAccepted
  BY Resumption, ContinuedAccepts, PTL

\* A migration that completes without anybody else writing has taken every file
\* where an uninterrupted one does, however often it was interrupted.
THEOREM SameResultAlways == ASSUME NoOldDatabase PROVE Spec => []SameResult
  <1>1. RInv => SameResult
    BY DEF RInv
  <1> QED
    BY Resumption, <1>1, PTL
=============================================================================
