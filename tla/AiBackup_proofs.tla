----------------------------- MODULE AiBackup_proofs -----------------------------
(***************************************************************************)
(* Proofs about AiBackup for any machines, members, databases and writing  *)
(* programs.  IInv says what each payload of a restore may rely on: what   *)
(* the one before it has kept, what the archive holds, and which snapshots *)
(* are still to be placed.                                                 *)
(***************************************************************************)
EXTENDS AiBackup, TLAPS

Restoring == rpc \in RestoreSteps

\* A published archive has all that the payload archives.
ArchiveInv ==
  /\ bpc # "idle" => source \in Machines /\ staged \subseteq Has[source]
  /\ bpc = "publish" => part = Archived(source)
  /\ \A m \in Machines : archive[m] \in {NoFile, Archived(m)}
  /\ Restoring \/ rpc = "complete" => from \in Machines /\ archive[from] = Archived(from)

\* Member i of machine m is at its place.
Brought(m, i) == m \in live[i] /\ (i \in ToKeep => live[i] = {m})

\* Database d of machine m is at its place, alone unless it found a -wal there.
Placed(m, d) == m \in live[d] /\ (d \notin mixed => live[d] \cup wal[d] = {m})

\* What the target had of i is in a copy.
Kept(i) == Own(i) \subseteq kept[i]

KeepInv ==
  rpc = "keep" =>
    /\ dest = None
    /\ \A i \in ToKeep \ (todo \cup wrote) : Kept(i) /\ (i \in Aside => live[i] = {})

ExtractInv ==
  rpc = "extract" =>
    /\ dest = None
    /\ todo \subseteq Archived(from)
    /\ \A i \in ToKeep \ wrote : Kept(i)
    /\ \A i \in (todo \cap Aside) \ wrote : live[i] = {}
    /\ \A i \in (Archived(from) \cap Plain) \ (todo \cup wrote) : Brought(from, i)
    /\ \A d \in (Archived(from) \cap Dbs) \ todo : snap[d] = {from}

PlaceInv ==
  rpc = "place" =>
    /\ \A i \in (Archived(from) \cap Plain) \ wrote : Brought(from, i)
    /\ \A d \in Archived(from) \cap Dbs :
         snap[d] = {from} \/ (snap[d] = {} /\ (d \in wrote \/ Placed(from, d)))
    /\ dest # None => snap[dest] # {} /\ (dest \in wrote \/ live[dest] = {})

RestoreInv == KeepInv /\ ExtractInv /\ PlaceInv /\ CompleteIsWhole /\ (dest # None => rpc = "place")

IInv == TypeOK /\ ArchiveInv /\ RestoreInv

\* What the members of the kinds have to do with each other.
LEMMA Kinds ==
  /\ \A i \in Items : i \in Dbs <=> i \notin Plain
  /\ ToKeep \subseteq Plain /\ ToKeep \cap Loose = {} /\ Plain \subseteq ToKeep \cup Loose
  /\ Aside \subseteq ToKeep /\ Plain \subseteq Items /\ Dbs \subseteq Items
  /\ \A i \in Trees : i \in Aside \/ i \in Loose
  BY MachinesAssumption DEF Items, Plain, ToKeep

\* An archive lacks members only: every database is archived.
LEMMA ArchivedItems ==
  \A m \in Machines :
    /\ Has[m] \subseteq Items
    /\ Archived(m) \subseteq Has[m] /\ Archived(m) \cap Dbs = Has[m] \cap Dbs
  BY MachinesAssumption, Kinds DEF Archived, Plain

LEMMA InitEstablishes == Init => IInv
<1> SUFFICES ASSUME Init PROVE IInv
  OBVIOUS
<1>1. TypeOK
  <2>1. live \in [Items -> SUBSET Contents]
    BY DEF Init, Contents, Local
  <2>2. kept \in [Items -> SUBSET Local]
    BY DEF Init, Local
  <2>3. snap \in [Dbs -> SUBSET Machines] /\ wal \in [Dbs -> SUBSET {Mine}] /\ mixed \subseteq Dbs
    BY DEF Init
  <2>4. archive \in [Machines -> (SUBSET Items) \cup {NoFile}]
    BY DEF Init
  <2> QED
    BY <2>1, <2>2, <2>3, <2>4 DEF Init, TypeOK, BackupSteps, RestoreSteps
<1>2. ArchiveInv
  BY DEF Init, ArchiveInv, Restoring, RestoreSteps
<1>3. RestoreInv
  BY DEF Init, RestoreInv, KeepInv, ExtractInv, PlaceInv, CompleteIsWhole
<1> QED
  BY <1>1, <1>2, <1>3 DEF IInv

Backup ==
  \/ \E m \in Machines : StartBackup(m)
  \/ \E d \in Dbs : Snapshot(d)
  \/ Stream \/ Publish \/ CreateSidecar \/ Sum \/ BackupStops

\* A backup changes neither the target nor what the restore relies on.
LEMMA BackupPreserves == IInv /\ Backup => IInv'
<1> SUFFICES ASSUME IInv, Backup PROVE IInv'
  OBVIOUS
<1>1. UNCHANGED <<targetVars, restoreVars, wrote>>
  BY DEF Backup, StartBackup, Snapshot, Stream, Publish, CreateSidecar, Sum, BackupStops
<1>2. RestoreInv'
  BY <1>1 DEF IInv, RestoreInv, KeepInv, ExtractInv, PlaceInv, CompleteIsWhole, Kept, Own,
     Brought, Placed, targetVars, restoreVars
<1>3. TypeOK' /\ ArchiveInv'
  <2> USE MachinesAssumption, <1>1 DEF IInv, TypeOK, ArchiveInv, Restoring, RestoreSteps,
      BackupSteps, destVars, backupVars, targetVars, restoreVars
  <2>1. ASSUME NEW m \in Machines, StartBackup(m) PROVE TypeOK' /\ ArchiveInv'
    BY <2>1 DEF StartBackup
  <2>2. ASSUME NEW d \in Dbs, Snapshot(d) PROVE TypeOK' /\ ArchiveInv'
    BY <2>2 DEF Snapshot
  <2>3. CASE Stream
    <3> PICK src \in BOOLEAN, dst \in BOOLEAN, got \in SUBSET Manifest :
         /\ src => Has[source] \cap Dbs \subseteq staged /\ ~FailsClosed
         /\ src /\ dst => got = Manifest
         /\ IF PipeFailed(src, dst)
            THEN part' = NoFile /\ bpc' = "idle" /\ source' = None
            ELSE part' = got /\ bpc' = "publish" /\ source' = source
      BY <2>3 DEF Stream
    <3>1. bpc = "snap" /\ source \in Machines /\ staged \subseteq Has[source]
      BY <2>3 DEF Stream
    <3>2. Manifest \subseteq Items /\ staged \subseteq Dbs
      BY <3>1, ArchivedItems, Kinds DEF Manifest
    <3>3. UNCHANGED <<archive, unsummed>> /\ staged' = {}
      BY <2>3 DEF Stream
    <3>4. CASE PipeFailed(src, dst)
      BY <3>1, <3>3, <3>4
    <3>5. CASE ~PipeFailed(src, dst)
      <4>1. staged = Archived(source) \cap Dbs
        BY <3>1, <3>2, <3>5, ArchivedItems DEF PipeFailed
      <4>2. Archived(source) \subseteq Items /\ got = Manifest
        BY <3>1, <3>5, ArchivedItems DEF PipeFailed
      <4>3. got = Archived(source)
        BY <4>1, <4>2, Kinds DEF Manifest
      <4> QED
        BY <3>1, <3>2, <3>3, <3>5, <4>2, <4>3
    <3> QED
      BY <3>4, <3>5
  <2>4. CASE Publish
    BY <2>4 DEF Publish
  <2>5. CASE CreateSidecar
    BY <2>5 DEF CreateSidecar
  <2>6. CASE Sum
    BY <2>6 DEF Sum
  <2>7. CASE BackupStops
    BY <2>7 DEF BackupStops
  <2> QED
    BY <2>1, <2>2, <2>3, <2>4, <2>5, <2>6, <2>7 DEF Backup
<1> QED
  BY <1>2, <1>3 DEF IInv

Restore ==
  \/ \E m \in Machines, f \in BOOLEAN : BeginRestore(m, f)
  \/ \E d \in Dbs : MoveAside(d) \/ Place(d) \/ Checkpoint(d)
  \/ StartExtract \/ StartPlace \/ Check \/ RestoreStops
  \/ \E i \in Items : Keep(i) \/ Extract(i) \/ Use(i)

LEMMA RestoreTypes == IInv /\ Restore => TypeOK' /\ ArchiveInv'
<1> SUFFICES ASSUME IInv, Restore PROVE TypeOK' /\ ArchiveInv'
  OBVIOUS
<1> USE MachinesAssumption DEF IInv, TypeOK, ArchiveInv, Restoring, RestoreSteps, BackupSteps,
    destVars, backupVars, targetVars, restoreVars, Own, Contents, Local
<1>1. ASSUME NEW m \in Machines, NEW f \in BOOLEAN, BeginRestore(m, f)
      PROVE  TypeOK' /\ ArchiveInv'
  BY <1>1 DEF BeginRestore, ToKeep, Items, Plain
<1>2. ASSUME NEW d \in Dbs, MoveAside(d) PROVE TypeOK' /\ ArchiveInv'
  BY <1>2 DEF MoveAside, Items
<1>3. ASSUME NEW d \in Dbs, Place(d) PROVE TypeOK' /\ ArchiveInv'
  BY <1>3 DEF Place, Items
<1>4. CASE StartExtract
  BY <1>4, ArchivedItems DEF StartExtract
<1>5. CASE StartPlace
  BY <1>5 DEF StartPlace
<1>6. CASE Check
  BY <1>6 DEF Check
<1>7. CASE RestoreStops
  BY <1>7 DEF RestoreStops
<1>8. ASSUME NEW i \in Items, Keep(i) PROVE TypeOK' /\ ArchiveInv'
  BY <1>8 DEF Keep
<1>9. ASSUME NEW i \in Items, Extract(i) PROVE TypeOK' /\ ArchiveInv'
  <2>1. CASE i \in Dbs
    BY <1>9, <2>1 DEF Extract
  <2>2. CASE i \notin Dbs
    BY <1>9, <2>2 DEF Extract
  <2> QED
    BY <2>1, <2>2
<1>10. ASSUME NEW i \in Items, Use(i) PROVE TypeOK' /\ ArchiveInv'
  <2>1. CASE live' = [live EXCEPT ![i] = @ \cup {Mine}] /\ UNCHANGED wal
    BY <1>10, <2>1 DEF Use
  <2>2. CASE i \in Dbs /\ wal' = [wal EXCEPT ![i] = @ \cup {Mine}] /\ UNCHANGED live
    BY <1>10, <2>2 DEF Use
  <2> QED
    BY <1>10, <2>1, <2>2 DEF Use
<1>11. ASSUME NEW d \in Dbs, Checkpoint(d) PROVE TypeOK' /\ ArchiveInv'
  BY <1>11 DEF Checkpoint, Items
<1> QED
  BY <1>1, <1>2, <1>3, <1>4, <1>5, <1>6, <1>7, <1>8, <1>9, <1>10, <1>11 DEF Restore

LEMMA RestorePreserves == IInv /\ Restore => RestoreInv'
<1> SUFFICES ASSUME IInv, Restore PROVE RestoreInv'
  OBVIOUS
<1>0. TypeOK' /\ ArchiveInv'
  BY RestoreTypes
<1> USE Kinds DEF RestoreInv, RestoreSteps, Own, Kept, Brought, Placed
<1>1. ASSUME NEW m \in Machines, NEW f \in BOOLEAN, BeginRestore(m, f) PROVE RestoreInv'
  BY <1>1 DEF BeginRestore, IInv, KeepInv, ExtractInv, PlaceInv, CompleteIsWhole
<1>2. ASSUME NEW d \in Dbs, MoveAside(d) PROVE RestoreInv'
  <2>1. /\ rpc = "place" /\ rpc' = "place" /\ snap[d] # {} /\ dest' = d /\ from' = from
        /\ UNCHANGED <<wrote, snap, wal, mixed>> /\ live' = [live EXCEPT ![d] = {}]
    BY <1>2 DEF MoveAside
  <2>2. live' \in [Items -> SUBSET Contents] /\ live'[d] = {}
        /\ \A i \in Items : i # d => live'[i] = live[i]
    BY <2>1 DEF IInv, TypeOK
  <2>3. PlaceInv'
    BY <2>1, <2>2, <1>0 DEF IInv, PlaceInv, ArchiveInv, Restoring
  <2> QED
    BY <2>1, <2>3 DEF KeepInv, ExtractInv, CompleteIsWhole
<1>3. ASSUME NEW d \in Dbs, Place(d) PROVE RestoreInv'
  <2>1. /\ rpc = "place" /\ rpc' = "place" /\ dest' = None /\ from' = from
        /\ UNCHANGED <<wrote, wal>> /\ snap[d] # {}
        /\ live' = [live EXCEPT ![d] = snap[d]] /\ snap' = [snap EXCEPT ![d] = {}]
        /\ mixed' = IF wal[d] = {} THEN mixed \ {d} ELSE mixed \cup {d}
    BY <1>3 DEF Place
  <2>2. /\ live'[d] = snap[d] /\ \A i \in Items : i # d => live'[i] = live[i]
        /\ snap'[d] = {} /\ \A e \in Dbs : e # d => snap'[e] = snap[e]
    BY <2>1 DEF IInv, TypeOK
  <2>3. PlaceInv'
    BY <2>1, <2>2, <1>0 DEF IInv, PlaceInv, ArchiveInv, Restoring
  <2> QED
    BY <2>1, <2>3 DEF KeepInv, ExtractInv, CompleteIsWhole
<1>4. CASE StartExtract
  <2>1. /\ rpc = "keep" /\ todo = {} /\ rpc' = "extract" /\ todo' = archive[from]
        /\ UNCHANGED <<live, wal, kept, snap, mixed, from, dest, wrote>>
    BY <1>4 DEF StartExtract, targetVars
  <2>2. todo' = Archived(from)
    BY <2>1 DEF IInv, ArchiveInv, Restoring
  <2>3. ExtractInv'
    BY <2>1, <2>2 DEF IInv, KeepInv, ExtractInv
  <2> QED
    BY <2>1, <2>3 DEF IInv, KeepInv, PlaceInv, CompleteIsWhole
<1>5. CASE StartPlace
  <2>1. /\ rpc = "extract" /\ todo = {} /\ rpc' = "place"
        /\ UNCHANGED <<live, wal, kept, snap, mixed, from, dest, wrote>>
    BY <1>5 DEF StartPlace, targetVars
  <2>2. PlaceInv'
    BY <2>1 DEF IInv, ExtractInv, PlaceInv
  <2> QED
    BY <2>1, <2>2 DEF IInv, KeepInv, ExtractInv, CompleteIsWhole
<1>6. CASE Check
  <2>1. /\ rpc = "place" /\ dest = None /\ rpc' \in {"complete", "failed"}
        /\ rpc' = "complete" => \A d \in Damaged : Orig \notin live[d]
        /\ \A d \in Dbs : snap[d] = {}
        /\ UNCHANGED <<live, wal, mixed, from, dest, wrote>>
    BY <1>6 DEF Check, targetVars
  <2>2. from \in Machines /\ Archived(from) \subseteq Items
    BY <2>1, ArchivedItems DEF IInv, ArchiveInv, Restoring
  <2>3. ASSUME NEW i \in Archived(from) \ wrote
        PROVE  /\ from \in live[i]
               /\ i \in ToKeep => live[i] = {from}
               /\ i \in Dbs \ mixed => live[i] \cup wal[i] = {from}
    <3>1. CASE i \in Plain
      BY <2>1, <2>2, <2>3, <3>1 DEF IInv, PlaceInv
    <3>2. CASE i \in Dbs
      <4>1. Placed(from, i)
        BY <2>1, <2>3, <3>2 DEF IInv, PlaceInv
      <4> QED
        BY <2>2, <3>2, <4>1
    <3> QED
      BY <2>2, <3>1, <3>2
  <2>4. CompleteIsWhole'
    BY <2>1, <2>3 DEF CompleteIsWhole
  <2> QED
    BY <2>1, <2>4 DEF KeepInv, ExtractInv, PlaceInv
<1>7. CASE RestoreStops
  BY <1>7 DEF RestoreStops, KeepInv, ExtractInv, PlaceInv, CompleteIsWhole
<1>8. ASSUME NEW i \in Items, Keep(i) PROVE RestoreInv'
  <2>1. /\ rpc = "keep" /\ rpc' = "keep" /\ todo' = todo \ {i}
        /\ UNCHANGED <<wrote, wal, mixed, dest>>
        /\ kept' = [kept EXCEPT ![i] = @ \cup (live[i] \ Machines)]
        /\ live' = [live EXCEPT ![i] = IF i \in Aside THEN {} ELSE @]
    BY <1>8 DEF Keep
  <2>2. /\ kept'[i] = kept[i] \cup (live[i] \ Machines)
        /\ live'[i] = IF i \in Aside THEN {} ELSE live[i]
        /\ \A j \in Items : j # i => kept'[j] = kept[j] /\ live'[j] = live[j]
    BY <2>1 DEF IInv, TypeOK
  <2>3. KeepInv'
    BY <2>1, <2>2 DEF IInv, KeepInv
  <2> QED
    BY <2>1, <2>3 DEF IInv, ExtractInv, PlaceInv, CompleteIsWhole
<1>9. ASSUME NEW i \in Items, Extract(i) PROVE RestoreInv'
  <2>1. /\ rpc = "extract" /\ rpc' = "extract" /\ i \in todo /\ todo' = todo \ {i}
        /\ UNCHANGED <<wrote, dest, from, kept, wal, mixed>>
    BY <1>9 DEF Extract
  <2>2. from \in Machines /\ Archived(from) \subseteq Items /\ i \in Archived(from)
    BY <2>1, ArchivedItems DEF IInv, ArchiveInv, ExtractInv, Restoring
  <2>3. CASE i \in Dbs
    <3>1. live' = live /\ snap' = [snap EXCEPT ![i] = {from}]
      BY <1>9, <2>3 DEF Extract
    <3>2. snap'[i] = {from} /\ \A d \in Dbs : d # i => snap'[d] = snap[d]
      BY <2>3, <3>1 DEF IInv, TypeOK
    <3>3. ExtractInv'
      BY <2>1, <2>2, <2>3, <3>1, <3>2 DEF IInv, ExtractInv
    <3> QED
      BY <2>1, <3>3 DEF IInv, KeepInv, PlaceInv, CompleteIsWhole
  <2>4. CASE i \in Plain
    <3>1. /\ snap' = snap
          /\ live' = [live EXCEPT ![i] = (IF i \in Trees THEN @ ELSE {}) \cup {from}]
      BY <1>9, <2>4 DEF Extract
    <3>2. /\ live'[i] = (IF i \in Trees THEN live[i] ELSE {}) \cup {from}
          /\ \A j \in Items : j # i => live'[j] = live[j]
      BY <3>1 DEF IInv, TypeOK
    <3>3. i \in wrote \/ Brought(from, i)'
      <4>1. CASE i \in Loose
        BY <2>1, <3>2, <4>1
      <4>2. CASE i \notin Loose /\ i \notin Trees
        BY <2>1, <3>2, <4>2
      <4>3. CASE i \in Aside /\ i \notin wrote
        <5>1. live[i] = {}
          BY <2>1, <4>3 DEF IInv, ExtractInv
        <5> QED
          BY <2>1, <3>2, <4>3, <5>1
      <4> QED
        BY <4>1, <4>2, <4>3
    <3>4. \A j \in ToKeep \ wrote : Kept(j)'
      BY <2>1, <2>2, <3>2 DEF IInv, ExtractInv
    <3>5. /\ \A j \in (todo' \cap Aside) \ wrote : live'[j] = {}
          /\ todo' \subseteq Archived(from) /\ dest = None
      BY <2>1, <2>2, <3>2 DEF IInv, ExtractInv
    <3>6. \A j \in (Archived(from) \cap Plain) \ (todo' \cup wrote) : Brought(from, j)'
      BY <2>1, <2>2, <3>2, <3>3 DEF IInv, ExtractInv
    <3>7. \A d \in (Archived(from) \cap Dbs) \ todo' : snap'[d] = {from}
      BY <2>1, <2>2, <2>4, <3>1 DEF IInv, ExtractInv
    <3>8. ExtractInv'
      BY <2>1, <3>4, <3>5, <3>6, <3>7 DEF ExtractInv
    <3> QED
      BY <2>1, <3>8 DEF IInv, KeepInv, PlaceInv, CompleteIsWhole
  <2> QED
    BY <2>3, <2>4
<1>10. ASSUME NEW i \in Items, Use(i) PROVE RestoreInv'
  <2>1. UNCHANGED <<rpc, from, todo, dest, kept, snap, mixed>> /\ wrote' = wrote \cup {i}
    BY <1>10 DEF Use, restoreVars
  <2>2. /\ \A j \in Items : j # i => live'[j] = live[j]
        /\ \A d \in Dbs : d # i => wal'[d] = wal[d]
    BY <1>10 DEF Use, IInv, TypeOK
  <2>3. Restoring \/ rpc = "complete" => from \in Machines /\ Archived(from) \subseteq Items
    BY ArchivedItems DEF IInv, ArchiveInv
  <2>4. dest \in Dbs \cup {None}
    BY DEF IInv, TypeOK
  <2>5. KeepInv'
    BY <2>1, <2>2, <2>3 DEF IInv, KeepInv, Restoring
  <2>6. ExtractInv'
    BY <2>1, <2>2, <2>3 DEF IInv, ExtractInv, Restoring
  <2>7. PlaceInv'
    BY <2>1, <2>2, <2>3, <2>4 DEF IInv, PlaceInv, Restoring
  <2>8. CompleteIsWhole'
    BY <2>1, <2>2, <2>3, MachinesAssumption DEF IInv, CompleteIsWhole
  <2> QED
    BY <2>1, <2>5, <2>6, <2>7, <2>8 DEF IInv
<1>11. ASSUME NEW d \in Dbs, Checkpoint(d) PROVE RestoreInv'
  <2>1. UNCHANGED <<rpc, from, todo, dest, kept, snap, mixed, wrote>> /\ live[d] # {}
    BY <1>11 DEF Checkpoint, restoreVars
  <2>2. /\ live'[d] = live[d] \cup wal[d] /\ wal'[d] = {} /\ wal[d] \subseteq {Mine}
        /\ \A j \in Items : j # d => live'[j] = live[j]
        /\ \A e \in Dbs : e # d => wal'[e] = wal[e]
    BY <1>11 DEF Checkpoint, IInv, TypeOK
  <2>3. Restoring \/ rpc = "complete" => from \in Machines /\ Archived(from) \subseteq Items
    BY ArchivedItems DEF IInv, ArchiveInv
  <2>4. dest \in Dbs \cup {None}
    BY DEF IInv, TypeOK
  <2>5. KeepInv'
    BY <2>1, <2>2, <2>3 DEF IInv, KeepInv, Restoring
  <2>6. ExtractInv'
    BY <2>1, <2>2, <2>3 DEF IInv, ExtractInv, Restoring
  <2>7. \A m \in Machines, e \in Dbs : Placed(m, e) => Placed(m, e)'
    BY <2>1, <2>2
  <2>8. PlaceInv'
    BY <2>1, <2>2, <2>3, <2>4, <2>7 DEF IInv, PlaceInv, Restoring
  <2>9. CompleteIsWhole'
    BY <2>1, <2>2, <2>3, MachinesAssumption DEF IInv, CompleteIsWhole
  <2> QED
    BY <2>1, <2>5, <2>6, <2>8, <2>9 DEF IInv
<1> QED
  BY <1>1, <1>2, <1>3, <1>4, <1>5, <1>6, <1>7, <1>8, <1>9, <1>10, <1>11 DEF Restore

LEMMA StepPreserves == IInv /\ [Next]_vars => IInv'
<1>1. IInv /\ UNCHANGED vars => IInv'
  <2> SUFFICES ASSUME IInv, UNCHANGED vars PROVE IInv'
    OBVIOUS
  <2>1. TypeOK'
    BY DEF IInv, TypeOK, vars, destVars, backupVars, targetVars, restoreVars
  <2>2. ArchiveInv'
    BY DEF IInv, ArchiveInv, Restoring, vars, destVars, backupVars, restoreVars
  <2>3. RestoreInv'
    BY DEF IInv, RestoreInv, KeepInv, ExtractInv, PlaceInv, CompleteIsWhole, Kept, Own, Brought,
       Placed, vars, targetVars, restoreVars
  <2> QED
    BY <2>1, <2>2, <2>3 DEF IInv
<1>2. Next => Backup \/ Restore
  BY DEF Next, Backup, Restore
<1> QED
  BY <1>1, <1>2, BackupPreserves, RestoreTypes, RestorePreserves DEF IInv

LEMMA Inductive == Spec => []IInv
  BY InitEstablishes, StepPreserves, PTL DEF Spec

\* Every variable keeps its type, for any machines, members and databases.
THEOREM TypeCorrect == Spec => []TypeOK
<1>1. IInv => TypeOK
  BY DEF IInv
<1> QED
  BY <1>1, Inductive, PTL

\* A restore that reports success has brought all that a backup of the machine
\* archives, the extras of a machine reached over ssh not among it: the stream
\* that failed was never published, and what a restore that was stopped left
\* behind does not stand for what this one had to bring.  Only a database that
\* was put beside another's -wal may hold rows of the target's.
THEOREM CompleteIsWholeAlways == Spec => []CompleteIsWhole
<1>1. IInv => CompleteIsWhole
  BY DEF IInv, RestoreInv
<1> QED
  BY <1>1, Inductive, PTL

\* A step of a restore takes an item away only when a copy has it.
LEMMA StepKeeps ==
  ASSUME IInv, Next
  PROVE  \A i \in Items \ Loose :
           i \notin wrote => Own(i) \cup kept[i] \subseteq live'[i] \cup kept'[i]
<1> USE Kinds DEF Own
<1> SUFFICES ASSUME NEW i \in Items \ Loose, i \notin wrote
             PROVE  Own(i) \cup kept[i] \subseteq live'[i] \cup kept'[i]
  OBVIOUS
<1>1. CASE live' = live /\ kept' = kept
  BY <1>1
<1>2. ASSUME NEW d \in Dbs, MoveAside(d) PROVE Own(i) \cup kept[i] \subseteq live'[i] \cup kept'[i]
  BY <1>2 DEF MoveAside, IInv, TypeOK
<1>3. ASSUME NEW d \in Dbs, Place(d) PROVE Own(i) \cup kept[i] \subseteq live'[i] \cup kept'[i]
  <2>1. CASE i # d
    BY <1>3, <2>1 DEF Place, IInv, TypeOK
  <2>2. CASE i = d
    <3>1. rpc = "place" /\ (dest = d \/ live[d] = {}) /\ kept' = kept
      BY <1>3 DEF Place
    <3>2. live[d] = {}
      BY <2>2, <3>1, MachinesAssumption DEF IInv, RestoreInv, PlaceInv
    <3> QED
      BY <2>2, <3>1, <3>2
  <2> QED
    BY <2>1, <2>2
<1>4. ASSUME NEW j \in Items, Keep(j) PROVE Own(i) \cup kept[i] \subseteq live'[i] \cup kept'[i]
  BY <1>4 DEF Keep, IInv, TypeOK
<1>5. ASSUME NEW j \in Items, Extract(j) PROVE Own(i) \cup kept[i] \subseteq live'[i] \cup kept'[i]
  <2>1. rpc = "extract" /\ kept' = kept
    BY <1>5 DEF Extract
  <2>2. CASE j \in Dbs \/ i # j
    BY <1>5, <2>1, <2>2 DEF Extract, IInv, TypeOK
  <2>3. CASE j \notin Dbs /\ i = j
    <3>1. Own(i) \subseteq kept[i]
      BY <2>1, <2>3 DEF IInv, RestoreInv, ExtractInv, Kept
    <3> QED
      BY <2>1, <3>1
  <2> QED
    BY <2>2, <2>3
<1>6. ASSUME NEW j \in Items, Use(j) PROVE Own(i) \cup kept[i] \subseteq live'[i] \cup kept'[i]
  BY <1>6 DEF Use, IInv, TypeOK
<1>7. ASSUME NEW d \in Dbs, Checkpoint(d) PROVE Own(i) \cup kept[i] \subseteq live'[i] \cup kept'[i]
  BY <1>7 DEF Checkpoint, IInv, TypeOK
<1>8. \/ live' = live /\ kept' = kept
      \/ \E d \in Dbs : MoveAside(d) \/ Place(d) \/ Checkpoint(d)
      \/ \E j \in Items : Keep(j) \/ Extract(j) \/ Use(j)
  BY DEF Next, StartBackup, Snapshot, Stream, Publish, CreateSidecar, Sum, BackupStops,
     BeginRestore, StartExtract, StartPlace, Check, RestoreStops, targetVars
<1> QED
  BY <1>1, <1>2, <1>3, <1>4, <1>5, <1>6, <1>7, <1>8

\* Whatever stops a restore, and however often it is repeated, nothing that the
\* target's members and database files held is lost, but for the members that are
\* not kept and what a program writes while it runs.  It says nothing of rows that
\* are only in a -wal.
THEOREM NothingLostAlways == Spec => NothingLost
<1>1. ASSUME IInv, [Next]_vars
      PROVE  [\A i \in Items \ Loose :
                i \notin wrote => Own(i) \cup kept[i] \subseteq live'[i] \cup kept'[i]]_vars
  BY <1>1, StepKeeps
<1> QED
  BY <1>1, Inductive, PTL DEF Spec, NothingLost
===================================================================================
