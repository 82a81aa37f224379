------------------------- MODULE AssetReconcile_proofs -------------------------
(***************************************************************************)
(* Theorems about AssetReconcile for any files, contents and generations.  *)
(*                                                                         *)
(* IInv says, for every point at which a run may stop, how the manifest,   *)
(* the plan and the files relate: what the manifest authorises is never    *)
(* the user's (Authority), what is installed is recorded (PlacedIn), and   *)
(* each file is in one of the states from which the journalled generation  *)
(* can be run again (Resumable).                                           *)
(***************************************************************************)
EXTENDS AssetReconcile, TLAPS

Authority == \A f \in Files : manifest[f].prior \notin Mine /\ plan[f].prior \notin Mine

Looked ==
  /\ phase \in {"put", "unlink"} => cur \in todo
  /\ phase = "put" /\ ~raced => disk[cur] = plan[cur].prior
  /\ phase = "unlink" /\ ~raced => disk[cur] = plan[cur].digest

PlacedIn(m) ==
  \A f \in placed : /\ m[f].digest # None
                    /\ disk[f] \in {m[f].digest, m[f].prior} \ {None}

\* A file the user has not touched lets the run of g be repeated.
ResumableAt(g, m, f) ==
  IF f \in Wanted(g)
  THEN /\ m[f].digest = Want[g][f]
       /\ IF Pending(m, f)
          THEN m[f].revision = Rev[g] /\ disk[f] \in {m[f].prior, m[f].digest}
          ELSE disk[f] = m[f].digest
  ELSE IF Known(m, f) THEN disk[f] \in {None, m[f].digest}
                      ELSE Legacy[f] = None \/ disk[f] = None
Resumable(g, m, S) == \A f \in Files \ S : ResumableAt(g, m, f)

Starting ==
  /\ phase # "idle" => gen \in Gens
  /\ phase = "adopt" => plan = manifest
  /\ phase = "preflight" =>
       \A f \in Files :
         /\ Known(manifest, f) => plan[f] = manifest[f]
         /\ f \notin fresh /\ f \notin Wanted(gen) /\ ~Known(plan, f) /\ Exists(f)
              => Legacy[f] = None

Running == {"write", "put", "remove", "unlink", "final"}
IsPlan(g, m) == \A f \in Wanted(g) : m[f].digest = Want[g][f]

Journalled ==
  /\ phase = "journal" =>
       PlacedIn(plan) /\ Resumable(gen, plan, fresh) /\ IsPlan(gen, plan)
  /\ phase \in Running =>
       manifest = plan /\ last = gen /\ edits = fresh /\ ~done /\ IsPlan(gen, plan)

InPlace(f) == f \in placed \/ f \notin edits => disk[f] = Want[gen][f]
Retired(f) ==
  f \notin placed /\ (f \notin edits /\ Known(plan, f) => ~Exists(f))

Progress ==
  /\ phase \in {"write", "put"} =>
       /\ todo \subseteq Wanted(gen)
       /\ \A f \in Wanted(gen) \ todo : InPlace(f)
  /\ phase \in {"remove", "unlink", "final"} =>
       /\ todo \cap Wanted(gen) = {}
       /\ \A f \in Wanted(gen) : InPlace(f)
       /\ \A f \in Files \ (Wanted(gen) \cup todo) : Retired(f)
  /\ phase = "final" => todo = {}

Recorded ==
  /\ PlacedIn(manifest)
  /\ last # NoGen => Resumable(last, manifest, edits)
  /\ done => /\ last # NoGen
             /\ \A f \in Files \ Wanted(last) : ~Known(manifest, f)
             /\ \A f \in Wanted(last) : ~Pending(manifest, f)

IInv ==
  /\ TypeOK /\ Authority /\ Looked /\ Starting /\ Journalled /\ Progress /\ Recorded


LEMMA Trees ==
  /\ \A g \in Gens, f \in Files : /\ Want[g][f] \in Shipped \cup {None}
                                 /\ Rev[g] \in Revs
  /\ \A f \in Files : Legacy[f] \in Shipped \cup {None}
  /\ \A x \in Shipped : x \notin Mine /\ x # None /\ x # Settled
  /\ \A x \in Mine : x # None /\ x # Settled
  /\ None # Settled
BY TreesAssumption, ContentsAssumption DEF Revs, Contents, None, Settled

LEMMA NoEntry == /\ Empty \in [Files -> Entry]
                 /\ \A f \in Files : Empty[f] = Unowned
                 /\ Unowned.digest = None /\ Unowned.prior = Settled
                 /\ Unowned \in Entry
BY DEF Empty, Unowned, Entry, Revs

LEMMA InitIInv == Init => IInv
<1> SUFFICES ASSUME Init PROVE IInv
  OBVIOUS
<1>1. disk \in [Files -> Contents \cup {None}]
  BY TreesAssumption DEF Init, Contents
<1>2. TypeOK
  BY <1>1, NoEntry DEF Init, TypeOK, Phases
<1>3. Authority
  BY NoEntry, Trees DEF Init, Authority
<1>4. Looked /\ Starting /\ Journalled /\ Progress
  BY DEF Init, Looked, Starting, Journalled, Progress, Running
<1>5. Recorded
  BY DEF Init, Recorded, PlacedIn
<1>. QED  BY <1>2, <1>3, <1>4, <1>5 DEF IInv

LEMMA EditKeeps ==
  ASSUME IInv, NEW f \in Files, NEW c \in Contents \cup {None}, Edit(f, c)
  PROVE  IInv'
<1> USE DEF IInv
<1>1. TypeOK'
  BY DEF TypeOK, Edit, run
<1>2. Authority'
  BY DEF Authority, Edit, run
<1>3. Looked'
  BY DEF Looked, Edit, run, TypeOK
<1>4. Starting'
  BY DEF Starting, Exists, Edit, run
<1>5. Journalled'
  BY DEF Journalled, PlacedIn, Resumable, ResumableAt, Edit, run
<1>6. Progress'
  BY DEF Progress, InPlace, Retired, Exists, Edit, run
<1>7. Recorded'
  BY DEF Recorded, PlacedIn, Resumable, ResumableAt, Edit
<1>. QED  BY <1>1, <1>2, <1>3, <1>4, <1>5, <1>6, <1>7

LEMMA BeginKeeps == ASSUME IInv, NEW g \in Gens, Begin(g) PROVE IInv'
<1> USE DEF IInv
<1>1. TypeOK'
  BY DEF TypeOK, Begin, Phases
<1>2. Authority'
  BY DEF Authority, Begin
<1>3. Looked'
  BY DEF Looked, Begin
<1>4. Starting'
  BY DEF Starting, Begin
<1>5. Journalled'
  BY DEF Journalled, Running, Begin
<1>6. Progress'
  BY DEF Progress, Begin
<1>7. Recorded'
  BY DEF Recorded, PlacedIn, Resumable, ResumableAt, Begin
<1>. QED  BY <1>1, <1>2, <1>3, <1>4, <1>5, <1>6, <1>7

LEMMA FailKeeps == ASSUME IInv, Fail PROVE IInv'
<1> USE DEF IInv
<1>1. TypeOK'
  BY DEF TypeOK, Fail, End, Phases, Empty, Unowned, Entry, Revs
<1>2. Authority'
  BY Trees DEF Authority, Fail, End, Empty, Unowned
<1>3. Looked'
  BY DEF Looked, Fail, End
<1>4. Starting'
  BY DEF Starting, Fail, End
<1>5. Journalled'
  BY DEF Journalled, Running, Fail, End
<1>6. Progress'
  BY DEF Progress, Fail, End
<1>7. Recorded'
  BY DEF Recorded, PlacedIn, Resumable, ResumableAt, Fail
<1>. QED  BY <1>1, <1>2, <1>3, <1>4, <1>5, <1>6, <1>7

LEMMA AdoptKeeps == ASSUME IInv, Adopt PROVE IInv'
<1> USE DEF IInv
<1>1. TypeOK'
  BY Trees DEF TypeOK, Adopt, history, Phases, Adopted, Entry, Revs
<1>2. Authority'
  BY Trees DEF Authority, Adopt, Adopted
<1>3. Looked'
  BY DEF Looked, Adopt
<1>4. Starting'
  BY DEF Starting, Wanted, Exists, Known, Adopt, Adopted, AdoptRefuses, LegacyCandidate
<1>5. Journalled'
  BY DEF Journalled, Running, Adopt
<1>6. Progress'
  BY DEF Progress, Adopt
<1>7. Recorded'
  BY DEF Recorded, PlacedIn, Resumable, ResumableAt, Adopt, history
<1>. QED  BY <1>1, <1>2, <1>3, <1>4, <1>5, <1>6, <1>7

LEMMA PreflightKeeps == ASSUME IInv, Preflight PROVE IInv'
<1> USE DEF IInv
<1>1. TypeOK'
  <2>1. Planned(gen, plan) \in [Files -> Entry]
    <3> SUFFICES ASSUME NEW f \in Files PROVE Planned(gen, plan)[f] \in Entry
      BY DEF Planned
    <3>1. CASE f \in Wanted(gen)
      BY <3>1, Trees DEF Planned, TypeOK, Entry, Starting, Preflight
    <3>2. CASE f \notin Wanted(gen)
      BY <3>2, NoEntry DEF Planned, TypeOK
    <3>. QED  BY <3>1, <3>2
  <2>. QED  BY <2>1 DEF TypeOK, Preflight, history, Phases
<1>2. Authority'
  <2> SUFFICES ASSUME NEW f \in Files PROVE Planned(gen, plan)[f].prior \notin Mine
    BY DEF Authority, Preflight
  <2>1. CASE f \in Wanted(gen)
    <3>1. ~Collision(plan, f)
      BY <2>1 DEF Preflight, PreflightRefuses
    <3>2. plan[f].digest \notin Mine
      BY Trees DEF TypeOK, Entry
    <3>3. disk[f] \notin Mine
      BY <3>1, <3>2, Trees DEF Collision, Exists, Authority
    <3>. QED  BY <2>1, <3>3 DEF Planned
  <2>2. CASE f \notin Wanted(gen)
    BY <2>2, NoEntry, Trees DEF Planned, Authority
  <2>. QED  BY <2>1, <2>2
<1>3. Looked'
  BY DEF Looked, Preflight
<1>4. Starting'
  BY DEF Starting, Preflight
<1>5. Journalled'
  <2> DEFINE p == Planned(gen, plan)
  <2>g. gen \in Gens
    BY DEF Starting, Preflight
  <2>w. \A f \in Wanted(gen) : /\ p[f].digest = Want[gen][f] /\ p[f].revision = Rev[gen]
                               /\ p[f].prior = disk[f]
    BY DEF Planned, Wanted
  <2>u. \A f \in Files \ Wanted(gen) : p[f] = IF Exists(f) THEN plan[f] ELSE Unowned
    BY DEF Planned
  <2>1. PlacedIn(p)
    <3> SUFFICES ASSUME NEW f \in placed
                 PROVE p[f].digest # None /\ disk[f] \in {p[f].digest, p[f].prior} \ {None}
      BY DEF PlacedIn
    <3>1. /\ f \in Files /\ manifest[f].digest # None
          /\ disk[f] \in {manifest[f].digest, manifest[f].prior} \ {None}
      BY DEF Recorded, PlacedIn, TypeOK
    <3>2. CASE f \in Wanted(gen)
      BY <3>1, <3>2, <2>w DEF Wanted
    <3>3. CASE f \notin Wanted(gen)
      BY <3>1, <3>3, <2>u DEF Starting, Preflight, Known, Exists
    <3>. QED  BY <3>2, <3>3
  <2>2. Resumable(gen, p, fresh)
    <3> SUFFICES ASSUME NEW f \in Files \ fresh PROVE ResumableAt(gen, p, f)
      BY DEF Resumable
    <3>1. CASE f \in Wanted(gen)
      <4>1. disk[f] # Settled
        BY Trees DEF TypeOK, Contents
      <4>. QED  BY <3>1, <2>w, <4>1 DEF ResumableAt, Pending
    <3>2. CASE f \notin Wanted(gen) /\ Exists(f)
      <4>1. ~ModifiedRetirement(gen, plan, f)
        BY DEF Preflight, PreflightRefuses
      <4>2. p[f] = plan[f] /\ Want[gen][f] = None
        BY <3>2, <2>u DEF Wanted
      <4>3. Known(plan, f) => disk[f] = plan[f].digest
        BY <4>1, <4>2, <3>2 DEF ModifiedRetirement
      <4>4. ~Known(plan, f) => Legacy[f] = None
        BY <3>2 DEF Starting, Preflight
      <4>. QED  BY <3>2, <4>2, <4>3, <4>4 DEF ResumableAt, Known
    <3>3. CASE f \notin Wanted(gen) /\ ~Exists(f)
      BY <3>3, <2>u, NoEntry DEF ResumableAt, Known, Exists
    <3>. QED  BY <3>1, <3>2, <3>3
  <2>3. IsPlan(gen, p)
    BY <2>w DEF IsPlan
  <2>4. phase' = "journal" /\ plan' = p /\ UNCHANGED <<gen, disk, placed, fresh>>
    BY DEF Preflight, history
  <2>5. PlacedIn(plan)' /\ Resumable(gen, plan, fresh)' /\ IsPlan(gen, plan)'
    BY <2>1, <2>2, <2>3, <2>4 DEF PlacedIn, Resumable, ResumableAt, IsPlan, Known, Pending
  <2>. QED  BY <2>4, <2>5 DEF Journalled, Running
<1>6. Progress'
  BY DEF Progress, Preflight
<1>7. Recorded'
  BY DEF Recorded, PlacedIn, Resumable, ResumableAt, Preflight, history
<1>. QED  BY <1>1, <1>2, <1>3, <1>4, <1>5, <1>6, <1>7

LEMMA RefuseKeeps == ASSUME IInv, Refuse PROVE IInv'
<1> USE DEF IInv
<1>1. TypeOK'
  BY DEF TypeOK, Refuse, End, Phases, Empty, Unowned, Entry, Revs
<1>2. Authority'
  BY Trees DEF Authority, Refuse, End, Empty, Unowned
<1>3. Looked'
  BY DEF Looked, Refuse, End
<1>4. Starting'
  BY DEF Starting, Refuse, End
<1>5. Journalled'
  BY DEF Journalled, Running, Refuse, End
<1>6. Progress'
  BY DEF Progress, Refuse, End
<1>7. Recorded'
  BY DEF Recorded, PlacedIn, Resumable, ResumableAt, Refuse
<1>. QED  BY <1>1, <1>2, <1>3, <1>4, <1>5, <1>6, <1>7

LEMMA JournalKeeps == ASSUME IInv, Journal PROVE IInv'
<1> USE DEF IInv
<1>1. TypeOK'
  BY DEF TypeOK, Journal, Phases, Wanted
<1>2. Authority'
  BY DEF Authority, Journal
<1>3. Looked'
  BY DEF Looked, Journal
<1>4. Starting'
  BY DEF Starting, Journal
<1>5. Journalled'
  BY DEF Journalled, Journal
<1>6. Progress'
  BY DEF Progress, Journal
<1>7. Recorded'
  BY DEF Recorded, PlacedIn, Resumable, ResumableAt, Journal, Journalled
<1>. QED  BY <1>1, <1>2, <1>3, <1>4, <1>5, <1>6, <1>7

LEMMA LookToWriteKeeps == ASSUME IInv, NEW f \in Files, LookToWrite(f) PROVE IInv'
<1> USE DEF IInv
<1>1. TypeOK'
  BY DEF TypeOK, LookToWrite, Look, Phases
<1>2. Authority'
  BY DEF Authority, LookToWrite, Look
<1>3. Looked'
  BY DEF Looked, LookToWrite, Look
<1>4. Starting'
  BY DEF Starting, LookToWrite, Look
<1>5. Journalled'
  BY DEF Journalled, Running, LookToWrite, Look
<1>6. Progress'
  BY DEF Progress, InPlace, LookToWrite, Look
<1>7. Recorded'
  BY DEF Recorded, PlacedIn, Resumable, ResumableAt, LookToWrite, Look
<1>. QED  BY <1>1, <1>2, <1>3, <1>4, <1>5, <1>6, <1>7

LEMMA ChangedKeeps == ASSUME IInv, NEW f \in Files, Changed(f) PROVE IInv'
<1> USE DEF IInv
<1>1. TypeOK'
  BY DEF TypeOK, Changed, End, Phases, Empty, Unowned, Entry, Revs
<1>2. Authority'
  BY Trees DEF Authority, Changed, End, Empty, Unowned
<1>3. Looked'
  BY DEF Looked, Changed, End
<1>4. Starting'
  BY DEF Starting, Changed, End
<1>5. Journalled'
  BY DEF Journalled, Running, Changed, End
<1>6. Progress'
  BY DEF Progress, Changed, End
<1>7. Recorded'
  BY DEF Recorded, PlacedIn, Resumable, ResumableAt, Changed
<1>. QED  BY <1>1, <1>2, <1>3, <1>4, <1>5, <1>6, <1>7

LEMMA PutKeeps == ASSUME IInv, Put PROVE IInv'
<1> USE DEF IInv
<1>1. TypeOK'
  BY Trees DEF TypeOK, Put, Phases, Contents, Looked, Starting
<1>2. Authority'
  BY DEF Authority, Put
<1>3. Looked'
  BY DEF Looked, Put
<1>4. Starting'
  BY DEF Starting, Put
<1>5. Journalled'
  BY DEF Journalled, Running, Put
<1>6. Progress'
  BY DEF Progress, InPlace, Put, TypeOK
<1>7. Recorded'
  <2>1. /\ cur \in Wanted(gen) /\ cur \in Files /\ manifest' = manifest /\ plan = manifest
        /\ last = gen /\ last' = last /\ edits' = edits /\ ~done /\ done' = done
        /\ gen \in Gens
    BY DEF Put, Looked, Progress, Journalled, Running, Wanted, Starting
  <2>2. /\ disk' = [disk EXCEPT ![cur] = Want[gen][cur]]
        /\ placed' = placed \cup {cur} /\ disk \in [Files -> Contents \cup {None}]
        /\ placed \subseteq Files
    BY DEF Put, TypeOK
  <2>3. manifest[cur].digest = Want[gen][cur] /\ Want[gen][cur] # None
    BY <2>1 DEF Put, Journalled, Running, IsPlan, Wanted
  <2>4. PlacedIn(manifest)'
    BY <2>1, <2>2, <2>3 DEF PlacedIn, Recorded
  <2>5. Resumable(last, manifest, edits)'
    <3> SUFFICES ASSUME NEW f \in Files \ edits PROVE ResumableAt(last, manifest, f)'
      BY <2>1 DEF Resumable
    <3>0. gen' = gen /\ last' = gen
      BY <2>1 DEF Put
    <3>1. ResumableAt(gen, manifest, f)
      BY <2>1, TreesAssumption DEF Recorded, Resumable
    <3>2. CASE f = cur
      BY <3>0, <3>1, <3>2, <2>1, <2>2, <2>3 DEF ResumableAt, Pending, Known
    <3>3. CASE f # cur
      BY <3>0, <3>1, <3>3, <2>1, <2>2 DEF ResumableAt, Pending, Known
    <3>. QED  BY <3>2, <3>3
  <2>. QED  BY <2>1, <2>4, <2>5 DEF Recorded
<1>. QED  BY <1>1, <1>2, <1>3, <1>4, <1>5, <1>6, <1>7

LEMMA StartRemovalsKeeps == ASSUME IInv, StartRemovals PROVE IInv'
<1> USE DEF IInv
<1>1. TypeOK'
  BY DEF TypeOK, StartRemovals, history, Phases
<1>2. Authority'
  BY DEF Authority, StartRemovals
<1>3. Looked'
  BY DEF Looked, StartRemovals
<1>4. Starting'
  BY DEF Starting, StartRemovals
<1>5. Journalled'
  BY DEF Journalled, Running, StartRemovals, history
<1>6. Progress'
  BY DEF Progress, InPlace, Retired, Known, StartRemovals, history,
         Journalled, Running, Recorded, PlacedIn
<1>7. Recorded'
  BY DEF Recorded, PlacedIn, Resumable, ResumableAt, StartRemovals, history
<1>. QED  BY <1>1, <1>2, <1>3, <1>4, <1>5, <1>6, <1>7

LEMMA SkipRemovalKeeps == ASSUME IInv, NEW f \in Files, SkipRemoval(f) PROVE IInv'
<1> USE DEF IInv
<1>1. TypeOK'
  BY DEF TypeOK, SkipRemoval, history
<1>2. Authority'
  BY DEF Authority, SkipRemoval
<1>3. Looked'
  BY DEF Looked, SkipRemoval
<1>4. Starting'
  BY DEF Starting, SkipRemoval
<1>5. Journalled'
  BY DEF Journalled, SkipRemoval, history
<1>6. Progress'
  BY DEF Progress, InPlace, Retired, Exists, SkipRemoval, history, Recorded, PlacedIn
<1>7. Recorded'
  BY DEF Recorded, PlacedIn, Resumable, ResumableAt, SkipRemoval, history
<1>. QED  BY <1>1, <1>2, <1>3, <1>4, <1>5, <1>6, <1>7

LEMMA LookToRemoveKeeps == ASSUME IInv, NEW f \in Files, LookToRemove(f) PROVE IInv'
<1> USE DEF IInv
<1>1. TypeOK'
  BY DEF TypeOK, LookToRemove, Look, Phases
<1>2. Authority'
  BY DEF Authority, LookToRemove, Look
<1>3. Looked'
  BY DEF Looked, LookToRemove, Look
<1>4. Starting'
  BY DEF Starting, LookToRemove, Look
<1>5. Journalled'
  BY DEF Journalled, Running, LookToRemove, Look
<1>6. Progress'
  BY DEF Progress, InPlace, Retired, Exists, LookToRemove, Look
<1>7. Recorded'
  BY DEF Recorded, PlacedIn, Resumable, ResumableAt, LookToRemove, Look
<1>. QED  BY <1>1, <1>2, <1>3, <1>4, <1>5, <1>6, <1>7

LEMMA UnlinkKeeps == ASSUME IInv, Unlink PROVE IInv'
<1> USE DEF IInv
<1>1. TypeOK'
  BY DEF TypeOK, Unlink, Phases
<1>2. Authority'
  BY DEF Authority, Unlink
<1>3. Looked'
  BY DEF Looked, Unlink
<1>4. Starting'
  BY DEF Starting, Unlink
<1>5. Journalled'
  BY DEF Journalled, Running, Unlink
<1>6. Progress'
  BY DEF Progress, InPlace, Retired, Exists, Unlink, TypeOK, Looked
<1>7. Recorded'
  BY DEF Recorded, PlacedIn, Resumable, ResumableAt, Unlink, Looked, Progress,
         Journalled, Running
<1>. QED  BY <1>1, <1>2, <1>3, <1>4, <1>5, <1>6, <1>7

LEMMA StartFinalKeeps == ASSUME IInv, StartFinal PROVE IInv'
<1> USE DEF IInv
<1>1. TypeOK'
  BY DEF TypeOK, StartFinal, history, Phases
<1>2. Authority'
  BY DEF Authority, StartFinal
<1>3. Looked'
  BY DEF Looked, StartFinal
<1>4. Starting'
  BY DEF Starting, StartFinal
<1>5. Journalled'
  BY DEF Journalled, Running, StartFinal, history
<1>6. Progress'
  BY DEF Progress, InPlace, Retired, Exists, StartFinal, history
<1>7. Recorded'
  BY DEF Recorded, PlacedIn, Resumable, ResumableAt, StartFinal, history
<1>. QED  BY <1>1, <1>2, <1>3, <1>4, <1>5, <1>6, <1>7

LEMMA FinalKeeps == ASSUME IInv, Final PROVE IInv'
<1> USE DEF IInv
<1>1. TypeOK'
  <2>1. manifest' \in [Files -> Entry]
    <3> SUFFICES ASSUME NEW f \in Files PROVE manifest'[f] \in Entry
      BY DEF Final
    <3>1. CASE f \in Wanted(gen)
      <4>1. plan[f] \in Entry
        BY DEF TypeOK
      <4>2. [plan[f] EXCEPT !.prior = Settled] \in Entry
        BY <4>1 DEF Entry
      <4>. QED  BY <3>1, <4>2 DEF Final
    <3>2. CASE f \notin Wanted(gen)
      BY <3>2, NoEntry DEF Final
    <3>. QED  BY <3>1, <3>2
  <2>. QED  BY <2>1, NoEntry DEF TypeOK, Final, End, Phases
<1>2. Authority'
  BY Trees DEF Authority, Final, End, Empty, Unowned
<1>3. Looked'
  BY DEF Looked, Final, End
<1>4. Starting'
  BY DEF Starting, Final, End
<1>5. Journalled'
  BY DEF Journalled, Running, Final, End
<1>6. Progress'
  BY DEF Progress, Final, End
<1>7. Recorded'
  <2>1. /\ manifest = plan /\ last = gen /\ last' = last /\ edits' = edits /\ done' = TRUE
        /\ disk' = disk /\ placed' = placed /\ gen \in Gens /\ todo = {}
        /\ IsPlan(gen, plan)
    BY DEF Final, Journalled, Running, Starting, Progress
  <2>2. ASSUME NEW f \in Wanted(gen)
        PROVE /\ manifest'[f].digest = Want[gen][f] /\ manifest'[f].prior = Settled
              /\ InPlace(f)
    <3>1. f \in Files /\ plan[f] \in Entry
      BY DEF TypeOK, Wanted
    <3>2. manifest'[f] = [plan[f] EXCEPT !.prior = Settled]
      BY <3>1 DEF Final
    <3>. QED  BY <3>1, <3>2, <2>1 DEF Entry, IsPlan, Progress, Final
  <2>3. ASSUME NEW f \in Files \ Wanted(gen)
        PROVE manifest'[f].digest = None /\ Retired(f)
    BY <2>1, NoEntry DEF Final, Progress
  <2>4. PlacedIn(manifest)'
    <3> SUFFICES ASSUME NEW f \in placed
                 PROVE /\ manifest'[f].digest # None
                       /\ disk[f] \in {manifest'[f].digest, manifest'[f].prior} \ {None}
      BY <2>1 DEF PlacedIn
    <3>1. f \in Wanted(gen)
      BY <2>3 DEF Retired, TypeOK
    <3>. QED  BY <3>1, <2>2 DEF InPlace, Wanted
  <2>5. Resumable(last, manifest, edits)'
    <3> SUFFICES ASSUME NEW f \in Files \ edits PROVE ResumableAt(last, manifest, f)'
      BY <2>1 DEF Resumable
    <3>1. CASE f \in Wanted(gen)
      BY <3>1, <2>1, <2>2 DEF ResumableAt, InPlace, Pending
    <3>2. CASE f \notin Wanted(gen)
      <4>1. Legacy[f] = None \/ disk[f] = None
        <5>1. ResumableAt(gen, plan, f) /\ Retired(f)
          BY <2>1, <2>3, <3>2, TreesAssumption DEF Recorded, Resumable
        <5>. QED  BY <5>1, <3>2 DEF ResumableAt, Retired, Exists
      <4>. QED  BY <4>1, <3>2, <2>1, <2>3 DEF ResumableAt, Known
    <3>. QED  BY <3>1, <3>2
  <2>6. last' # NoGen
    BY <2>1, TreesAssumption
  <2>7. Wanted(last') = Wanted(gen)
    BY <2>1
  <2>. QED  BY <2>2, <2>3, <2>4, <2>5, <2>6, <2>7 DEF Recorded, Known, Pending
<1>. QED  BY <1>1, <1>2, <1>3, <1>4, <1>5, <1>6, <1>7


LEMMA StutterKeeps == ASSUME IInv, UNCHANGED vars PROVE IInv'
<1> USE DEF vars, run, history
<1>1. TypeOK' /\ Authority' /\ Looked'
  BY DEF IInv, TypeOK, Authority, Looked
<1>2. Starting' /\ Journalled'
  BY DEF IInv, Starting, Journalled, PlacedIn, Resumable, ResumableAt, IsPlan, Known,
         Pending, Exists
<1>3. Progress' /\ Recorded'
  BY DEF IInv, Progress, InPlace, Retired, Recorded, PlacedIn, Resumable, ResumableAt,
         Known, Pending, Exists
<1>. QED  BY <1>1, <1>2, <1>3 DEF IInv

LEMMA NextKeeps == IInv /\ [Next]_vars => IInv'
<1> SUFFICES ASSUME IInv, [Next]_vars PROVE IInv'
  OBVIOUS
<1>1. CASE UNCHANGED vars
  BY <1>1, StutterKeeps
<1>2. CASE \E f \in Files, c \in Contents \cup {None} : Edit(f, c)
  BY <1>2, EditKeeps
<1>3. CASE ToolStep
  <2>1. CASE Fail \/ Adopt \/ Preflight \/ Refuse \/ Journal
    BY <2>1, FailKeeps, AdoptKeeps, PreflightKeeps, RefuseKeeps, JournalKeeps
  <2>2. CASE Put \/ StartRemovals \/ Unlink \/ StartFinal \/ Final
    BY <2>2, PutKeeps, StartRemovalsKeeps, UnlinkKeeps, StartFinalKeeps, FinalKeeps
  <2>3. CASE \E g \in Gens : Begin(g)
    BY <2>3, BeginKeeps
  <2>4. CASE \E f \in Files : \/ LookToWrite(f) \/ Changed(f) \/ SkipRemoval(f)
                              \/ LookToRemove(f)
    BY <2>4, LookToWriteKeeps, ChangedKeeps, SkipRemovalKeeps, LookToRemoveKeeps
  <2>. QED  BY <1>3, <2>1, <2>2, <2>3, <2>4 DEF ToolStep
<1>. QED  BY <1>1, <1>2, <1>3 DEF Next

LEMMA IInvAlways == Spec => []IInv
BY InitIInv, NextKeeps, PTL DEF Spec

(***************************************************************************)
(* The theorems                                                            *)
(***************************************************************************)
\* Every variable keeps its type, for any files, contents and generations.
THEOREM TypeCorrect == Spec => []TypeOK
<1>1. IInv => TypeOK
  BY DEF IInv
<1>. QED  BY <1>1, IInvAlways, PTL

\* Installed files are recorded: PlacedIn(manifest) is this property.
THEOREM InstalledIsKnownAlways == Spec => []InstalledIsKnown
<1>1. IInv => InstalledIsKnown
  BY DEF IInv, Recorded, PlacedIn, InstalledIsKnown, Known
<1>. QED  BY <1>1, IInvAlways, PTL

\* What makes a run refuse a file contradicts each case of ResumableAt.
LEMMA ResumableAccepted ==
  ASSUME IInv, NEW g \in Gens, NEW f \in Files, ResumableAt(g, manifest, f)
  PROVE  /\ f \notin AdoptRefuses(g, manifest)
         /\ f \notin PreflightRefuses(g, Adopted(manifest))
<1> DEFINE a == Adopted(manifest)
<1>1. f \notin AdoptRefuses(g, manifest)
  BY DEF ResumableAt, AdoptRefuses, LegacyCandidate, Known, Exists, Wanted
<1>2. Known(manifest, f) => a[f] = manifest[f]
  BY DEF Adopted, LegacyCandidate
<1>3. CASE f \in Wanted(g)
  <2>1. Known(manifest, f)
    BY <1>3 DEF ResumableAt, Known, Wanted
  <2>2. ~UnfinishedOther(g, a, f) /\ ~PendingChanged(a, f) /\ ~Collision(a, f)
    BY <2>1, <1>2, <1>3 DEF ResumableAt, UnfinishedOther, PendingChanged, Collision,
       Pending, Known
  <2>. QED  BY <1>1, <1>3, <2>2 DEF PreflightRefuses, ModifiedRetirement, Wanted
<1>4. CASE f \notin Wanted(g)
  <2>1. ~ModifiedRetirement(g, a, f)
    <3>1. CASE Known(manifest, f)
      BY <3>1, <1>2, <1>4 DEF ResumableAt, ModifiedRetirement, Known, Exists
    <3>2. CASE ~Known(manifest, f)
      <4>1. ~LegacyCandidate(manifest, f)
        BY <3>2, <1>4 DEF ResumableAt, LegacyCandidate, Exists
      <4>2. a[f] = manifest[f]
        BY <4>1 DEF Adopted
      <4>. QED  BY <4>2, <3>2 DEF ModifiedRetirement, Known
    <3>. QED  BY <3>1, <3>2
  <2>. QED  BY <1>1, <1>4, <2>1 DEF PreflightRefuses
<1>. QED  BY <1>3, <1>4

\* A stopped run can be repeated: it is refused only for what the user changed.
THEOREM RetryRefusesOnlyEditsAlways == Spec => []RetryRefusesOnlyEdits
<1>1. ASSUME IInv PROVE RetryRefusesOnlyEdits
  <2> SUFFICES ASSUME last # NoGen, NEW f \in Files, f \notin edits
               PROVE /\ f \notin AdoptRefuses(last, manifest)
                     /\ f \notin PreflightRefuses(last, Adopted(manifest))
    BY DEF RetryRefusesOnlyEdits, AdoptRefuses, PreflightRefuses
  <2>1. last \in Gens /\ ResumableAt(last, manifest, f)
    BY <1>1 DEF IInv, TypeOK, Recorded, Resumable
  <2>. QED  BY <1>1, <2>1, ResumableAccepted
<1>. QED  BY <1>1, IInvAlways, PTL

\* A finished run has brought every file the user left alone to the generation.
THEOREM ConvergedAlways == Spec => []Converged
<1>1. ASSUME IInv PROVE Converged
  <2> SUFFICES ASSUME done, NEW f \in Files \ edits
               PROVE IF f \in Wanted(last)
                     THEN disk[f] = Want[last][f] /\ manifest[f].digest = disk[f]
                     ELSE /\ ~Known(manifest, f) /\ f \notin placed
                          /\ Exists(f) => disk[f] # Legacy[f]
    BY DEF Converged
  <2>1. ResumableAt(last, manifest, f)
    BY <1>1 DEF IInv, Recorded, Resumable
  <2>2. CASE f \in Wanted(last)
    BY <1>1, <2>1, <2>2 DEF IInv, Recorded, ResumableAt
  <2>3. CASE f \notin Wanted(last)
    BY <1>1, <2>1, <2>3 DEF IInv, Recorded, ResumableAt, PlacedIn, Known, Exists
  <2>. QED  BY <2>2, <2>3
<1>. QED  BY <1>1, IInvAlways, PTL

\* The user's work is lost only in the window that the code leaves open.
THEOREM UserWorkKeptAlways == Spec => UserWorkKept
<1>1. ASSUME IInv, ToolStep, NEW f \in Files, disk[f] \in Mine, disk'[f] # disk[f]
      PROVE f = cur /\ raced /\ ~(phase = "put" /\ plan[f].prior = None)
  <2>1. disk' # disk => Put \/ Unlink
    BY <1>1 DEF ToolStep, Fail, Adopt, Preflight, Refuse, Journal, StartRemovals,
       StartFinal, Final, Begin, LookToWrite, LookToRemove, Look, Changed, SkipRemoval
  <2>2. f = cur
    BY <1>1, <2>1 DEF Put, Unlink, IInv, TypeOK
  <2>3. plan[f].prior \notin Mine /\ plan[f].digest \notin Mine
    BY <1>1, Trees DEF IInv, Authority, TypeOK, Entry
  <2>4. CASE Put
    BY <1>1, <2>2, <2>3, <2>4, Trees DEF Put, CanPut, Exists, IInv, Looked
  <2>5. CASE Unlink
    BY <1>1, <2>2, <2>3, <2>5 DEF Unlink, IInv, Looked
  <2>. QED  BY <1>1, <2>1, <2>4, <2>5
<1>2. IInv => (ToolStep => \A f \in Files :
       disk[f] \in Mine /\ disk'[f] # disk[f] =>
         f = cur /\ raced /\ ~(phase = "put" /\ plan[f].prior = None))
  BY <1>1
<1>. QED  BY <1>2, IInvAlways, PTL DEF UserWorkKept

================================================================================
