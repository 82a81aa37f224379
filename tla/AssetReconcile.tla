---------------------------- MODULE AssetReconcile ----------------------------
(***************************************************************************)
(* ai-assets-reconcile (internal/aiassets/reconcile.go): brings the files  *)
(* of one target directory to a generation's tree, and remembers in a      *)
(* manifest which files it owns.  A run reads everything and refuses, or   *)
(* writes its plan into the manifest as a journal, replaces the wanted     *)
(* files one by one, removes the retired ones, and writes the manifest     *)
(* again without the journal.  It may fail or be killed before any step;   *)
(* a user edits, creates and deletes files at any time.                    *)
(*                                                                         *)
(* Runs of several processes are serialised by a flock that dies with its  *)
(* holder, and read nothing before they have it, so there is one run at a  *)
(* time here.  Reads of different files in one loop commute with edits of  *)
(* the others, so each loop that only reads is one step.                   *)
(*                                                                         *)
(* Abstracted: a digest is the content; the before-image, which no code    *)
(* reads back, temporary files and empty directories are left out; no      *)
(* wanted path lies inside another; the user leaves the manifest alone;    *)
(* a manifest of schema 1 is not read.                                     *)
(***************************************************************************)
EXTENDS Naturals

CONSTANTS
  Files,      \* paths below the target
  Shipped,    \* contents that the repository's generations install
  Mine,       \* contents only the user writes
  Gens,       \* generations that may be activated
  Want,       \* each generation's tree
  Rev,        \* the revision it is run with; trees may share one
  Legacy      \* the tree installed before there was a manifest

None    == "none"     \* no such file; no digest
Settled == "settled"  \* the prior state of an entry that is not pending
NoGen   == "nogen"
NoFile  == "nofile"
BeforeManifest == "legacy"  \* the revision given to adopted files

Contents == Shipped \cup Mine
Revs     == {Rev[g] : g \in Gens} \cup {BeforeManifest, None}

ASSUME ContentsAssumption ==
  /\ Shipped \cap Mine = {}
  /\ {None, Settled} \cap Contents = {}
ASSUME TreesAssumption ==
  /\ Want \in [Gens -> [Files -> Shipped \cup {None}]]
  /\ Legacy \in [Files -> Shipped \cup {None}]
  /\ NoGen \notin Gens /\ NoFile \notin Files

VARIABLES
  disk,      \* content of each file of the target
  manifest,  \* the entry of each file in the manifest on disk
  phase, gen, plan, todo, cur,  \* the run; plan is m, and next once computed
  last,      \* history: the generation journalled last
  done,      \* history: its run wrote the final manifest
  edits,     \* history: files the user changed since that run began
  fresh,     \* history: files the user changed since the current run began
  raced,     \* history: the user changed cur after the run's last look at it
  placed     \* history: files whose content the tool put there

run     == <<phase, gen, plan, todo, cur>>
history == <<last, done, edits, fresh, raced, placed>>
vars    == <<disk, manifest, run, history>>

Entry   == [digest : Shipped \cup {None}, revision : Revs,
            prior : Contents \cup {None, Settled}]
\* Go's zero entry, which a lookup of an unknown file gives.
Unowned == [digest |-> None, revision |-> None, prior |-> Settled]
Empty   == [f \in Files |-> Unowned]

Known(m, f)   == m[f].digest # None
Pending(m, f) == m[f].prior # Settled
Wanted(g)     == {f \in Files : Want[g][f] # None}
Exists(f)     == disk[f] # None

Phases == {"idle", "adopt", "preflight", "journal", "write", "put", "remove",
           "unlink", "final"}

TypeOK ==
  /\ disk \in [Files -> Contents \cup {None}]
  /\ manifest \in [Files -> Entry] /\ plan \in [Files -> Entry]
  /\ phase \in Phases
  /\ gen \in Gens \cup {NoGen} /\ last \in Gens \cup {NoGen}
  /\ todo \subseteq Files /\ cur \in Files \cup {NoFile}
  /\ done \in BOOLEAN /\ raced \in BOOLEAN
  /\ edits \subseteq Files /\ fresh \subseteq Files /\ placed \subseteq Files

Init ==
  /\ disk \in [Files -> Mine \cup {None}] \cup {Legacy}
  /\ manifest = Empty /\ plan = Empty
  /\ phase = "idle" /\ gen = NoGen /\ todo = {} /\ cur = NoFile
  /\ last = NoGen /\ done = FALSE /\ raced = FALSE
  /\ edits = {} /\ fresh = {} /\ placed = {}

(***************************************************************************)
(* The user                                                                *)
(***************************************************************************)
Edit(f, c) ==
  /\ c # disk[f]
  /\ disk' = [disk EXCEPT ![f] = c]
  /\ edits' = edits \cup {f} /\ fresh' = fresh \cup {f}
  /\ raced' = (raced \/ cur = f)
  /\ placed' = placed \ {f}
  /\ UNCHANGED <<manifest, run, last, done>>

(***************************************************************************)
(* A run                                                                   *)
(***************************************************************************)
\* Lock, read both trees and the manifest.
Begin(g) ==
  /\ phase = "idle"
  /\ phase' = "adopt" /\ gen' = g /\ plan' = manifest
  /\ fresh' = {}
  /\ UNCHANGED <<disk, manifest, todo, cur, last, done, edits, raced, placed>>

End ==
  /\ phase' = "idle" /\ gen' = NoGen /\ plan' = Empty
  /\ todo' = {} /\ cur' = NoFile /\ raced' = FALSE

\* An error return or a kill: what is on disk stays.
Fail ==
  /\ phase # "idle" /\ End
  /\ UNCHANGED <<disk, manifest, last, done, edits, fresh, placed>>

\* Files of the legacy tree are owned if they still have its content.
LegacyCandidate(m, f) == Legacy[f] # None /\ ~Known(m, f) /\ Exists(f)
AdoptRefuses(g, m) ==
  {f \in Files : LegacyCandidate(m, f) /\ Want[g][f] = None /\ disk[f] # Legacy[f]}
\* Mutant: any content is adopted.
AdoptedAny(m) ==
  [f \in Files |->
     IF LegacyCandidate(m, f)
     THEN [digest |-> disk[f], revision |-> BeforeManifest, prior |-> Settled]
     ELSE m[f]]

Adopted(m) ==
  [f \in Files |->
     IF LegacyCandidate(m, f) /\ disk[f] = Legacy[f]
     THEN [digest |-> Legacy[f], revision |-> BeforeManifest, prior |-> Settled]
     ELSE m[f]]

Adopt ==
  /\ phase = "adopt" /\ AdoptRefuses(gen, plan) = {}
  /\ plan' = Adopted(plan) /\ phase' = "preflight"
  /\ UNCHANGED <<disk, manifest, gen, todo, cur, history>>

\* An owned file that is no longer wanted has been changed.
ModifiedRetirement(g, m, f) ==
  Want[g][f] = None /\ Known(m, f) /\ Exists(f) /\ disk[f] # m[f].digest
UnfinishedOther(g, m, f) ==
  Pending(m, f) /\ (m[f].digest # Want[g][f] \/ m[f].revision # Rev[g])
\* Mutant: a file that an interrupted run has already written counts as changed.
PendingChangedOnce(m, f) == Pending(m, f) /\ disk[f] # m[f].prior
PendingChanged(m, f) ==
  Pending(m, f) /\ disk[f] # m[f].prior /\ disk[f] # m[f].digest
\* Mutant: a file in the way that nobody owns is no collision.
CollisionOwned(m, f) ==
  /\ Exists(f) /\ Known(m, f)
  /\ disk[f] # m[f].digest /\ ~(Pending(m, f) /\ disk[f] = m[f].prior)

\* The file is not the tool's, or no longer as the tool left it.
Collision(m, f) ==
  /\ Exists(f)
  /\ \/ ~Known(m, f)
     \/ disk[f] # m[f].digest /\ ~(Pending(m, f) /\ disk[f] = m[f].prior)

PreflightRefuses(g, m) ==
  {f \in Files :
     \/ ModifiedRetirement(g, m, f)
     \/ f \in Wanted(g) /\ (UnfinishedOther(g, m, f) \/ PendingChanged(m, f)
                              \/ Collision(m, f))}

\* The journal: wanted files pending, files to be removed as they were.
\* Mutant: the journal forgets the files that are still to be removed.
PlannedWanted(g, m) ==
  [f \in Files |->
     IF f \in Wanted(g)
     THEN [digest |-> Want[g][f], revision |-> Rev[g], prior |-> disk[f]]
     ELSE Unowned]

Planned(g, m) ==
  [f \in Files |->
     IF f \in Wanted(g)
     THEN [digest |-> Want[g][f], revision |-> Rev[g], prior |-> disk[f]]
     ELSE IF Exists(f) THEN m[f] ELSE Unowned]

Preflight ==
  /\ phase = "preflight" /\ PreflightRefuses(gen, plan) = {}
  /\ plan' = Planned(gen, plan) /\ phase' = "journal"
  /\ UNCHANGED <<disk, manifest, gen, todo, cur, history>>

Refuse ==
  /\ \/ phase = "adopt" /\ AdoptRefuses(gen, plan) # {}
     \/ phase = "preflight" /\ PreflightRefuses(gen, plan) # {}
  /\ End
  /\ UNCHANGED <<disk, manifest, last, done, edits, fresh, placed>>

Journal ==
  /\ phase = "journal"
  /\ manifest' = plan
  /\ phase' = "write" /\ todo' = Wanted(gen)
  /\ last' = gen /\ done' = FALSE /\ edits' = fresh
  /\ UNCHANGED <<disk, gen, plan, cur, fresh, raced, placed>>

\* The look at the file just before it is replaced.
Look(f, at, to, seen) ==
  /\ phase = at /\ f \in todo /\ disk[f] = seen
  /\ phase' = to /\ cur' = f /\ raced' = FALSE
  /\ UNCHANGED <<disk, manifest, gen, plan, todo, last, done, edits, fresh, placed>>

\* The file changed after the preflight.
Changed(f) ==
  /\ \/ phase = "write" /\ f \in todo /\ disk[f] # plan[f].prior
     \/ phase = "remove" /\ f \in todo /\ Exists(f) /\ disk[f] # plan[f].digest
  /\ End
  /\ UNCHANGED <<disk, manifest, last, done, edits, fresh, placed>>

LookToWrite(f) == Look(f, "write", "put", plan[f].prior)

\* Link for a file that was absent, which fails if there is one now; rename
\* over whatever is there otherwise.
CanPut(f) == plan[f].prior = None => ~Exists(f)

Put ==
  /\ phase = "put" /\ CanPut(cur)
  /\ disk' = [disk EXCEPT ![cur] = Want[gen][cur]]
  /\ placed' = placed \cup {cur}
  /\ todo' = todo \ {cur} /\ cur' = NoFile /\ phase' = "write" /\ raced' = FALSE
  /\ UNCHANGED <<manifest, gen, plan, last, done, edits, fresh>>

StartRemovals ==
  /\ phase = "write" /\ todo = {}
  /\ phase' = "remove"
  /\ todo' = {f \in Files : f \notin Wanted(gen) /\ Known(plan, f)}
  /\ UNCHANGED <<disk, manifest, gen, plan, cur, history>>

\* Mutant: any file that cannot be read counts as gone.
SkipRemovalAny(f) ==
  /\ phase = "remove" /\ f \in todo
  /\ todo' = todo \ {f}
  /\ UNCHANGED <<disk, manifest, phase, gen, plan, cur, history>>

SkipRemoval(f) ==
  /\ phase = "remove" /\ f \in todo /\ ~Exists(f)
  /\ todo' = todo \ {f}
  /\ UNCHANGED <<disk, manifest, phase, gen, plan, cur, history>>

LookToRemove(f) == Look(f, "remove", "unlink", plan[f].digest)

\* A file that is gone by now makes the removal fail.
Unlink ==
  /\ phase = "unlink" /\ Exists(cur)
  /\ disk' = [disk EXCEPT ![cur] = None]
  /\ placed' = placed \ {cur}
  /\ todo' = todo \ {cur} /\ cur' = NoFile /\ phase' = "remove" /\ raced' = FALSE
  /\ UNCHANGED <<manifest, gen, plan, last, done, edits, fresh>>

StartFinal ==
  /\ phase = "remove" /\ todo = {}
  /\ phase' = "final"
  /\ UNCHANGED <<disk, manifest, gen, plan, todo, cur, history>>

Final ==
  /\ phase = "final"
  /\ manifest' = [f \in Files |-> IF f \in Wanted(gen)
                                  THEN [plan[f] EXCEPT !.prior = Settled]
                                  ELSE Unowned]
  /\ done' = TRUE
  /\ End
  /\ UNCHANGED <<disk, last, edits, fresh, placed>>

ToolStep ==
  \/ Fail \/ Adopt \/ Preflight \/ Refuse \/ Journal \/ Put \/ StartRemovals
  \/ Unlink \/ StartFinal \/ Final
  \/ \E g \in Gens : Begin(g)
  \/ \E f \in Files : \/ LookToWrite(f) \/ Changed(f) \/ SkipRemoval(f)
                      \/ LookToRemove(f)

Next == ToolStep \/ \E f \in Files, c \in Contents \cup {None} : Edit(f, c)

Spec == Init /\ [][Next]_vars

(***************************************************************************)
(* Properties                                                              *)
(***************************************************************************)
\* What the user wrote is replaced or removed only if it was written between
\* the run's last look at the file and the call that replaces it, and never
\* where the run found no file ("It preserves unmanaged files and refuses
\* conflicting user edits").  write's Link and Rename, the loop's Remove.
UserWorkKept ==
  [][ToolStep => \A f \in Files :
       disk[f] \in Mine /\ disk'[f] # disk[f] =>
         f = cur /\ raced /\ ~(phase = "put" /\ plan[f].prior = None)]_vars

\* Whatever the tool has put in place is in the manifest, with the content it
\* has or is about to lose, until it is removed or the user changes it: after
\* a crash at any point no installed file is mistaken for the user's.
InstalledIsKnown ==
  \A f \in placed : /\ Known(manifest, f)
                    /\ disk[f] \in {manifest[f].digest, manifest[f].prior} \ {None}

\* "journaled first for idempotent retry": wherever the run of a generation
\* stops, another run of it is refused for no file but those the user changed
\* since that run began.
RetryRefusesOnlyEdits ==
  last # NoGen =>
    AdoptRefuses(last, manifest) \cup PreflightRefuses(last, Adopted(manifest))
      \subseteq edits

\* Once a run has written its final manifest, every file the user did not
\* change meanwhile is as the generation wants it, whatever crashed runs came
\* before: wanted files in place and owned, everything else that the tool or
\* the legacy tree installed gone and forgotten.
Converged ==
  done => \A f \in Files \ edits :
            IF f \in Wanted(last)
            THEN disk[f] = Want[last][f] /\ manifest[f].digest = disk[f]
            ELSE /\ ~Known(manifest, f) /\ f \notin placed
                 /\ Exists(f) => disk[f] # Legacy[f]
=============================================================================
