--------------------------- MODULE WorkspaceProofs ---------------------------
(***************************************************************************)
(* What is promised of the workspace of a plan: its snapshots (Snapshots)  *)
(* and the saved scene of Blender (BlenderRuns).                           *)
(*                                                                         *)
(* Snapshots, for any files and contents, any number of snapshots and of   *)
(* writes of a runner, wherever the process dies or a copy fails: a saved  *)
(* snapshot is what its row says and stays so, a restore that reports      *)
(* success brought exactly that back, and what it replaced is in a saved   *)
(* snapshot before the first file goes.  The properties speak of saved     *)
(* rows and of restores that have begun to delete.  What makes them true   *)
(* is what the copies have done so far: the invariant says which files of  *)
(* the workspace are already in the directory, and which files of the      *)
(* directory are already back.                                             *)
(***************************************************************************)
EXTENDS Snapshots, ScenePromise, NaturalsInduction, WellFoundedInduction, SequenceTheorems, FiniteSetTheorems,
        TLAPS

Pcs == {"none", "copy", "check", "clear", "back", "restored"}
Jobs == [pc : Pcs, id : Ids \cup {0}, target : Ids \cup {0}, left : SUBSET Files, done : Nat]

TypeOK ==
  /\ workspace \in Trees \cup {Missing}
  /\ folder \in [Ids -> Trees \cup {Missing}]
  /\ DOMAIN row \subseteq Ids
  /\ job \in Jobs
  /\ before \in Trees \cup {Missing}
  /\ touched \in BOOLEAN

\* A snapshot in the making has no row yet; the backup of a restore holds the
\* files that were copied so far.
Copying(j, fo, ro, ws, be, to) ==
  j.pc = "copy" =>
    /\ j.id \in Ids /\ j.id \notin DOMAIN ro
    /\ j.left # {} => fo[j.id] # Missing
    /\ j.target # 0 => j.target \in DOMAIN ro
    /\ j.target # 0 /\ ~to =>
         /\ ws \in Trees /\ be = ws /\ fo[j.id] \in Trees
         /\ j.left \subseteq DOMAIN ws /\ DOMAIN fo[j.id] = DOMAIN ws \ j.left
         /\ \A f \in DOMAIN fo[j.id] : fo[j.id][f] = ws[f]

\* What the restore replaces can be restored, or there is nothing of it.
Saved(fo, ro, be) == be \in {Missing, Empty} \/ \E i \in DOMAIN ro : fo[i] = be

\* A restore: the files to delete, then the files to bring back.
Restoring(j, fo, ro, ws, be, to) ==
  j.pc \in {"check", "clear", "back", "restored"} =>
    /\ j.target \in DOMAIN ro
    /\ ~to => Saved(fo, ro, be)
    /\ j.pc # "check" => fo[j.target] \in Trees /\ ws \in Trees
    /\ j.pc = "clear" /\ ~to => j.left = DOMAIN ws \ DOMAIN fo[j.target]
    /\ j.pc = "back" => j.left \subseteq DOMAIN fo[j.target]
    /\ j.pc = "restored" => j.left = {}
    /\ j.pc \in {"back", "restored"} /\ ~to =>
         /\ DOMAIN ws \subseteq DOMAIN fo[j.target]
         /\ \A f \in DOMAIN fo[j.target] \ j.left : f \in DOMAIN ws /\ ws[f] = fo[j.target][f]

\* The inductive invariant.
IndInv ==
  /\ TypeOK
  /\ RowsAreWhole
  /\ job.pc = "none" <=> job = NoJob
  /\ Copying(job, folder, row, workspace, before, touched)
  /\ Restoring(job, folder, row, workspace, before, touched)

\* A saved snapshot is never changed or dropped: what a restore saved can be
\* restored after any failure of it.
SavedStays == \A i \in DOMAIN row : i \in DOMAIN row' /\ row'[i] = row[i] /\ folder'[i] = folder[i]
-----------------------------------------------------------------------------
(***************************************************************************)
(* Directories                                                             *)
(***************************************************************************)
LEMMA TreeIs ==
  ASSUME NEW S \in SUBSET Files, NEW t, t = [f \in S |-> t[f]], \A f \in S : t[f] \in Contents
  PROVE  t \in Trees /\ DOMAIN t = S
<1>1. t \in [S -> Contents]
  OBVIOUS
<1> QED  BY <1>1 DEF Trees

LEMMA TreeHas ==
  ASSUME NEW t \in Trees
  PROVE  DOMAIN t \subseteq Files /\ t = [f \in DOMAIN t |-> t[f]] /\ \A f \in DOMAIN t : t[f] \in Contents
<1>1. PICK S \in SUBSET Files : t \in [S -> Contents]
  BY DEF Trees
<1> QED  BY <1>1

LEMMA EmptyTree == Empty \in Trees /\ DOMAIN Empty = {} /\ \A t \in Trees : DOMAIN t = {} => t = Empty
<1>1. Empty \in Trees /\ DOMAIN Empty = {}
  <2>1. Empty \in [{} -> Contents] /\ {} \in SUBSET Files
    BY DEF Empty
  <2> QED  BY <2>1 DEF Trees
<1>2. ASSUME NEW t \in Trees, DOMAIN t = {} PROVE t = Empty
  BY <1>2, TreeHas DEF Empty
<1> QED  BY <1>1, <1>2

\* A file is written into a directory, which may not be there yet, or removed.
Put(t, D, f, x) == [g \in D \cup {f} |-> IF g = f THEN x ELSE t[g]]

LEMMA PutFile ==
  ASSUME NEW t, NEW D, (t \in Trees /\ D = DOMAIN t) \/ D = {}, NEW f \in Files, NEW x \in Contents,
         NEW new, new = Put(t, D, f, x)
  PROVE  /\ new \in Trees /\ DOMAIN new = D \cup {f} /\ new[f] = x
         /\ \A g \in D \ {f} : new[g] = t[g]
<1>1. D \cup {f} \in SUBSET Files /\ \A g \in D : t[g] \in Contents
  BY TreeHas
<1>2. /\ DOMAIN new = D \cup {f} /\ new[f] = x /\ \A g \in D \ {f} : new[g] = t[g]
      /\ new = [g \in D \cup {f} |-> new[g]]
  BY DEF Put
<1>3. \A g \in D \cup {f} : new[g] \in Contents
  BY <1>1, <1>2
<1> QED  BY <1>1, <1>2, <1>3, TreeIs

LEMMA DropFile ==
  ASSUME NEW t \in Trees, NEW S, S \subseteq DOMAIN t
  PROVE  /\ Restrict(t, S) \in Trees /\ DOMAIN Restrict(t, S) = S
         /\ \A g \in S : Restrict(t, S)[g] = t[g]
<1> DEFINE new == Restrict(t, S)
<1>1. DOMAIN t \subseteq Files /\ \A g \in DOMAIN t : t[g] \in Contents
  BY TreeHas
<1>2. DOMAIN new = S /\ (\A g \in S : new[g] = t[g]) /\ new = [g \in S |-> new[g]]
  BY DEF Restrict
<1> HIDE DEF new
<1>3. new \in Trees
  BY <1>1, <1>2, TreeIs
<1> QED  BY <1>2, <1>3 DEF new

\* The id of a new snapshot: it has neither a row nor a directory.
LEMMA FreshId ==
  ASSUME MissingAssumption, Fresh # {}
  PROVE  (CHOOSE i \in Fresh : \A j \in Fresh : i <= j) \in Fresh
<1> DEFINE R == OpToRel(<, Nat)
<1>1. Fresh \subseteq Nat
  BY DEF Fresh, Ids
<1>2. \A x, y \in Nat : y < x => <<y, x>> \in R
  BY DEF OpToRel
<1>3. IsWellFoundedOn(R, Nat)
  BY NatLessThanWellFounded
<1> HIDE DEF R
<1>4. PICK x \in Fresh : \A y \in Fresh : ~(<<y, x>> \in R)
  BY <1>1, <1>3, WFMin
<1>5. x \in Nat /\ \A y \in Fresh : y \in Nat /\ ~(y < x)
  BY <1>1, <1>2, <1>4
<1>6. \A y \in Fresh : x <= y
  BY <1>5
<1> QED  BY <1>6
-----------------------------------------------------------------------------
(***************************************************************************)
(* The steps                                                               *)
(***************************************************************************)
LEMMA NoJobIs ==
  /\ NoJob \in Jobs /\ NoJob.pc = "none" /\ NoJob.target = 0 /\ NoJob.left = {} /\ NoJob.done = 0
  /\ NoJob.id = 0
  BY DEF NoJob, Jobs, Pcs

LEMMA InitSound == Init => IndInv
<1> SUFFICES ASSUME Init PROVE IndInv
  OBVIOUS
<1>1. workspace \in Trees \cup {Missing}
  <2>1. \A x \in Contents : [f \in Files |-> x] \in [Files -> Contents]
    OBVIOUS
  <2>2. \A x \in Contents : [f \in Files |-> x] \in Trees
    BY <2>1 DEF Trees
  <2> QED  BY <2>2, EmptyTree DEF Init
<1>2. DOMAIN row = {} /\ job = NoJob /\ before = Missing /\ touched = FALSE
      /\ folder = [i \in Ids |-> Missing]
  BY DEF Init
<1> QED  BY <1>1, <1>2, NoJobIs DEF IndInv, TypeOK, RowsAreWhole, Copying, Restoring

\* A job that ends leaves what it has done.
LEMMA EndStep ==
  ASSUME IndInv, job' = NoJob, workspace' \in Trees \cup {Missing}, touched' \in BOOLEAN,
         UNCHANGED <<folder, row, before>>
  PROVE  IndInv'
  BY NoJobIs DEF IndInv, TypeOK, RowsAreWhole, Whole, Copying, Restoring

\* The runner: whatever a job knows of the workspace is void.
LEMMA RunnerSound == ASSUME IndInv, Runner PROVE IndInv'
<1>1. UNCHANGED <<folder, row, job, before>> /\ touched' = (job # NoJob)
  BY DEF Runner
<1>2. workspace' \in Trees
  <2>1. InWorkspace = {} \/ (workspace \in Trees /\ InWorkspace = DOMAIN workspace)
    BY DEF IndInv, TypeOK, InWorkspace
  <2>2. ASSUME NEW f \in Files, NEW x \in Contents,
               workspace' = [g \in InWorkspace \cup {f} |-> IF g = f THEN x ELSE workspace[g]]
        PROVE  workspace' \in Trees
    <3>1. workspace' = Put(workspace, InWorkspace, f, x)
      BY <2>2 DEF Put
    <3> QED  BY <2>1, <3>1, PutFile
  <2>3. ASSUME NEW f \in InWorkspace, workspace' = Restrict(workspace, InWorkspace \ {f})
        PROVE  workspace' \in Trees
    BY <2>1, <2>3, DropFile
  <2> QED  BY <2>2, <2>3 DEF Runner
<1>3. TypeOK' /\ RowsAreWhole' /\ (job.pc = "none" <=> job = NoJob)'
  BY <1>1, <1>2 DEF IndInv, TypeOK, RowsAreWhole, Whole
<1>4. CASE job = NoJob
  BY <1>1, <1>3, <1>4, NoJobIs DEF IndInv, Copying, Restoring
<1>5. CASE job # NoJob
  BY <1>1, <1>2, <1>3, <1>5 DEF IndInv, Copying, Restoring
<1> QED  BY <1>4, <1>5

\* A snapshot begins with an empty directory, if there is anything to copy.
LEMMA BeginSound ==
  ASSUME MissingAssumption, IndInv, NEW target \in {0} \cup DOMAIN row, Fresh # {},
         BeginCopy(CHOOSE i \in Fresh : \A j \in Fresh : i <= j, target),
         touched' = FALSE, UNCHANGED <<workspace, row>>,
         \/ target = 0 /\ before' = before
         \/ target # 0 /\ before' = workspace /\ InWorkspace # {}
  PROVE  IndInv'
<1> DEFINE i == CHOOSE n \in Fresh : \A j \in Fresh : n <= j
           new == IF workspace = Missing THEN Missing ELSE Empty
<1>1. i \in Ids /\ i \notin DOMAIN row /\ folder[i] = Missing
  BY FreshId DEF Fresh
<1>2. /\ folder' = [folder EXCEPT ![i] = new]
      /\ job' = [pc |-> "copy", id |-> i, target |-> target, left |-> InWorkspace, done |-> 0]
  BY DEF BeginCopy
<1> HIDE DEF i
<1>3. /\ workspace \in Trees \cup {Missing} /\ Missing \notin Trees
      /\ InWorkspace = IF workspace = Missing THEN {} ELSE DOMAIN workspace
      /\ InWorkspace \subseteq Files
  BY TreeHas DEF IndInv, TypeOK, MissingAssumption, InWorkspace
<1>4. /\ new \in Trees \cup {Missing} /\ (InWorkspace # {} => new = Empty /\ workspace \in Trees)
      /\ Empty \in Trees /\ DOMAIN Empty = {}
  BY <1>3, EmptyTree
<1> HIDE DEF new
<1>5. /\ job' \in Jobs /\ job'.pc = "copy" /\ job'.id = i /\ job'.target = target
      /\ job'.left = InWorkspace
  BY <1>1, <1>2, <1>3 DEF Jobs, Pcs, IndInv, TypeOK
<1>6. /\ folder' \in [Ids -> Trees \cup {Missing}] /\ folder'[i] = new
      /\ \A j \in Ids : j # i => folder'[j] = folder[j]
  BY <1>1, <1>2, <1>4 DEF IndInv, TypeOK
<1>7. TypeOK'
  BY <1>5, <1>6 DEF IndInv, TypeOK
<1>8. RowsAreWhole'
  BY <1>1, <1>6 DEF IndInv, TypeOK, RowsAreWhole, Whole
<1>9. Copying(job', folder', row', workspace', before', touched')
  BY <1>1, <1>3, <1>4, <1>5, <1>6 DEF Copying
<1> QED  BY <1>5, <1>7, <1>8, <1>9, NoJobIs DEF IndInv, Copying, Restoring

\* One more file is in the directory.
LEMMA CopyFileSound == ASSUME MissingAssumption, IndInv, CopyFile PROVE IndInv'
<1> DEFINE i == job.id
           old == folder[i]
<1>1. PICK f \in job.left :
        /\ f \in InWorkspace
        /\ folder' = [folder EXCEPT ![job.id] =
             [g \in DOMAIN @ \cup {f} |-> IF g = f THEN workspace[f] ELSE @[g]]]
        /\ job' = [job EXCEPT !.left = @ \ {f}]
  BY DEF CopyFile
<1>2. job.pc = "copy" /\ UNCHANGED <<workspace, row, before, touched>>
  BY DEF CopyFile
<1>3. i \in Ids /\ i \notin DOMAIN row /\ old \in Trees /\ job \in Jobs /\ f \in Files
  BY <1>1, <1>2 DEF IndInv, TypeOK, Copying, Jobs
<1>4. workspace \in Trees /\ f \in DOMAIN workspace /\ workspace[f] \in Contents
  BY <1>1, TreeHas DEF IndInv, TypeOK, InWorkspace
<1> DEFINE new == Put(old, DOMAIN old, f, workspace[f])
<1>5. /\ new \in Trees /\ DOMAIN new = DOMAIN old \cup {f} /\ new[f] = workspace[f]
      /\ \A g \in DOMAIN old \ {f} : new[g] = old[g]
  <2> HIDE DEF old, new
  <2>1. (old \in Trees /\ DOMAIN old = DOMAIN old) \/ DOMAIN old = {}
    BY <1>3
  <2> QED  BY <1>3, <1>4, <2>1, PutFile DEF new
<1>6. folder' = [folder EXCEPT ![i] = new]
  BY <1>1 DEF Put
<1> HIDE DEF new
<1>7. /\ folder' \in [Ids -> Trees \cup {Missing}] /\ folder'[i] = new
      /\ \A j \in Ids : j # i => folder'[j] = folder[j]
  BY <1>3, <1>5, <1>6 DEF IndInv, TypeOK
<1>8. /\ job' \in Jobs /\ job'.pc = "copy" /\ job'.id = i /\ job'.target = job.target
      /\ job'.left = job.left \ {f}
  BY <1>1, <1>2, <1>3 DEF Jobs
<1>9. TypeOK' /\ RowsAreWhole'
  BY <1>2, <1>3, <1>7, <1>8 DEF IndInv, TypeOK, RowsAreWhole, Whole
<1>10. Copying(job', folder', row', workspace', before', touched')
  <2>1. /\ job'.left # {} => folder'[i] # Missing
        /\ job'.target # 0 => job'.target \in DOMAIN row
    BY <1>2, <1>5, <1>7, <1>8 DEF IndInv, Copying, MissingAssumption
  <2>2. ASSUME job'.target # 0, ~touched
        PROVE  /\ before = workspace /\ job'.left \subseteq DOMAIN workspace
               /\ DOMAIN folder'[i] = DOMAIN workspace \ job'.left
               /\ \A g \in DOMAIN folder'[i] : folder'[i][g] = workspace[g]
    BY <1>1, <1>2, <1>4, <1>5, <1>7, <1>8, <2>2 DEF IndInv, Copying
  <2> QED  BY <1>2, <1>3, <1>4, <1>5, <1>7, <1>8, <2>1, <2>2 DEF Copying
<1> QED  BY <1>8, <1>9, <1>10, NoJobIs DEF IndInv, Restoring

\* The directory is complete when its row is saved.
LEMMA CreateRowSound == ASSUME MissingAssumption, IndInv, CreateRow PROVE IndInv'
<1> DEFINE i == job.id
<1>1. /\ job.pc = "copy" /\ job.left = {} /\ UNCHANGED <<workspace, folder, before, touched>>
      /\ i \in Ids /\ i \notin DOMAIN row /\ job \in Jobs
  BY DEF CreateRow, IndInv, TypeOK, Copying
<1>2. /\ DOMAIN row' = DOMAIN row \cup {i}
      /\ row'[i] = IF folder[i] = Missing THEN {} ELSE DOMAIN folder[i]
      /\ \A j \in DOMAIN row : row'[j] = row[j]
  BY <1>1 DEF CreateRow
<1>3. DOMAIN row' \subseteq Ids /\ RowsAreWhole'
  BY <1>1, <1>2 DEF IndInv, TypeOK, RowsAreWhole, Whole
<1>4. CASE job.target = 0 /\ job' = NoJob
  BY <1>1, <1>3, <1>4, NoJobIs DEF IndInv, TypeOK, Copying, Restoring
<1>5. CASE job.target # 0 /\ job' = [job EXCEPT !.pc = "check"]
  <2>1. /\ job' \in Jobs /\ job'.pc = "check" /\ job'.target = job.target
        /\ job.target \in DOMAIN row'
    BY <1>1, <1>2, <1>5 DEF Jobs, Pcs, IndInv, Copying
  <2>2. ASSUME ~touched PROVE folder[i] = before
    <3>1. /\ before \in Trees /\ folder[i] \in Trees /\ DOMAIN folder[i] = DOMAIN before
          /\ \A f \in DOMAIN before : folder[i][f] = before[f]
      BY <1>1, <1>5, <2>2 DEF IndInv, Copying
    <3>2. before = [f \in DOMAIN before |-> before[f]]
          /\ folder[i] = [f \in DOMAIN folder[i] |-> folder[i][f]]
      BY <3>1, TreeHas
    <3> QED  BY <3>1, <3>2
  <2>3. ~touched => Saved(folder', row', before')
    BY <1>1, <1>2, <2>2 DEF Saved
  <2> QED  BY <1>1, <1>3, <2>1, <2>3, NoJobIs DEF IndInv, TypeOK, Copying, Restoring
<1> QED  BY <1>4, <1>5 DEF CreateRow

LEMMA CreateSound == ASSUME MissingAssumption, IndInv, Create PROVE IndInv'
<1>1. BeginCopy(CHOOSE i \in Fresh : \A j \in Fresh : i <= j, 0)
  BY DEF Create
<1>2. Fresh # {} /\ touched' = FALSE /\ UNCHANGED <<workspace, row>> /\ before' = before
  BY DEF Create
<1> QED  BY <1>1, <1>2, BeginSound

\* A restore that takes no backup has nothing to save, or was forced.
LEMMA CheckStep ==
  ASSUME IndInv, NEW i \in DOMAIN row, job' = [NoJob EXCEPT !.pc = "check", !.target = i],
         before' \in {Missing, Empty}, touched' = FALSE, UNCHANGED <<workspace, folder, row>>
  PROVE  IndInv'
<1>1. /\ job' \in Jobs /\ job'.pc = "check" /\ job'.target = i
  <2>1. i \in Ids
    BY DEF IndInv, TypeOK
  <2> QED  BY <2>1 DEF Jobs, Pcs, NoJob
<1>2. TypeOK' /\ RowsAreWhole'
  BY <1>1, EmptyTree DEF IndInv, TypeOK, RowsAreWhole, Whole
<1>3. Saved(folder', row', before')
  BY DEF Saved
<1> QED  BY <1>1, <1>2, <1>3, NoJobIs DEF IndInv, Copying, Restoring

LEMMA RestoreSound ==
  ASSUME MissingAssumption, IndInv, NEW i \in Ids, Restore(i) \/ ForcedRestore(i) PROVE IndInv'
<1>1. i \in DOMAIN row /\ i # 0 /\ touched' = FALSE /\ UNCHANGED <<workspace, row>>
  BY DEF Restore, ForcedRestore, Ids
<1>2. CASE ForcedRestore(i)
  BY <1>1, <1>2, CheckStep DEF ForcedRestore
<1>3. CASE /\ Restore(i) /\ InWorkspace = {} /\ UNCHANGED folder
           /\ job' = [NoJob EXCEPT !.pc = "check", !.target = i]
  <2>1. workspace \in {Missing, Empty}
    BY <1>3, EmptyTree DEF InWorkspace, IndInv, TypeOK
  <2> QED  BY <1>1, <1>3, <2>1, CheckStep DEF Restore
<1>4. CASE /\ Restore(i) /\ InWorkspace # {} /\ Fresh # {}
           /\ BeginCopy(CHOOSE j \in Fresh : \A k \in Fresh : j <= k, i)
  BY <1>1, <1>4, BeginSound DEF Restore
<1> QED  BY <1>2, <1>3, <1>4 DEF Restore

\* What is not in the snapshot is to be deleted.
LEMMA CheckSound == ASSUME MissingAssumption, IndInv, Check PROVE IndInv'
<1>1. /\ job.pc = "check" /\ job \in Jobs /\ UNCHANGED <<folder, row, before, touched>>
      /\ job.target \in DOMAIN row /\ job.target \in Ids
      /\ workspace \in Trees \cup {Missing} /\ Missing \notin Trees
  BY DEF Check, IndInv, TypeOK, Restoring, MissingAssumption
<1>2. CASE job' = NoJob /\ UNCHANGED workspace
  BY <1>1, <1>2, EndStep DEF IndInv, TypeOK
<1>3. CASE /\ folder[job.target] # Missing
           /\ workspace' = IF workspace = Missing THEN Empty ELSE workspace
           /\ job' = [job EXCEPT !.pc = "clear", !.left = InWorkspace \ DOMAIN folder[job.target]]
  <2>1. workspace' \in Trees /\ InWorkspace = DOMAIN workspace' /\ InWorkspace \subseteq Files
    BY <1>1, <1>3, EmptyTree, TreeHas DEF InWorkspace
  <2>2. /\ job' \in Jobs /\ job'.pc = "clear" /\ job'.target = job.target
        /\ job'.left = InWorkspace \ DOMAIN folder[job.target]
    BY <1>1, <1>3, <2>1 DEF Jobs, Pcs
  <2>3. folder[job.target] \in Trees
    BY <1>1, <1>3 DEF IndInv, TypeOK
  <2>4. TypeOK' /\ RowsAreWhole'
    BY <1>1, <2>1, <2>2 DEF IndInv, TypeOK, RowsAreWhole, Whole
  <2> QED  BY <1>1, <2>1, <2>2, <2>3, <2>4, NoJobIs DEF IndInv, Copying, Restoring
<1> QED  BY <1>2, <1>3 DEF Check

\* A file that is not in the snapshot goes; when none is left, the files of
\* the snapshot are to come back.
LEMMA ClearSound == ASSUME MissingAssumption, IndInv, Clear PROVE IndInv'
<1> DEFINE from == folder[job.target]
<1>1. /\ job.pc = "clear" /\ job \in Jobs /\ UNCHANGED <<folder, row, before, touched>>
      /\ from \in Trees /\ workspace \in Trees
  BY DEF Clear, IndInv, TypeOK, Restoring
<1>2. ASSUME NEW f \in job.left, workspace' = Restrict(workspace, InWorkspace \ {f}),
             job' = [job EXCEPT !.left = @ \ {f}]
      PROVE  IndInv'
  <2>1. /\ job' \in Jobs /\ job'.pc = "clear" /\ job'.target = job.target
        /\ job'.left = job.left \ {f}
    BY <1>1, <1>2 DEF Jobs
  <2>2. InWorkspace = DOMAIN workspace
    BY <1>1 DEF InWorkspace, MissingAssumption
  <2>3. workspace' \in Trees /\ DOMAIN workspace' = InWorkspace \ {f}
    BY <1>1, <1>2, <2>2, DropFile
  <2>4. ~touched => job'.left = DOMAIN workspace' \ DOMAIN from
    BY <1>1, <2>1, <2>2, <2>3 DEF IndInv, Restoring
  <2>5. TypeOK' /\ RowsAreWhole'
    BY <1>1, <2>1, <2>3 DEF IndInv, TypeOK, RowsAreWhole, Whole
  <2> QED  BY <1>1, <2>1, <2>3, <2>4, <2>5, NoJobIs DEF IndInv, Copying, Restoring
<1>3. CASE /\ job.left = {} /\ UNCHANGED workspace
           /\ job' = [job EXCEPT !.pc = "back", !.left = DOMAIN from]
  <2>1. /\ job' \in Jobs /\ job'.pc = "back" /\ job'.target = job.target
        /\ job'.left = DOMAIN from
    BY <1>1, <1>3, TreeHas DEF Jobs, Pcs
  <2>2. ~touched => DOMAIN workspace \subseteq DOMAIN from
    BY <1>1, <1>3 DEF IndInv, Restoring
  <2>3. TypeOK' /\ RowsAreWhole'
    BY <1>1, <1>3, <2>1 DEF IndInv, TypeOK, RowsAreWhole, Whole
  <2> QED  BY <1>1, <1>3, <2>1, <2>2, <2>3, NoJobIs DEF IndInv, Copying, Restoring
<1> QED  BY <1>2, <1>3 DEF Clear

LEMMA CopyBackSound == ASSUME MissingAssumption, IndInv, CopyBack PROVE IndInv'
<1> DEFINE from == folder[job.target]
<1>1. /\ job.pc = "back" /\ job \in Jobs /\ UNCHANGED <<folder, row, before, touched>>
      /\ from \in Trees /\ workspace \in Trees /\ job.left \subseteq DOMAIN from
  BY DEF CopyBack, IndInv, TypeOK, Restoring
<1>2. PICK f \in job.left :
        /\ workspace' = [g \in InWorkspace \cup {f} |-> IF g = f THEN from[f] ELSE workspace[g]]
        /\ job' = [job EXCEPT !.left = @ \ {f}, !.done = @ + 1]
  BY DEF CopyBack
<1>3. /\ job' \in Jobs /\ job'.pc = "back" /\ job'.target = job.target
      /\ job'.left = job.left \ {f}
  <2>1. job.done + 1 \in Nat /\ job.left \ {f} \in SUBSET Files
    BY <1>1 DEF Jobs
  <2> QED  BY <1>1, <1>2, <2>1 DEF Jobs
<1>4. f \in Files /\ f \in DOMAIN from /\ from[f] \in Contents
  BY <1>1, TreeHas
<1>5. workspace' = Put(workspace, InWorkspace, f, from[f])
  BY <1>2 DEF Put
<1>6. InWorkspace = DOMAIN workspace
  BY <1>1 DEF InWorkspace, MissingAssumption
<1>7. /\ workspace' \in Trees /\ DOMAIN workspace' = InWorkspace \cup {f}
      /\ workspace'[f] = from[f] /\ \A g \in InWorkspace \ {f} : workspace'[g] = workspace[g]
  <2> DEFINE D == InWorkspace
             x == from[f]
  <2>1. ((workspace \in Trees /\ D = DOMAIN workspace) \/ D = {}) /\ x \in Contents
    BY <1>1, <1>4, <1>6
  <2>2. workspace' = Put(workspace, D, f, x)
    BY <1>5
  <2> DEFINE new == Put(workspace, D, f, x)
  <2> HIDE DEF D, x, new
  <2>3. /\ new \in Trees /\ DOMAIN new = D \cup {f} /\ new[f] = x
        /\ \A g \in D \ {f} : new[g] = workspace[g]
    BY <1>4, <2>1, PutFile DEF new
  <2> QED  BY <2>2, <2>3 DEF D, x, new
<1>8. ASSUME ~touched
      PROVE  /\ DOMAIN workspace' \subseteq DOMAIN from
             /\ \A g \in DOMAIN from \ job'.left : g \in DOMAIN workspace' /\ workspace'[g] = from[g]
  <2>1. /\ DOMAIN workspace \subseteq DOMAIN from
        /\ \A g \in DOMAIN from \ job.left : g \in DOMAIN workspace /\ workspace[g] = from[g]
    BY <1>1, <1>8 DEF IndInv, Restoring
  <2> HIDE DEF from
  <2> QED  BY <1>3, <1>4, <1>6, <1>7, <2>1
<1>9. TypeOK' /\ RowsAreWhole'
  BY <1>1, <1>3, <1>7 DEF IndInv, TypeOK, RowsAreWhole, Whole
<1> QED  BY <1>1, <1>3, <1>7, <1>8, <1>9, NoJobIs DEF IndInv, Copying, Restoring

LEMMA FinishSound == ASSUME IndInv, Finish PROVE IndInv'
<1>1. /\ job.pc = "back" /\ job.left = {} /\ job \in Jobs
      /\ UNCHANGED <<workspace, folder, row, before, touched>>
  BY DEF Finish, IndInv, TypeOK
<1>2. CASE job' = NoJob
  BY <1>1, <1>2, EndStep DEF IndInv, TypeOK
<1>3. CASE job' = [job EXCEPT !.pc = "restored"]
  <2>1. /\ job' \in Jobs /\ job'.pc = "restored" /\ job'.target = job.target /\ job'.left = {}
    BY <1>1, <1>3 DEF Jobs, Pcs
  <2>2. TypeOK' /\ RowsAreWhole'
    BY <1>1, <2>1 DEF IndInv, TypeOK, RowsAreWhole, Whole
  <2> QED  BY <1>1, <2>1, <2>2, NoJobIs DEF IndInv, Copying, Restoring
<1> QED  BY <1>2, <1>3 DEF Finish

LEMMA NextSound == ASSUME MissingAssumption, IndInv, [Next]_vars PROVE IndInv'
<1>1. CASE Runner \/ Create \/ CopyFile \/ CreateRow
  BY <1>1, RunnerSound, CreateSound, CopyFileSound, CreateRowSound
<1>2. ASSUME NEW i \in Ids, Restore(i) \/ ForcedRestore(i) PROVE IndInv'
  BY <1>2, RestoreSound
<1>3. CASE Check \/ Clear \/ CopyBack \/ Finish
  BY <1>3, CheckSound, ClearSound, CopyBackSound, FinishSound
<1>4. CASE Reply \/ Fault \/ Vanished
  BY <1>4, EndStep DEF Reply, Fault, Vanished, IndInv, TypeOK
<1>5. CASE UNCHANGED vars
  BY <1>5 DEF vars, IndInv, TypeOK, RowsAreWhole, Whole, Copying, Restoring
<1> QED  BY <1>1, <1>2, <1>3, <1>4, <1>5 DEF Next

LEMMA Invariance == ASSUME MissingAssumption PROVE Spec => []IndInv
<1>1. Init => IndInv
  BY InitSound
<1>2. IndInv /\ [Next]_vars => IndInv'
  BY NextSound
<1> QED  BY <1>1, <1>2, PTL DEF Spec
-----------------------------------------------------------------------------
(***************************************************************************)
(* The theorems                                                            *)
(***************************************************************************)
\* A snapshot can be trusted: it is what its row says, a restore that reports
\* success brought back exactly that, and from the first file a restore
\* deletes what it replaces is in a saved snapshot.
THEOREM SnapshotsRestoreHolds == ASSUME MissingAssumption PROVE Spec => []SnapshotsRestore
<1>1. IndInv => RestoredIsExact
  <2> SUFFICES ASSUME IndInv, job.pc = "restored", ~touched PROVE workspace = folder[job.target]
    BY DEF RestoredIsExact
  <2> DEFINE from == folder[job.target]
  <2>1. /\ workspace \in Trees /\ from \in Trees /\ DOMAIN workspace = DOMAIN from
        /\ \A f \in DOMAIN from : workspace[f] = from[f]
    BY DEF IndInv, Restoring
  <2>2. workspace = [f \in DOMAIN workspace |-> workspace[f]] /\ from = [f \in DOMAIN from |-> from[f]]
    BY <2>1, TreeHas
  <2> QED  BY <2>1, <2>2
<1>2. IndInv => UndoIsUndoable
  BY DEF IndInv, Restoring, Saved, UndoIsUndoable
<1>3. IndInv => SnapshotsRestore
  BY <1>1, <1>2 DEF IndInv, SnapshotsRestore
<1> QED  BY <1>3, Invariance, PTL

\* What a restore has saved outlives it: no step, no failure and no death in
\* the middle of another job changes or drops a saved snapshot, its row or its
\* files.
THEOREM SavedStaysHolds == ASSUME MissingAssumption PROVE Spec => [][SavedStays]_vars
<1>1. ASSUME IndInv, [Next]_vars PROVE SavedStays \/ UNCHANGED vars
  <2>1. CASE UNCHANGED <<row, folder>>
    BY <2>1 DEF SavedStays
  <2>2. CASE CreateRow
    BY <1>1, <2>2 DEF CreateRow, SavedStays, IndInv, Copying
  <2>3. CASE CopyFile
    BY <1>1, <2>3 DEF CopyFile, SavedStays, IndInv, TypeOK, Copying
  <2>4. ASSUME NEW target, Fresh # {}, UNCHANGED row,
               BeginCopy(CHOOSE i \in Fresh : \A j \in Fresh : i <= j, target)
        PROVE  SavedStays
    <3> DEFINE i == CHOOSE n \in Fresh : \A j \in Fresh : n <= j
    <3>1. i \in Ids /\ i \notin DOMAIN row
      BY <2>4, FreshId DEF Fresh
    <3> HIDE DEF i
    <3> QED  BY <1>1, <2>4, <3>1 DEF BeginCopy, SavedStays, IndInv, TypeOK, i
  <2> QED  BY <1>1, <2>1, <2>2, <2>3, <2>4
           DEF Next, vars, Runner, Create, Restore, ForcedRestore, Check, Clear, CopyBack,
               Finish, Reply, Fault, Vanished
<1> QED  BY <1>1, Invariance, PTL DEF Spec
-----------------------------------------------------------------------------
(***************************************************************************)
(* The scene of a plan, for any plan of known tools and any number of      *)
(* attempts and faults.  A retry may restore the scene of before the step, *)
(* so the invariant speaks of both scenes: what was answered is in both,   *)
(* and all that is in them was answered or struck by a fault.  An answer   *)
(* is read from a file that an earlier attempt may have written, so it     *)
(* also says what that file is worth while the process has just ended.     *)
(***************************************************************************)
CONSTANTS
  Plan,         \* the plan of BlenderRuns, and its bounds
  MaxAttempts,
  MaxDamage

VARIABLES
  result,  \* the rest of the state of BlenderRuns
  damage

Blender == INSTANCE BlenderRuns WITH MaxFaults <- MaxDamage, faults <- damage

\* What meshes are called, and the scenes that may be saved.
Mesh == {step.name : step \in Blender!Range(Plan)} \X Nat
Scenes == [meshes : Seq(Mesh), active : Mesh \cup {None}, log : Seq(Nat \X Nat)]

\* The object that is active exists, and each name is in the scene once.
Sound(s) ==
  /\ s \in Scenes
  /\ s.active # None => \E k \in DOMAIN s.meshes : s.meshes[k] = s.active
  /\ \A k, l \in DOMAIN s.meshes : s.meshes[k] = s.meshes[l] => k = l

\* The attempts that a scene holds, each of them once.
Holds(s, a) == \E k \in DOMAIN s.log : s.log[k] = a
HoldsOnce(s) == \A k, l \in DOMAIN s.log : s.log[k] = s.log[l] => k = l

\* The steps that were answered are in it, ...
Kept(s, do, bl) == \A i \in DOMAIN do : <<i, do[i]>> \notin bl => Holds(s, <<i, do[i]>>)
\* ... and it holds what was answered or was struck by a fault.
Explained(a, do, st) == (a[1] \in DOMAIN do /\ do[a[1]] = a[2]) \/ a \in st

SceneTypeOK ==
  /\ done \in Seq(Nat)
  /\ run \in [pc : {"idle", "started", "applied", "failed", "saved", "ended"},
              step : Nat, attempt : Nat, scene : Scenes \cup {None}, code : {0, 1},
              before : Scenes \cup {None}]
  /\ result \in [DOMAIN Plan -> [ok : BOOLEAN, attempt : Nat] \cup {None}]
  /\ run.step \in {Len(done), Len(done) + 1} /\ run.step <= Len(Plan)
  /\ run.pc # "idle" => run.step = Len(done) + 1

\* The saved scene, in which the attempt that runs is from its save on.
SavedScene ==
  /\ Sound(blend) /\ HoldsOnce(blend) /\ Kept(blend, done, blind)
  /\ \A k \in DOMAIN blend.log :
       /\ blend.log[k][1] \in 1 .. run.step
       /\ blend.log[k][1] = run.step => blend.log[k][2] <= run.attempt
       /\ Explained(blend.log[k], done, struck) \/ (run.pc # "idle" /\ blend.log[k] = Attempt)
  /\ run.pc \in {"started", "applied", "failed"} => ~Holds(blend, Attempt)
  /\ run.pc = "saved" => Holds(blend, Attempt)

\* The scene that a retry of the step may restore.
SceneBefore ==
  run.step = Len(done) + 1 =>
    /\ Sound(run.before) /\ HoldsOnce(run.before) /\ Kept(run.before, done, blind)
    /\ \A k \in DOMAIN run.before.log :
         /\ run.before.log[k][1] \in 1 .. Len(done)
         /\ Explained(run.before.log[k], done, struck)

ReadyToSave ==
  run.pc = "applied" =>
    run.scene = blend /\ Blender!Applied(blend, Plan[run.step]) # None

\* What the adapter reads once the process ended is about its own attempt.
ResultIsOwn ==
  run.pc = "ended" =>
    /\ Holds(blend, Attempt) /\ Attempt \notin struck =>
         run.code = 0 /\ result[run.step] # None /\ result[run.step].ok
    /\ run.code = 0 => Attempt \in blind \/ result[run.step].ok = Holds(blend, Attempt)

SceneInv == SceneTypeOK /\ SavedScene /\ SceneBefore /\ ReadyToSave /\ ResultIsOwn

-----------------------------------------------------------------------------
(* The operators                                                           *)
-----------------------------------------------------------------------------
\* The copies of library operators that an instance brings are what they are
\* elsewhere.
LEMMA RangesAgree == ASSUME NEW f PROVE Blender!Range(f) = {f[x] : x \in DOMAIN f}
BY DEF Blender!Range

\* A name of which every suffix up to the number of meshes were taken would have
\* more meshes than there are.
LEMMA SuffixIsFree ==
  ASSUME NEW s \in Scenes, NEW name, <<name, 0>> \in Blender!Range(s.meshes)
  PROVE  \E n \in 1 .. Len(s.meshes) : <<name, n>> \notin Blender!Range(s.meshes)
<1> SUFFICES ASSUME \A n \in 1 .. Len(s.meshes) : <<name, n>> \in Blender!Range(s.meshes)
             PROVE  FALSE
  OBVIOUS
<1> DEFINE L == Len(s.meshes)
           at == [n \in 0 .. L |-> CHOOSE k \in 1 .. L : s.meshes[k] = <<name, n>>]
<1>1. L \in Nat /\ DOMAIN s.meshes = 1 .. L
  BY DEF Scenes
<1>2. \A n \in 0 .. L : \E k \in 1 .. L : s.meshes[k] = <<name, n>>
  <2> TAKE n \in 0 .. L
  <2>1. n = 0 \/ n \in 1 .. L
    BY <1>1
  <2> QED BY <2>1, <1>1, RangesAgree
<1>3. \A n \in 0 .. L : at[n] \in 1 .. L /\ s.meshes[at[n]] = <<name, n>>
  BY <1>2
<1>4. at \in [0 .. L -> 1 .. L]
  BY <1>3
<1>5. IsFiniteSet(0 .. L) /\ IsFiniteSet(1 .. L) /\ Cardinality(1 .. L) < Cardinality(0 .. L)
  <2>1. Cardinality(0 .. L) = L + 1 /\ Cardinality(1 .. L) = L
    BY FS_Interval, <1>1
  <2> QED BY FS_Interval, <1>1, <2>1
<1>6. PICK x, y \in 0 .. L : x # y /\ at[x] = at[y]
  <2> HIDE DEF at
  <2> QED BY <1>4, <1>5, FS_PigeonHole
<1> HIDE DEF at
<1>7. <<name, x>> = <<name, y>>
  BY <1>6, <1>3
<1> QED BY <1>6, <1>7

\* A new mesh has a name that no other has.
LEMMA FreshIsFresh ==
  ASSUME NEW s \in Scenes, NEW name, name \in {step.name : step \in Blender!Range(Plan)}
  PROVE  Blender!FreshName(s, name) \in Mesh
         /\ Blender!FreshName(s, name) \notin Blender!Range(s.meshes)
<1>1. CASE <<name, 0>> \notin Blender!Range(s.meshes)
  BY <1>1 DEF Blender!FreshName, Blender!Named, Mesh
<1>2. CASE <<name, 0>> \in Blender!Range(s.meshes)
  <2>1. PICK n \in 1 .. Len(s.meshes) : Blender!FreshName(s, name) = <<name, n>>
                                       /\ <<name, n>> \notin Blender!Range(s.meshes)
    BY <1>2, SuffixIsFree DEF Blender!FreshName, Blender!Named
  <2>2. n \in Nat
    BY <2>1 DEF Scenes
  <2> QED BY <2>1, <2>2 DEF Mesh
<1> QED BY <1>1, <1>2

\* What a step refers to is in the scene.
LEMMA ResolvedExists ==
  ASSUME NEW s, Sound(s), NEW name, Blender!Resolved(s, name) # None
  PROVE  Blender!Resolved(s, name) \in Mesh
         /\ \E k \in DOMAIN s.meshes : s.meshes[k] = Blender!Resolved(s, name)
<1>1. s.meshes \in Seq(Mesh) /\ s.active \in Mesh \cup {None}
  BY DEF Sound, Scenes
<1>2. ASSUME s.meshes # <<>> PROVE 1 \in DOMAIN s.meshes /\ Head(s.meshes) = s.meshes[1]
  BY <1>1, <1>2
<1>3. \A k \in DOMAIN s.meshes : s.meshes[k] \in Mesh
  BY <1>1
<1>4. \E k \in DOMAIN s.meshes : s.meshes[k] = Blender!Resolved(s, name)
  BY <1>2, RangesAgree DEF Sound, Blender!Resolved, Blender!Named
<1> QED BY <1>3, <1>4

\* Without deletes one mesh and moves the others up.
LEMMA WithoutDeletes ==
  ASSUME NEW s, Sound(s), NEW m, \E k \in DOMAIN s.meshes : s.meshes[k] = m
  PROVE  /\ Blender!Without(s.meshes, m) \in Seq(Mesh)
         /\ \A k \in DOMAIN s.meshes : s.meshes[k] # m =>
              \E j \in DOMAIN Blender!Without(s.meshes, m) :
                Blender!Without(s.meshes, m)[j] = s.meshes[k]
         /\ \A j, l \in DOMAIN Blender!Without(s.meshes, m) :
              Blender!Without(s.meshes, m)[j] = Blender!Without(s.meshes, m)[l] => j = l
<1> DEFINE q == s.meshes
           at == CHOOSE k \in DOMAIN q : q[k] = m
           t == Blender!Without(q, m)
<1>1. q \in Seq(Mesh) /\ Len(q) \in Nat /\ DOMAIN q = 1 .. Len(q)
  BY DEF Sound, Scenes
<1>2. at \in 1 .. Len(q) /\ q[at] = m
  BY <1>1
<1>3. \A k, l \in 1 .. Len(q) : q[k] = q[l] => k = l
  BY <1>1 DEF Sound
<1>4. t = SubSeq(q, 1, at - 1) \o SubSeq(q, at + 1, Len(q))
  BY DEF Blender!Without, Blender!RemoveAt
<1> HIDE DEF q, at, t
<1>5. /\ t \in Seq(Mesh) /\ Len(t) = Len(q) - 1
      /\ \A j \in 1 .. Len(q) - 1 : t[j] = IF j < at THEN q[j] ELSE q[j + 1]
  <2> DEFINE a == SubSeq(q, 1, at - 1)
             b == SubSeq(q, at + 1, Len(q))
  <2>1. a \in Seq(Mesh) /\ Len(a) = at - 1 /\ \A j \in 1 .. at - 1 : a[j] = q[j]
    BY <1>1, <1>2
  <2>2. b \in Seq(Mesh) /\ Len(b) = Len(q) - at /\ \A j \in 1 .. Len(q) - at : b[j] = q[at + j]
    <3>1. /\ b \in Seq(Mesh)
          /\ Len(b) = IF at + 1 <= Len(q) THEN Len(q) - (at + 1) + 1 ELSE 0
          /\ \A j \in 1 .. Len(q) - (at + 1) + 1 : b[j] = q[(at + 1) + j - 1]
      <4>1. at + 1 \in Int /\ Len(q) \in Int /\ \A i \in at + 1 .. Len(q) : q[i] \in Mesh
        BY <1>1, <1>2
      <4> HIDE DEF q, at
      <4> QED BY <4>1, SubSeqProperties
    <3> HIDE DEF b
    <3>2. Len(b) = Len(q) - at
      <4>1. at \in Int /\ Len(q) \in Int /\ at <= Len(q)
        BY <1>1, <1>2
      <4>2. CASE at + 1 <= Len(q)
        BY <4>1, <4>2, <3>1
      <4>3. CASE ~(at + 1 <= Len(q))
        BY <4>1, <4>3, <3>1
      <4> QED BY <4>2, <4>3
    <3>3. ASSUME NEW j \in 1 .. Len(q) - at PROVE b[j] = q[at + j]
      <4>1. j \in 1 .. Len(q) - (at + 1) + 1 /\ (at + 1) + j - 1 = at + j
        BY <1>1, <1>2
      <4> QED BY <4>1, <3>1
    <3> QED BY <3>1, <3>2, <3>3
  <2> HIDE DEF a, b
  <2>3. t = a \o b
    BY <1>4 DEF a, b
  <2>4. /\ t \in Seq(Mesh) /\ Len(t) = Len(a) + Len(b)
        /\ \A j \in 1 .. Len(a) + Len(b) : t[j] = IF j <= Len(a) THEN a[j] ELSE b[j - Len(a)]
    BY <2>1, <2>2, <2>3, ConcatProperties
  <2>5. ASSUME NEW j \in 1 .. Len(q) - 1 PROVE t[j] = IF j < at THEN q[j] ELSE q[j + 1]
    <3>1. CASE j < at
      BY <3>1, <2>1, <2>4, <2>2, <1>1, <1>2
    <3>2. CASE j >= at
      <4>1. j - Len(a) \in 1 .. Len(q) - at /\ at + (j - Len(a)) = j + 1
        BY <3>2, <2>1, <1>1, <1>2
      <4>2. j \in 1 .. Len(a) + Len(b) /\ ~(j <= Len(a))
        BY <3>2, <2>1, <2>2, <1>1, <1>2
      <4>3. t[j] = b[j - Len(a)]
        BY <4>2, <2>4
      <4> QED BY <4>1, <4>3, <2>2, <3>2, <1>1, <1>2
    <3> QED BY <3>1, <3>2, <1>2
  <2> QED BY <2>1, <2>2, <2>4, <2>5, <1>1, <1>2
<1>6. DOMAIN t = 1 .. Len(q) - 1
  BY <1>5, <1>1
<1>7. ASSUME NEW k \in 1 .. Len(q), q[k] # m PROVE \E j \in DOMAIN t : t[j] = q[k]
  <2>1. k # at
    BY <1>2, <1>7
  <2>2. CASE k < at
    <3>1. k \in 1 .. Len(q) - 1 /\ t[k] = q[k]
      BY <2>2, <1>1, <1>2, <1>5
    <3> QED BY <3>1, <1>6
  <2>3. CASE k > at
    <3>1. k - 1 \in 1 .. Len(q) - 1 /\ t[k - 1] = q[k]
      BY <2>3, <1>1, <1>2, <1>5
    <3> QED BY <3>1, <1>6
  <2> QED BY <2>1, <2>2, <2>3, <1>1, <1>2
<1>8. ASSUME NEW j \in DOMAIN t, NEW l \in DOMAIN t, t[j] = t[l] PROVE j = l
  <2> DEFINE f(i) == IF i < at THEN i ELSE i + 1
  <2>1. f(j) \in 1 .. Len(q) /\ f(l) \in 1 .. Len(q)
    BY <1>1, <1>2, <1>6
  <2>2. t[j] = q[f(j)] /\ t[l] = q[f(l)]
    BY <1>5, <1>6
  <2>3. f(j) = f(l)
    <3> HIDE DEF f
    <3> QED BY <2>1, <2>2, <1>3, <1>8
  <2> QED BY <2>3, <1>1, <1>2, <1>6
<1> QED BY <1>1, <1>5, <1>7, <1>8 DEF q, t

-----------------------------------------------------------------------------
(* The tools                                                               *)
-----------------------------------------------------------------------------

\* A tool that does not raise leaves a sound scene and does not touch its log.
LEMMA CreatedIsSound ==
  ASSUME NEW s, Sound(s), NEW step \in Blender!Range(Plan)
  PROVE  Sound(Blender!Created(s, step)) /\ Blender!Created(s, step).log = s.log
<1> DEFINE name == Blender!FreshName(s, step.name)
           t == Blender!Created(s, step)
<1>1. /\ s.meshes \in Seq(Mesh) /\ Len(s.meshes) \in Nat /\ DOMAIN s.meshes = 1 .. Len(s.meshes)
      /\ s \in Scenes
  BY DEF Sound, Scenes
<1>2. name \in Mesh /\ name \notin Blender!Range(s.meshes)
  <2>1. step.name \in {x.name : x \in Blender!Range(Plan)}
    OBVIOUS
  <2> QED BY <1>1, <2>1, FreshIsFresh
<1>3. \A k \in DOMAIN s.meshes : s.meshes[k] # name
  BY <1>2, RangesAgree
<1> HIDE DEF name
<1>4. t = [s EXCEPT !.meshes = Append(s.meshes, name), !.active = name]
  BY DEF name, Blender!Created
<1> HIDE DEF t
<1>5. t \in Scenes /\ t.meshes = Append(s.meshes, name) /\ t.active = name /\ t.log = s.log
  <2>1. Append(s.meshes, name) \in Seq(Mesh)
    BY <1>1, <1>2
  <2> QED BY <2>1, <1>1, <1>2, <1>4 DEF Scenes
<1>6. /\ Len(t.meshes) = Len(s.meshes) + 1 /\ DOMAIN t.meshes = 1 .. Len(s.meshes) + 1
      /\ t.meshes[Len(s.meshes) + 1] = name
      /\ \A k \in 1 .. Len(s.meshes) : t.meshes[k] = s.meshes[k]
  BY <1>1, <1>2, <1>5
<1>7. \E k \in DOMAIN t.meshes : t.meshes[k] = t.active
  <2>1. Len(s.meshes) + 1 \in DOMAIN t.meshes
    BY <1>1, <1>6
  <2> QED BY <2>1, <1>5, <1>6
<1>8. ASSUME NEW k \in DOMAIN t.meshes, NEW l \in DOMAIN t.meshes, t.meshes[k] = t.meshes[l]
      PROVE  k = l
  <2>1. /\ k \in 1 .. Len(s.meshes) \/ k = Len(s.meshes) + 1
        /\ l \in 1 .. Len(s.meshes) \/ l = Len(s.meshes) + 1
    BY <1>1, <1>6
  <2> QED BY <2>1, <1>8, <1>6, <1>3, <1>1 DEF Sound
<1>9. Sound(t)
  BY <1>5, <1>7, <1>8 DEF Sound
<1> QED BY <1>9, <1>5 DEF t

LEMMA OnEveryMeshIsSound ==
  ASSUME NEW s, Sound(s), Blender!OnEveryMesh(s) # None
  PROVE  Sound(Blender!OnEveryMesh(s)) /\ Blender!OnEveryMesh(s).log = s.log
<1>1. /\ s.meshes \in Seq(Mesh) /\ s.meshes # <<>> /\ s \in Scenes
      /\ Blender!OnEveryMesh(s) = [s EXCEPT !.active = s.meshes[Len(s.meshes)]]
  BY DEF Blender!OnEveryMesh, Blender!Last, Sound, Scenes
<1> DEFINE t == Blender!OnEveryMesh(s)
<1>2. Len(s.meshes) \in DOMAIN s.meshes /\ s.meshes[Len(s.meshes)] \in Mesh
  BY <1>1
<1> HIDE DEF t
<1>3. t \in Scenes /\ t.meshes = s.meshes /\ t.active = s.meshes[Len(s.meshes)] /\ t.log = s.log
  BY <1>1, <1>2 DEF Scenes, t
<1>4. Sound(t)
  BY <1>2, <1>3 DEF Sound
<1> QED BY <1>3, <1>4 DEF t

LEMMA BooleanIsSound ==
  ASSUME NEW s, Sound(s), NEW step, Blender!Boolean(s, step) # None
  PROVE  Sound(Blender!Boolean(s, step)) /\ Blender!Boolean(s, step).log = s.log
<1> DEFINE target == Blender!Resolved(s, step.name)
           other == Blender!Resolved(s, step.other)
           t == Blender!Boolean(s, step)
           left == IF step.keep THEN s.meshes ELSE Blender!Without(s.meshes, other)
<1>1. target # None /\ other # None /\ target # other
      /\ t = [s EXCEPT !.meshes = left, !.active = target]
  BY DEF Blender!Boolean
<1>2. /\ target \in Mesh /\ \E k \in DOMAIN s.meshes : s.meshes[k] = target
      /\ other \in Mesh /\ \E k \in DOMAIN s.meshes : s.meshes[k] = other
  BY <1>1, ResolvedExists
<1> HIDE DEF target, other
<1>3. /\ left \in Seq(Mesh) /\ \E k \in DOMAIN left : left[k] = target
      /\ \A k, l \in DOMAIN left : left[k] = left[l] => k = l
  <2>1. CASE step.keep
    BY <2>1, <1>2 DEF Sound, Scenes
  <2>2. CASE ~step.keep
    <3>1. left = Blender!Without(s.meshes, other)
      BY <2>2
    <3> HIDE DEF left
    <3>2. /\ Blender!Without(s.meshes, other) \in Seq(Mesh)
          /\ \A k \in DOMAIN s.meshes : s.meshes[k] # other =>
               \E j \in DOMAIN Blender!Without(s.meshes, other) :
                 Blender!Without(s.meshes, other)[j] = s.meshes[k]
          /\ \A j, l \in DOMAIN Blender!Without(s.meshes, other) :
               Blender!Without(s.meshes, other)[j] = Blender!Without(s.meshes, other)[l] => j = l
      BY <1>2, WithoutDeletes
    <3> QED BY <3>1, <3>2, <1>1, <1>2
  <2> QED BY <2>1, <2>2
<1> HIDE DEF left, t
<1>4. s \in Scenes
  BY DEF Sound
<1>5. t \in Scenes /\ t.meshes = left /\ t.active = target /\ t.log = s.log
  BY <1>1, <1>2, <1>3, <1>4 DEF Scenes
<1>6. Sound(t)
  BY <1>3, <1>5 DEF Sound
<1> QED BY <1>5, <1>6 DEF t

LEMMA AppliedIsSound ==
  ASSUME NEW s, Sound(s), NEW step \in Blender!Range(Plan), step.tool \in Blender!Tools,
         Blender!Applied(s, step) # None
  PROVE  Sound(Blender!Applied(s, step)) /\ Blender!Applied(s, step).log = s.log
<1>1. CASE step.tool = "create"
  <2>1. Blender!Applied(s, step) = Blender!Created(s, step)
    BY <1>1 DEF Blender!Applied
  <2> QED BY <2>1, CreatedIsSound
<1>2. CASE step.tool = "bevel"
  <2>1. Blender!Applied(s, step) = Blender!OnEveryMesh(s)
    BY <1>2 DEF Blender!Applied
  <2> QED BY <2>1, OnEveryMeshIsSound
<1>3. CASE step.tool = "boolean"
  <2>1. Blender!Applied(s, step) = Blender!Boolean(s, step)
    BY <1>3 DEF Blender!Applied
  <2> QED BY <2>1, BooleanIsSound
<1>4. CASE step.tool = "material"
  <2>1. Blender!Applied(s, step) = s
    BY <1>4 DEF Blender!Applied, Blender!OnOne
  <2> QED BY <2>1
<1>5. CASE step.tool = "export"
  <2>1. Blender!Applied(s, step) = s
    BY <1>5 DEF Blender!Applied, Blender!Exported
  <2> QED BY <2>1
<1>6. CASE step.tool = "printability"
  <2>1. Blender!Applied(s, step) = s
    BY <1>6 DEF Blender!Applied
  <2> QED BY <2>1
<1> QED BY <1>1, <1>2, <1>3, <1>4, <1>5, <1>6 DEF Blender!Tools

-----------------------------------------------------------------------------
(* The steps                                                               *)
-----------------------------------------------------------------------------
\* What a step of the plan is.
LEMMA StepOfPlan ==
  ASSUME Blender!PlanAssumption
  PROVE  /\ Len(Plan) \in Nat /\ DOMAIN Plan = 1 .. Len(Plan)
         /\ \A i \in 1 .. Len(Plan) : Plan[i] \in Blender!Range(Plan) /\ Plan[i].tool \in Blender!Tools
<1>1. Plan \in Seq(Blender!Range(Plan))
  BY DEF Blender!PlanAssumption
<1>2. Len(Plan) \in Nat /\ DOMAIN Plan = 1 .. Len(Plan)
  BY <1>1
<1>3. \A i \in 1 .. Len(Plan) : Plan[i] \in Blender!Range(Plan)
  BY <1>2, RangesAgree
<1> QED BY <1>2, <1>3 DEF Blender!PlanAssumption

\* A step that leaves the saved scene, the answers and the attempt alone and
\* records faults keeps what is said of the scenes.
LEMMA QuietStep ==
  ASSUME SceneTypeOK, SavedScene, SceneBefore,
         blend' = blend, done' = done,
         run'.step = run.step, run'.attempt = run.attempt, run'.before = run.before,
         struck \subseteq struck', blind \subseteq blind', run.pc # "idle",
         run'.pc \in {"started", "applied", "failed"} => ~Holds(blend, Attempt),
         run'.pc = "saved" => Holds(blend, Attempt),
         run'.pc = "idle" => Attempt \in struck'
  PROVE  SavedScene' /\ SceneBefore'
<1>1. Attempt' = Attempt
  BY DEF Attempt
<1>2. ASSUME NEW s, Kept(s, done, blind) PROVE Kept(s, done', blind')
  BY <1>2 DEF Kept
<1>3. ASSUME NEW a, Explained(a, done, struck) PROVE Explained(a, done', struck')
  BY <1>3 DEF Explained
<1>4. SavedScene'
  <2>1. Sound(blend') /\ HoldsOnce(blend') /\ Kept(blend', done', blind')
    BY <1>2 DEF SavedScene
  <2>2. ASSUME NEW k \in DOMAIN blend.log
        PROVE  /\ blend.log[k][1] \in 1 .. run'.step
               /\ blend.log[k][1] = run'.step => blend.log[k][2] <= run'.attempt
               /\ Explained(blend.log[k], done', struck') \/ (run'.pc # "idle" /\ blend.log[k] = Attempt')
    <3>1. Explained(blend.log[k], done, struck) \/ blend.log[k] = Attempt
      BY DEF SavedScene
    <3>2. CASE blend.log[k] = Attempt /\ run'.pc = "idle"
      BY <3>2 DEF Explained, SavedScene
    <3> QED BY <3>1, <3>2, <1>1, <1>3 DEF SavedScene
  <2>3. /\ run'.pc \in {"started", "applied", "failed"} => ~Holds(blend', Attempt')
        /\ run'.pc = "saved" => Holds(blend', Attempt')
    BY <1>1
  <2> QED BY <2>1, <2>2, <2>3 DEF SavedScene
<1>5. SceneBefore'
  BY <1>2, <1>3 DEF SceneBefore
<1> QED BY <1>4, <1>5

LEMMA ExecuteKeepsScenes ==
  ASSUME Blender!PlanAssumption, SceneInv, Blender!Execute
  PROVE  SceneInv'
<1>1. /\ run.pc = "started" /\ UNCHANGED <<blend, result, done, struck, blind>>
      /\ run'.step = run.step /\ run'.attempt = run.attempt /\ run'.before = run.before
      /\ run'.scene = blend /\ run'.code = run.code
      /\ run' \in [pc : {"failed", "applied"}, step : Nat, attempt : Nat,
                   scene : Scenes \cup {None}, code : {0, 1}, before : Scenes \cup {None}]
      /\ run'.pc = "applied" => Blender!Applied(blend, Plan[run.step]) # None
  <2>1. blend \in Scenes
    BY DEF SceneInv, SavedScene, Sound
  <2> DEFINE p == IF Blender!Applied(blend, Plan[run.step]) = None THEN "failed" ELSE "applied"
  <2>2. run.pc = "started" /\ UNCHANGED <<blend, result, done, struck, blind>>
        /\ run' = [run EXCEPT !.scene = blend, !.pc = p]
    BY DEF Blender!Execute
  <2>3. p \in {"failed", "applied"} /\ (p = "applied" => Blender!Applied(blend, Plan[run.step]) # None)
    OBVIOUS
  <2> HIDE DEF p
  <2> QED BY <2>1, <2>2, <2>3 DEF SceneInv, SceneTypeOK
<1>2. SavedScene' /\ SceneBefore'
  <2>1. ~Holds(blend, Attempt)
    BY <1>1 DEF SceneInv, SavedScene
  <2> QED BY <2>1, <1>1, QuietStep DEF SceneInv
<1>3. SceneTypeOK'
  BY <1>1 DEF SceneInv, SceneTypeOK
<1>4. ReadyToSave' /\ ResultIsOwn'
  BY <1>1 DEF ReadyToSave, ResultIsOwn
<1> QED BY <1>2, <1>3, <1>4 DEF SceneInv

LEMMA WriteResultKeepsScenes ==
  ASSUME Blender!PlanAssumption, Blender!NoneAssumption, SceneInv, Blender!WriteResult
  PROVE  SceneInv'
<1> DEFINE ok == run.pc = "saved"
           new == [ok |-> ok, attempt |-> run.attempt]
<1>1. /\ run.pc \in {"saved", "failed"} /\ UNCHANGED <<blend, done, struck, blind>>
      /\ result' = [result EXCEPT ![run.step] = new]
      /\ run'.step = run.step /\ run'.attempt = run.attempt /\ run'.before = run.before
      /\ run'.pc = "ended" /\ (run'.code = 0 <=> ok)
      /\ run' \in [pc : {"ended"}, step : Nat, attempt : Nat,
                   scene : Scenes \cup {None}, code : {0, 1}, before : Scenes \cup {None}]
  <2>1. /\ run.pc \in {"saved", "failed"} /\ UNCHANGED <<blend, done, struck, blind>>
        /\ result' = [result EXCEPT ![run.step] = new]
        /\ run' = [run EXCEPT !.pc = "ended", !.code = IF ok THEN 0 ELSE 1]
    BY DEF Blender!WriteResult
  <2>2. (IF ok THEN 0 ELSE 1) \in {0, 1} /\ ((IF ok THEN 0 ELSE 1) = 0 <=> ok)
    OBVIOUS
  <2> HIDE DEF ok, new
  <2> QED BY <2>1, <2>2 DEF SceneInv, SceneTypeOK
<1>2. SavedScene' /\ SceneBefore'
  BY <1>1, QuietStep DEF SceneInv
<1>3. run.step \in DOMAIN Plan /\ new \in [ok : BOOLEAN, attempt : Nat]
  <2>1. run.step \in 1 .. Len(Plan) /\ run.attempt \in Nat
    BY <1>1, StepOfPlan DEF SceneInv, SceneTypeOK
  <2> QED BY <2>1, StepOfPlan
<1>4. SceneTypeOK'
  BY <1>1, <1>3 DEF SceneInv, SceneTypeOK
<1>5. result'[run.step] = new /\ new # None /\ new.ok = ok
  BY <1>1, <1>3 DEF SceneInv, SceneTypeOK, Blender!NoneAssumption
<1>6. ok = Holds(blend, Attempt)
  BY <1>1 DEF SceneInv, SavedScene, Holds
<1>7. ResultIsOwn'
  <2>1. Attempt' = Attempt /\ Holds(blend', Attempt') = Holds(blend, Attempt)
    BY <1>1 DEF Attempt
  <2> HIDE DEF ok, new
  <2> QED BY <2>1, <1>1, <1>5, <1>6 DEF ResultIsOwn
<1>8. ReadyToSave'
  BY <1>1 DEF ReadyToSave
<1> QED BY <1>2, <1>4, <1>7, <1>8 DEF SceneInv

\* A failed write, a crash and the timeout: the attempt is struck.
LEMMA FaultKeepsScenes ==
  ASSUME Blender!PlanAssumption, SceneInv,
         UNCHANGED <<blend, result, done>>, run.pc # "idle",
         struck' = struck \cup {Attempt}, blind \subseteq blind',
         run'.step = run.step, run'.attempt = run.attempt, run'.before = run.before,
         run' \in [pc : {"idle", "ended"}, step : Nat, attempt : Nat,
                   scene : Scenes \cup {None}, code : {0, 1}, before : Scenes \cup {None}],
         run'.pc = "ended" /\ run'.code = 0 => Attempt \in blind'
  PROVE  SceneInv'
<1>1. SavedScene' /\ SceneBefore'
  BY QuietStep DEF SceneInv
<1>2. SceneTypeOK'
  BY DEF SceneInv, SceneTypeOK
<1>3. Attempt' = Attempt
  BY DEF Attempt
<1>4. ReadyToSave' /\ ResultIsOwn'
  BY <1>3 DEF ReadyToSave, ResultIsOwn
<1> QED BY <1>1, <1>2, <1>4 DEF SceneInv

LEMMA FaultsKeepScenes ==
  ASSUME Blender!PlanAssumption, SceneInv, Blender!WriteFails \/ Blender!Crash \/ Blender!Timeout
  PROVE  SceneInv'
<1>1. CASE Blender!WriteFails
  <2>1. /\ run.pc # "idle" /\ UNCHANGED <<blend, result, done>>
        /\ struck' = struck \cup {Attempt} /\ blind' = blind \cup {Attempt}
        /\ run' = [run EXCEPT !.pc = "ended", !.code = 0]
    BY <1>1 DEF Blender!WriteFails, Blender!Attempt, Attempt
  <2>2. /\ run'.step = run.step /\ run'.attempt = run.attempt /\ run'.before = run.before
        /\ run' \in [pc : {"idle", "ended"}, step : Nat, attempt : Nat,
                     scene : Scenes \cup {None}, code : {0, 1}, before : Scenes \cup {None}]
    BY <2>1 DEF SceneInv, SceneTypeOK
  <2> QED BY <2>1, <2>2, FaultKeepsScenes
<1>2. CASE Blender!Crash
  <2>1. /\ run.pc # "idle" /\ UNCHANGED <<blend, result, done, blind>>
        /\ struck' = struck \cup {Attempt}
        /\ run' = [run EXCEPT !.pc = "ended", !.code = 1]
    BY <1>2 DEF Blender!Crash, Blender!Attempt, Attempt
  <2>2. /\ run'.step = run.step /\ run'.attempt = run.attempt /\ run'.before = run.before
        /\ run'.code = 1
        /\ run' \in [pc : {"idle", "ended"}, step : Nat, attempt : Nat,
                     scene : Scenes \cup {None}, code : {0, 1}, before : Scenes \cup {None}]
    BY <2>1 DEF SceneInv, SceneTypeOK
  <2> QED BY <2>1, <2>2, FaultKeepsScenes
<1>3. CASE Blender!Timeout
  <2>1. /\ run.pc # "idle" /\ UNCHANGED <<blend, result, done, blind>>
        /\ struck' = struck \cup {Attempt}
        /\ run' = [run EXCEPT !.pc = "idle"]
    BY <1>3 DEF Blender!Timeout, Blender!Attempt, Attempt
  <2>2. /\ run'.step = run.step /\ run'.attempt = run.attempt /\ run'.before = run.before
        /\ run'.pc = "idle"
        /\ run' \in [pc : {"idle", "ended"}, step : Nat, attempt : Nat,
                     scene : Scenes \cup {None}, code : {0, 1}, before : Scenes \cup {None}]
    BY <2>1 DEF SceneInv, SceneTypeOK
  <2> QED BY <2>1, <2>2, FaultKeepsScenes
<1> QED BY <1>1, <1>2, <1>3

LEMMA SaveKeepsScenes ==
  ASSUME Blender!PlanAssumption, SceneInv, Blender!Save
  PROVE  SceneInv'
<1> DEFINE t == Blender!Applied(blend, Plan[run.step])
           n == Len(blend.log)
<1>1. /\ run.pc = "applied" /\ UNCHANGED <<result, done, struck, blind>>
      /\ run' = [run EXCEPT !.pc = "saved"]
      /\ blend' = [t EXCEPT !.log = Append(@, Attempt)] /\ t # None
  BY DEF Blender!Save, SceneInv, ReadyToSave, Blender!Attempt, Attempt
<1>2. /\ run'.step = run.step /\ run'.attempt = run.attempt /\ run'.before = run.before
      /\ run'.pc = "saved"
      /\ run' \in [pc : {"saved"}, step : Nat, attempt : Nat,
                   scene : Scenes \cup {None}, code : {0, 1}, before : Scenes \cup {None}]
  BY <1>1 DEF SceneInv, SceneTypeOK
<1>3. /\ run.step \in 1 .. Len(Plan) /\ run.step = Len(done) + 1 /\ Attempt \in Nat \X Nat
      /\ Len(done) \in Nat /\ run.step \in Nat /\ run.attempt \in Nat
  <2>1. run.step = Len(done) + 1 /\ run.step <= Len(Plan) /\ Len(done) \in Nat /\ run.attempt \in Nat
    BY <1>1 DEF SceneInv, SceneTypeOK
  <2>2. run.step \in 1 .. Len(Plan)
    BY <2>1, StepOfPlan
  <2> QED BY <2>1, <2>2 DEF Attempt
<1>4. Sound(t) /\ t.log = blend.log
  BY <1>1, <1>3, StepOfPlan, AppliedIsSound DEF SceneInv, SavedScene
<1> HIDE DEF t
<1>5. /\ Sound(blend') /\ blend'.log = Append(blend.log, Attempt)
  <2>1. blend.log \in Seq(Nat \X Nat) /\ t \in Scenes
    BY <1>4 DEF SceneInv, SavedScene, Sound, Scenes
  <2>2. Append(blend.log, Attempt) \in Seq(Nat \X Nat)
    BY <2>1, <1>3
  <2>3. blend' \in Scenes /\ blend'.meshes = t.meshes /\ blend'.active = t.active
        /\ blend'.log = Append(blend.log, Attempt)
    BY <1>1, <1>4, <2>1, <2>2 DEF Scenes
  <2> QED BY <2>3, <1>4 DEF Sound
<1>6. /\ n \in Nat /\ DOMAIN blend.log = 1 .. n /\ DOMAIN blend'.log = 1 .. n + 1
      /\ \A k \in 1 .. n : blend'.log[k] = blend.log[k]
      /\ blend'.log[n + 1] = Attempt
  <2>1. blend.log \in Seq(Nat \X Nat)
    BY DEF SceneInv, SavedScene, Sound, Scenes
  <2> QED BY <1>3, <1>5, <2>1
<1> HIDE DEF n
<1>7. Attempt' = Attempt
  BY <1>2 DEF Attempt
<1>8. ~Holds(blend, Attempt) /\ HoldsOnce(blend) /\ Kept(blend, done, blind)
  BY <1>1 DEF SceneInv, SavedScene
<1>9. HoldsOnce(blend')
  <2> SUFFICES ASSUME NEW k \in 1 .. n + 1, NEW l \in 1 .. n + 1, blend'.log[k] = blend'.log[l]
               PROVE  k = l
    BY <1>6 DEF HoldsOnce
  <2>1. /\ k \in 1 .. n \/ k = n + 1
        /\ l \in 1 .. n \/ l = n + 1
    BY <1>6
  <2> QED BY <2>1, <1>6, <1>8 DEF Holds, HoldsOnce
<1>10. ASSUME NEW a, Holds(blend, a) PROVE Holds(blend', a)
  <2>1. PICK k \in 1 .. n : blend.log[k] = a
    BY <1>10, <1>6 DEF Holds
  <2>2. k \in 1 .. n + 1 /\ blend'.log[k] = a
    BY <2>1, <1>6
  <2> QED BY <2>2, <1>6 DEF Holds
<1>11. Kept(blend', done', blind')
  BY <1>1, <1>8, <1>10 DEF Kept
<1>12. Holds(blend', Attempt')
  <2>1. n + 1 \in DOMAIN blend'.log
    BY <1>6
  <2> QED BY <2>1, <1>6, <1>7 DEF Holds
<1>13. ASSUME NEW k \in DOMAIN blend'.log
       PROVE  /\ blend'.log[k][1] \in 1 .. run'.step
              /\ blend'.log[k][1] = run'.step => blend'.log[k][2] <= run'.attempt
              /\ Explained(blend'.log[k], done', struck') \/ (run'.pc # "idle" /\ blend'.log[k] = Attempt')
  <2>1. CASE k \in 1 .. n
    <3>1. /\ blend'.log[k] = blend.log[k] /\ k \in DOMAIN blend.log
      BY <2>1, <1>6
    <3>2. Explained(blend.log[k], done, struck) \/ blend.log[k] = Attempt
      BY <3>1 DEF SceneInv, SavedScene
    <3> QED BY <3>1, <3>2, <1>1, <1>2, <1>7 DEF SceneInv, SavedScene, Explained
  <2>2. CASE k = n + 1
    <3>1. blend'.log[k] = <<run.step, run.attempt>>
      BY <2>2, <1>6 DEF Attempt
    <3> QED BY <3>1, <1>2, <1>3, <1>7 DEF Attempt
  <2> QED BY <2>1, <2>2, <1>6
<1>14. SavedScene'
  BY <1>5, <1>9, <1>11, <1>12, <1>13, <1>2 DEF SavedScene
<1>15. SceneBefore'
  BY <1>1, <1>2 DEF SceneInv, SceneBefore
<1>16. SceneTypeOK'
  BY <1>1, <1>2, <1>3 DEF SceneInv, SceneTypeOK
<1>17. ReadyToSave' /\ ResultIsOwn'
  BY <1>2 DEF ReadyToSave, ResultIsOwn
<1> QED BY <1>14, <1>15, <1>16, <1>17 DEF SceneInv

LEMMA StartKeepsScenes ==
  ASSUME Blender!PlanAssumption, SceneInv, Blender!Start
  PROVE  SceneInv'
<1> DEFINE i == Len(done) + 1
           again == run.step = i
<1>1. /\ run.pc = "idle" /\ Len(done) < Len(Plan) /\ UNCHANGED <<result, done, struck, blind>>
      /\ run' = [Blender!Idle EXCEPT !.pc = "started", !.step = i,
                   !.attempt = IF again THEN run.attempt + 1 ELSE 1,
                   !.before = IF again THEN run.before ELSE blend]
      /\ blend' = blend \/ (again /\ blend' = run.before)
  BY DEF Blender!Start
<1>2. /\ run.step \in Nat /\ run.attempt \in Nat /\ Len(done) \in Nat /\ Len(Plan) \in Nat
      /\ ~again => run.step = Len(done)
  BY StepOfPlan DEF SceneInv, SceneTypeOK
<1>3. /\ run'.pc = "started" /\ run'.step = i /\ run'.scene = None /\ run'.code = 0
      /\ run'.attempt = (IF again THEN run.attempt + 1 ELSE 1)
      /\ run'.before = (IF again THEN run.before ELSE blend)
      /\ run' = [pc |-> "started", step |-> i, attempt |-> IF again THEN run.attempt + 1 ELSE 1,
                 scene |-> None, code |-> 0, before |-> IF again THEN run.before ELSE blend]
  BY <1>1 DEF Blender!Idle
<1>4. /\ Sound(blend) /\ HoldsOnce(blend) /\ Kept(blend, done, blind)
      /\ again => Sound(run.before) /\ HoldsOnce(run.before) /\ Kept(run.before, done, blind)
  BY DEF SceneInv, SavedScene, SceneBefore
<1>5. ASSUME NEW k \in DOMAIN blend.log
      PROVE  /\ blend.log[k][1] \in 1 .. run.step
             /\ blend.log[k][1] = run.step => blend.log[k][2] <= run.attempt
             /\ Explained(blend.log[k], done, struck)
  BY <1>1 DEF SceneInv, SavedScene
<1>6. ASSUME again, NEW k \in DOMAIN run.before.log
      PROVE  /\ run.before.log[k][1] \in 1 .. Len(done)
             /\ Explained(run.before.log[k], done, struck)
  BY <1>6 DEF SceneInv, SceneBefore
<1>7. SceneTypeOK'
  <2>1. blend \in Scenes
    BY <1>4 DEF Sound
  <2>2. /\ (IF again THEN run.attempt + 1 ELSE 1) \in Nat
        /\ (IF again THEN run.before ELSE blend) \in Scenes \cup {None}
        /\ i \in Nat /\ i <= Len(Plan)
    BY <2>1, <1>1, <1>2 DEF SceneInv, SceneTypeOK
  <2>3. run' \in [pc : {"started"}, step : Nat, attempt : Nat, scene : Scenes \cup {None},
                  code : {0, 1}, before : Scenes \cup {None}]
    BY <2>2, <1>3
  <2>4. run' \in [pc : {"idle", "started", "applied", "failed", "saved", "ended"},
                  step : Nat, attempt : Nat, scene : Scenes \cup {None},
                  code : {0, 1}, before : Scenes \cup {None}]
    BY <2>3
  <2> QED BY <2>2, <2>4, <1>1, <1>3 DEF SceneInv, SceneTypeOK
<1>8. blend'.log \in Seq(Nat \X Nat) /\ Sound(blend') /\ HoldsOnce(blend') /\ Kept(blend', done', blind')
  BY <1>1, <1>4 DEF Sound, Scenes
<1>9. ASSUME NEW k \in DOMAIN blend'.log
      PROVE  /\ blend'.log[k][1] \in 1 .. i
             /\ blend'.log[k][1] = i => again /\ blend'.log[k][2] <= run.attempt
             /\ Explained(blend'.log[k], done, struck)
  <2>1. CASE blend' = blend
    <3>1. CASE again
      BY <2>1, <3>1, <1>5, <1>2
    <3>2. CASE ~again
      BY <2>1, <3>2, <1>5, <1>2
    <3> QED BY <3>1, <3>2
  <2>2. CASE again /\ blend' = run.before
    BY <2>2, <1>6, <1>2
  <2> QED BY <2>1, <2>2, <1>1
<1>10. ~Holds(blend', Attempt')
  <2> SUFFICES ASSUME NEW k \in DOMAIN blend'.log, blend'.log[k] = Attempt'
               PROVE  FALSE
    BY DEF Holds
  <2>1. blend'.log[k][1] = i /\ blend'.log[k][2] = run'.attempt
    BY <1>3 DEF Attempt
  <2>2. again /\ blend'.log[k][2] <= run.attempt
    BY <2>1, <1>9
  <2>3. run'.attempt = run.attempt + 1
    BY <2>2, <1>3
  <2> QED BY <2>1, <2>2, <2>3, <1>2
<1>11. SavedScene'
  <2>1. ASSUME NEW k \in DOMAIN blend'.log
        PROVE  /\ blend'.log[k][1] \in 1 .. run'.step
               /\ blend'.log[k][1] = run'.step => blend'.log[k][2] <= run'.attempt
               /\ Explained(blend'.log[k], done', struck') \/ (run'.pc # "idle" /\ blend'.log[k] = Attempt')
    <3>1. blend'.log[k][2] \in Nat
      BY <1>8
    <3>2. ASSUME blend'.log[k][1] = i PROVE blend'.log[k][2] <= run'.attempt
      <4>1. run'.attempt = run.attempt + 1 /\ blend'.log[k][2] <= run.attempt
        BY <3>2, <1>9, <1>3
      <4> QED BY <4>1, <3>1, <1>2
    <3> QED BY <3>2, <1>9, <1>3, <1>1
  <2> QED BY <2>1, <1>8, <1>10, <1>3 DEF SavedScene
<1>12. SceneBefore'
  <2>1. CASE again
    BY <2>1, <1>1, <1>3, <1>4, <1>6 DEF SceneBefore
  <2>2. CASE ~again
    BY <2>2, <1>1, <1>2, <1>3, <1>4, <1>5 DEF SceneBefore
  <2> QED BY <2>1, <2>2
<1>13. ReadyToSave' /\ ResultIsOwn'
  BY <1>3 DEF ReadyToSave, ResultIsOwn
<1> QED BY <1>7, <1>11, <1>12, <1>13 DEF SceneInv

LEMMA AnswerKeepsScenes ==
  ASSUME Blender!PlanAssumption, SceneInv, Blender!Answer
  PROVE  SceneInv'
<1> DEFINE ok == run.code = 0 /\ result[run.step] # None /\ result[run.step].ok
<1>1. /\ run.pc = "ended" /\ UNCHANGED <<blend, result, struck, blind>>
      /\ done' = (IF ok THEN Append(done, run.attempt) ELSE done)
      /\ run' = [run EXCEPT !.pc = "idle"]
  BY DEF Blender!Answer
<1>2. /\ run'.step = run.step /\ run'.attempt = run.attempt /\ run'.before = run.before
      /\ run'.pc = "idle"
      /\ run' \in [pc : {"idle"}, step : Nat, attempt : Nat,
                   scene : Scenes \cup {None}, code : {0, 1}, before : Scenes \cup {None}]
  BY <1>1 DEF SceneInv, SceneTypeOK
<1>3. /\ run.step = Len(done) + 1 /\ run.step <= Len(Plan) /\ done \in Seq(Nat) /\ Len(done) \in Nat
      /\ run.attempt \in Nat
  BY <1>1 DEF SceneInv, SceneTypeOK
<1>4. /\ Holds(blend, Attempt) /\ Attempt \notin struck => ok
      /\ ok => Attempt \in blind \/ Holds(blend, Attempt)
  BY <1>1 DEF SceneInv, ResultIsOwn
<1> HIDE DEF ok
<1>5. CASE ~ok
  <2>1. done' = done
    BY <1>1, <1>5
  <2>2. SceneTypeOK'
    BY <2>1, <1>1, <1>2 DEF SceneInv, SceneTypeOK
  <2>3. SavedScene'
    <3>1. ASSUME NEW k \in DOMAIN blend.log PROVE Explained(blend.log[k], done, struck)
      <4>1. CASE blend.log[k] = Attempt
        BY <4>1, <1>4, <1>5 DEF Explained, Holds
      <4> QED BY <4>1 DEF SceneInv, SavedScene
    <3> QED BY <3>1, <2>1, <1>1, <1>2 DEF SceneInv, SavedScene
  <2>4. SceneBefore'
    BY <2>1, <1>1, <1>2 DEF SceneInv, SceneBefore
  <2>5. ReadyToSave' /\ ResultIsOwn'
    BY <1>2 DEF ReadyToSave, ResultIsOwn
  <2> QED BY <2>2, <2>3, <2>4, <2>5 DEF SceneInv
<1>6. CASE ok
  <2>1. /\ done' \in Seq(Nat) /\ Len(done') = Len(done) + 1 /\ DOMAIN done' = 1 .. Len(done) + 1
        /\ DOMAIN done = 1 .. Len(done)
        /\ \A j \in 1 .. Len(done) : done'[j] = done[j]
        /\ done'[Len(done) + 1] = run.attempt
    BY <1>1, <1>3, <1>6
  <2>2. Attempt = <<Len(done) + 1, done'[Len(done) + 1]>>
    BY <2>1, <1>3 DEF Attempt
  <2>3. SceneTypeOK'
    BY <2>1, <1>1, <1>2, <1>3 DEF SceneInv, SceneTypeOK
  <2>4. Kept(blend', done', blind')
    <3> SUFFICES ASSUME NEW j \in 1 .. Len(done) + 1, <<j, done'[j]>> \notin blind
                 PROVE  Holds(blend, <<j, done'[j]>>)
      BY <2>1, <1>1 DEF Kept
    <3>1. CASE j \in 1 .. Len(done)
      BY <3>1, <2>1 DEF SceneInv, SavedScene, Kept
    <3>2. CASE j = Len(done) + 1
      BY <3>2, <2>2, <1>4, <1>6
    <3> QED BY <3>1, <3>2, <1>3
  <2>5. ASSUME NEW k \in DOMAIN blend.log PROVE Explained(blend.log[k], done', struck)
    <3>1. CASE blend.log[k] = Attempt
      <4>1. Len(done) + 1 \in DOMAIN done'
        BY <2>1, <1>3
      <4> QED BY <3>1, <2>2, <4>1 DEF Explained
    <3>2. CASE Explained(blend.log[k], done, struck)
      <4>1. \A j \in DOMAIN done : j \in DOMAIN done' /\ done'[j] = done[j]
        BY <2>1, <1>3
      <4> QED BY <3>2, <4>1 DEF Explained
    <3> QED BY <3>1, <3>2 DEF SceneInv, SavedScene
  <2>6. SavedScene'
    BY <2>4, <2>5, <1>1, <1>2 DEF SceneInv, SavedScene
  <2>7. SceneBefore'
    <3>1. run'.step # Len(done') + 1
      BY <2>1, <1>2, <1>3
    <3> QED BY <3>1 DEF SceneBefore
  <2>8. ReadyToSave' /\ ResultIsOwn'
    BY <1>2 DEF ReadyToSave, ResultIsOwn
  <2> QED BY <2>3, <2>6, <2>7, <2>8 DEF SceneInv
<1> QED BY <1>5, <1>6
-----------------------------------------------------------------------------
LEMMA SceneInvInit == ASSUME Blender!PlanAssumption, Blender!Init PROVE SceneInv
<1>1. /\ blend = [meshes |-> <<>>, active |-> None, log |-> <<>>]
      /\ run = [pc |-> "idle", step |-> 0, attempt |-> 0, scene |-> None, code |-> 0, before |-> None]
      /\ done = <<>> /\ result = [i \in DOMAIN Plan |-> None]
  BY DEF Blender!Init, Blender!EmptyScene, Blender!Idle
<1>2. blend \in Scenes
  BY <1>1 DEF Scenes
<1>3. SavedScene
  BY <1>1, <1>2 DEF SavedScene, Sound, HoldsOnce, Kept
<1>4. SceneTypeOK
  BY <1>1, StepOfPlan DEF SceneTypeOK
<1> QED BY <1>1, <1>3, <1>4 DEF SceneInv, SceneBefore, ReadyToSave, ResultIsOwn

LEMMA SceneInvStep ==
  ASSUME Blender!PlanAssumption, Blender!NoneAssumption
  PROVE  SceneInv /\ [Blender!Next]_Blender!vars => SceneInv'
<1> SUFFICES ASSUME SceneInv, [Blender!Next]_Blender!vars PROVE SceneInv'
  OBVIOUS
<1>1. CASE Blender!Start
  BY <1>1, StartKeepsScenes
<1>2. CASE Blender!Execute
  BY <1>2, ExecuteKeepsScenes
<1>3. CASE Blender!Save
  BY <1>3, SaveKeepsScenes
<1>4. CASE Blender!WriteResult
  BY <1>4, WriteResultKeepsScenes
<1>5. CASE Blender!WriteFails \/ Blender!Crash \/ Blender!Timeout
  BY <1>5, FaultsKeepScenes
<1>6. CASE Blender!Answer
  BY <1>6, AnswerKeepsScenes
<1>7. CASE UNCHANGED Blender!vars
  <2>1. UNCHANGED <<blend, result, run, done, struck, blind>>
    BY <1>7 DEF Blender!vars
  <2> QED BY <2>1 DEF SceneInv, SceneTypeOK, SavedScene, SceneBefore, ReadyToSave, ResultIsOwn, Attempt
<1> QED BY <1>1, <1>2, <1>3, <1>4, <1>5, <1>6, <1>7 DEF Blender!Next

LEMMA SceneInvImplies == ASSUME SceneInv PROVE SceneFollowsPlan
<1>1. OkIsInScene
  <2> SUFFICES ASSUME NEW i \in DOMAIN done, <<i, done[i]>> \notin blind
               PROVE  InScene(<<i, done[i]>>) = 1
    BY DEF OkIsInScene
  <2>1. PICK k \in DOMAIN blend.log : blend.log[k] = <<i, done[i]>>
    BY DEF SceneInv, SavedScene, Kept, Holds
  <2>2. {l \in DOMAIN blend.log : blend.log[l] = <<i, done[i]>>} = {k}
    BY <2>1 DEF SceneInv, SavedScene, HoldsOnce
  <2> QED BY <2>2, FS_Singleton DEF InScene
<1>2. TwiceOnlyAfterFault
  BY DEF SceneInv, SavedScene, TwiceOnlyAfterFault, Explained
<1>3. ActiveExists
  BY DEF SceneInv, SavedScene, Sound, ActiveExists, Range, IsInjective
<1> QED BY <1>1, <1>2, <1>3 DEF SceneFollowsPlan

\* For every plan of known tools: a step that was answered ok is in the saved
\* scene once, nothing else is but what a fault left there, and the active
\* object exists under a name of its own.
THEOREM SceneFollowsPlanHolds ==
  ASSUME Blender!PlanAssumption, Blender!NoneAssumption
  PROVE  Blender!Spec => []SceneFollowsPlan
<1>1. Blender!Init => SceneInv
  BY SceneInvInit
<1>2. SceneInv /\ [Blender!Next]_Blender!vars => SceneInv'
  BY SceneInvStep
<1>3. SceneInv => SceneFollowsPlan
  BY SceneInvImplies
<1> QED BY <1>1, <1>2, <1>3, PTL DEF Blender!Spec
=============================================================================
