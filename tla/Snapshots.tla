----------------------------- MODULE Snapshots -----------------------------
(***************************************************************************)
(* ModelingSnapshotService over the files of one workspace: a snapshot     *)
(* copies them one by one, writes its manifest and then its row; a restore *)
(* snapshots what is there unless it is forced, deletes the files that are *)
(* not in the snapshot, copies the others back one by one, counts them and *)
(* updates the row.  The process may die, or a copy fail, between any two  *)
(* of these.  A runner that writes into the workspace at the same time is  *)
(* another process.  Files of the runner (job, result and                 *)
(* manifest.json) are in no snapshot and are left alone.                   *)
(***************************************************************************)
EXTENDS SnapshotPromise, Integers, FiniteSets, Functions

CONSTANTS
  Files,         \* relative paths of files that belong in a snapshot
  Contents,      \* contents
  MaxSnapshots,  \* snapshots
  MaxWrites,     \* writes of the runner
  MaxFaults      \* deaths of the process and copies that fail

\* What a directory may hold.
Trees == UNION {[S -> Contents] : S \in SUBSET Files}
MissingAssumption == Missing \notin Trees /\ MaxSnapshots \in Nat

VARIABLES
  writes, faults

vars == <<workspace, folder, row, job, writes, faults, before, touched>>

Ids == 1 .. MaxSnapshots
NoJob == [pc |-> "none", id |-> 0, target |-> 0, left |-> {}, done |-> 0]

Init ==
  /\ workspace \in {Missing, Empty} \cup {[f \in Files |-> c] : c \in Contents}
  /\ folder = [i \in Ids |-> Missing]
  /\ row = [i \in {} |-> {}]
  /\ job = NoJob
  /\ writes = 0
  /\ faults = 0
  /\ before = Missing
  /\ touched = FALSE

Fresh == {i \in Ids : folder[i] = Missing /\ i \notin DOMAIN row}
InWorkspace == IF workspace = Missing THEN {} ELSE DOMAIN workspace

\* An execution in the workspace writes or removes a file.
Runner ==
  /\ writes < MaxWrites
  /\ writes' = writes + 1
  /\ touched' = (job # NoJob)
  /\ \/ \E f \in Files, c \in Contents :
          workspace' = [g \in InWorkspace \cup {f} |-> IF g = f THEN c ELSE workspace[g]]
     \/ \E f \in InWorkspace : workspace' = Restrict(workspace, InWorkspace \ {f})
  /\ UNCHANGED <<folder, row, job, faults, before>>
-----------------------------------------------------------------------------
\* create: files/ exists only if the workspace does.
BeginCopy(i, target) ==
  /\ folder' = [folder EXCEPT ![i] = IF workspace = Missing THEN Missing ELSE Empty]
  /\ job' = [pc |-> "copy", id |-> i, target |-> target, left |-> InWorkspace, done |-> 0]

Create ==
  /\ job = NoJob /\ Fresh # {}
  /\ BeginCopy(CHOOSE i \in Fresh : \A j \in Fresh : i <= j, 0)
  /\ touched' = FALSE
  /\ UNCHANGED <<workspace, row, writes, faults, before>>

\* copy2 of one file; a file the runner removed in between fails the call.
CopyFile ==
  /\ job.pc = "copy"
  /\ \E f \in job.left :
       /\ f \in InWorkspace
       /\ folder' = [folder EXCEPT ![job.id] =
            [g \in DOMAIN @ \cup {f} |-> IF g = f THEN workspace[f] ELSE @[g]]]
       /\ job' = [job EXCEPT !.left = @ \ {f}]
  /\ UNCHANGED <<workspace, row, writes, faults, before, touched>>

\* (mutant of CreateRow) the row is saved before the files are copied.
CreateRow_Early ==
  /\ job.pc = "copy"
  /\ row' = [i \in DOMAIN row \cup {job.id} |->
       IF i = job.id THEN InWorkspace ELSE row[i]]
  /\ job' = IF job.left # {} THEN job ELSE
            IF job.target = 0 THEN NoJob
            ELSE [job EXCEPT !.pc = "clear", !.left = InWorkspace \ DOMAIN folder[job.target]]
  /\ row' # row \/ job' # job
  /\ UNCHANGED <<workspace, folder, writes, faults, before, touched>>

\* The manifest and the row, with the files that were copied.
CreateRow ==
  /\ job.pc = "copy" /\ job.left = {}
  /\ row' = [i \in DOMAIN row \cup {job.id} |->
       IF i # job.id THEN row[i]
       ELSE IF folder[i] = Missing THEN {} ELSE DOMAIN folder[i]]
  /\ job' = IF job.target = 0 THEN NoJob ELSE [job EXCEPT !.pc = "check"]
  /\ UNCHANGED <<workspace, folder, writes, faults, before, touched>>
-----------------------------------------------------------------------------
\* (mutant of Restore) the files are replaced before the backup is taken.
Restore_NoBackup(i) ==
  /\ job = NoJob /\ i \in DOMAIN row
  /\ job' = [NoJob EXCEPT !.pc = "check", !.target = i]
  /\ before' = workspace /\ touched' = FALSE
  /\ UNCHANGED <<workspace, folder, row, writes, faults>>

\* restore: a snapshot of what is there, unless forced or nothing is.
Restore(i) ==
  /\ job = NoJob /\ i \in DOMAIN row
  /\ before' = workspace
  /\ touched' = FALSE
  /\ \/ /\ InWorkspace # {} /\ Fresh # {}
        /\ BeginCopy(CHOOSE j \in Fresh : \A k \in Fresh : j <= k, i)
     \/ /\ InWorkspace = {}
        /\ job' = [NoJob EXCEPT !.pc = "check", !.target = i]
        /\ UNCHANGED folder
  /\ UNCHANGED <<workspace, row, writes, faults>>

ForcedRestore(i) ==
  /\ job = NoJob /\ i \in DOMAIN row
  /\ job' = [NoJob EXCEPT !.pc = "check", !.target = i]
  /\ before' = Missing
  /\ touched' = FALSE
  /\ UNCHANGED <<workspace, folder, row, writes, faults>>

\* Without a files/ directory the restore raises before it touches anything.
Check ==
  /\ job.pc = "check"
  /\ \/ /\ folder[job.target] = Missing
        /\ job' = NoJob
        /\ UNCHANGED workspace
     \/ /\ folder[job.target] # Missing
        /\ workspace' = IF workspace = Missing THEN Empty ELSE workspace
        /\ job' = [job EXCEPT !.pc = "clear", !.left = InWorkspace \ DOMAIN folder[job.target]]
  /\ UNCHANGED <<folder, row, writes, faults, before, touched>>

\* (mutant of Clear) files made after the snapshot stay.
Clear_Skipped ==
  /\ job.pc = "clear"
  /\ job' = [job EXCEPT !.pc = "back", !.left = DOMAIN folder[job.target]]
  /\ UNCHANGED <<workspace, folder, row, writes, faults, before, touched>>

\* Files that are not in the snapshot are unlinked one by one.
Clear ==
  /\ job.pc = "clear"
  /\ \/ \E f \in job.left :
          /\ workspace' = Restrict(workspace, InWorkspace \ {f})
          /\ job' = [job EXCEPT !.left = @ \ {f}]
     \/ /\ job.left = {}
        /\ job' = [job EXCEPT !.pc = "back", !.left = DOMAIN folder[job.target]]
        /\ UNCHANGED workspace
  /\ UNCHANGED <<folder, row, writes, faults, before, touched>>

CopyBack ==
  /\ job.pc = "back"
  /\ \E f \in job.left :
       /\ workspace' = [g \in InWorkspace \cup {f} |->
            IF g = f THEN folder[job.target][f] ELSE workspace[g]]
       /\ job' = [job EXCEPT !.left = @ \ {f}, !.done = @ + 1]
  /\ UNCHANGED <<folder, row, writes, faults, before, touched>>

\* The count is compared with the row; "restored" is what the caller is told.
Finish ==
  /\ job.pc = "back" /\ job.left = {}
  /\ job' = IF row[job.target] # {} /\ job.done # Cardinality(row[job.target])
            THEN NoJob ELSE [job EXCEPT !.pc = "restored"]
  /\ UNCHANGED <<workspace, folder, row, writes, faults, before, touched>>

Reply == job.pc = "restored" /\ job' = NoJob
         /\ UNCHANGED <<workspace, folder, row, writes, faults, before, touched>>

\* The process dies or a file operation raises: the job ends where it is.
Fault ==
  /\ job # NoJob
  /\ faults < MaxFaults
  /\ faults' = faults + 1
  /\ job' = NoJob
  /\ UNCHANGED <<workspace, folder, row, writes, before, touched>>

Vanished ==
  /\ job.pc = "copy"
  /\ job.left \ InWorkspace # {}
  /\ job' = NoJob
  /\ UNCHANGED <<workspace, folder, row, writes, faults, before, touched>>

Next ==
  \/ Runner \/ Create \/ CopyFile \/ CreateRow
  \/ \E i \in Ids : Restore(i) \/ ForcedRestore(i)
  \/ Check \/ Clear \/ CopyBack \/ Finish \/ Reply \/ Fault \/ Vanished

Spec == Init /\ [][Next]_vars
=============================================================================
