--------------------------- MODULE SnapshotPromise ---------------------------
(***************************************************************************)
(* What the snapshots of a workspace are for: the state of Snapshots that  *)
(* a user depends on, and what it promises.                                *)
(***************************************************************************)
CONSTANT Missing  \* no file, no directory

VARIABLES
  workspace,  \* content of each file, or Missing when there is no directory
  folder,     \* files/ of each snapshot, or Missing
  row,        \* saved snapshots: the files their rows list
  job,        \* the create or restore that runs
  \* history
  before,     \* the workspace when the restore began
  touched     \* the runner wrote since the job began

Empty == [f \in {} |-> Missing]

Whole(i) == i \in DOMAIN row /\ folder[i] # Missing /\ row[i] = DOMAIN folder[i]

\* A saved snapshot lists the files its directory holds, whatever else failed
\* and whenever it was interrupted.
RowsAreWhole == \A i \in DOMAIN row : folder[i] = Missing \/ Whole(i)

\* A restore that reported success left the workspace as the snapshot, if
\* nobody wrote there meanwhile: nothing made later remains.
RestoredIsExact ==
  job.pc = "restored" /\ ~touched => workspace = folder[job.target]

\* "undoing the undo is just another restore": from the first file it deletes
\* or overwrites, through a failure at any point of it, what the workspace held
\* is in a saved snapshot.
UndoIsUndoable ==
  /\ job.pc \in {"clear", "back", "restored"} /\ ~touched
  /\ before # Missing /\ before # Empty
  => \E i \in DOMAIN row : folder[i] = before

\* A snapshot can be trusted: it is what its row says, a restore brings back
\* exactly that, and what the restore replaced is not lost.
SnapshotsRestore == RowsAreWhole /\ RestoredIsExact /\ UndoIsUndoable
=============================================================================
