----------------------------- MODULE Provenance -----------------------------
(***************************************************************************)
(* What a step did to the model (modeling/provenance.py): the difference   *)
(* of the states read back before and after it, by the stable handles of   *)
(* bodies and faces, and what the records of a plan add up to.             *)
(*                                                                         *)
(* A state is None when nothing was read back, which an empty design reads *)
(* as too, else a function from the handle of a body to [size, faces]; an  *)
(* entity is <<"body", handle>> or <<"face", handle, token>>.              *)
(***************************************************************************)
EXTENDS Integers, Sequences, FiniteSets, FiniteSetsExt, SequencesExt, TLC

CONSTANT None

IndexBodies(state) == IF state = None THEN <<>> ELSE state
Faces(state, h) == {<<"face", h, t>> : t \in state[h].faces}

\* Only a tool that is meant to takes a body away; else the handle may have
\* changed, and the record says so.
DisappearedOp(category) ==
  CASE category = "destructive" -> "deleted"
    [] category = "high_risk" -> "consumed"
    [] OTHER -> "uncertain"

\* The changes of an operation, a set of [op, entity].
DiffModelState(before, after, category) ==
  LET b == IndexBodies(before)
      a == IndexBodies(after)
      both == DOMAIN b \cap DOMAIN a
      as(op, entities) == {[op |-> op, entity |-> e] : e \in entities}
  IN as("created", {<<"body", h>> : h \in DOMAIN a \ DOMAIN b})
     \cup as(DisappearedOp(category), {<<"body", h>> : h \in DOMAIN b \ DOMAIN a})
     \cup as("modified", {<<"body", h>> : h \in {h \in both : b[h].size # a[h].size}})
     \cup as("created", UNION {Faces(a, h) \ Faces(b, h) : h \in both})
     \cup as("consumed", UNION {Faces(b, h) \ Faces(a, h) : h \in both})

BuildChangeRecord(tool, before, after, category) ==
  LET changes == DiffModelState(before, after, category)
      bucket(op) == {c.entity : c \in {c \in changes : c.op = op}}
  IN [tool |-> tool, category |-> category, captured |-> before # None /\ after # None,
      empty |-> changes = {}, created |-> bucket("created"), modified |-> bucket("modified"),
      consumed |-> bucket("consumed"), deleted |-> bucket("deleted"), uncertain |-> bucket("uncertain")]

\* (mutant of AggregateHistory) what was consumed is still there.
AggregateHistory_Kept(records) ==
  FoldLeft(LAMBDA current, r : (current \cup {e \in r.created : e[1] = "body"}) \ r.deleted, {}, records)

\* The bodies a plan leaves: those it created, without those it took away.
AggregateHistory(records) ==
  FoldLeft(LAMBDA current, r : (current \cup {e \in r.created : e[1] = "body"})
                                 \ (r.deleted \cup r.consumed), {}, records)

\* A step has its own record, or those of the concrete steps it became.
HistoryFromPlan(outputs) ==
  LET records == FlattenSeq([n \in DOMAIN outputs |-> outputs[n].own \o FlattenSeq(outputs[n].expanded)])
  IN IF records = <<>> THEN None ELSE [records |-> records, current |-> AggregateHistory(records)]
-----------------------------------------------------------------------------
(***************************************************************************)
(* What a step left besides the model (modeling/artifacts.py): the exports *)
(* it reports become files of the library and versions of the model.       *)
(***************************************************************************)
\* A path outside the data directory, or without a file, is passed over; a path
\* that has a row keeps it.
RegisterFile(state, path) ==
  LET known == {n \in DOMAIN state.files : state.files[n] = path.name}
  IN IF ~path.inside \/ ~path.exists THEN state
     ELSE IF known # {} THEN [state EXCEPT !.ids = Append(@, Min(known))]
     ELSE [state EXCEPT !.files = Append(@, path.name), !.ids = Append(@, Len(state.files) + 1)]

\* (mutant of RegisterVersion) one more version for every report.
RegisterVersion_Always(state, known, file) ==
  [state EXCEPT !.versions = Append(@, [file |-> file, project |-> state.project]),
                !.versionIds = Append(@, Len(state.versions) + 1)]

\* One version of a file in a project; known are the versions before this step,
\* so that a file reported twice in one step gets two.
RegisterVersion(state, known, file) ==
  LET old == {n \in DOMAIN known : known[n] = [file |-> file, project |-> state.project]}
  IN IF old # {} THEN [state EXCEPT !.versionIds = Append(@, Max(old))]
     ELSE [state EXCEPT !.versions = Append(@, [file |-> file, project |-> state.project]),
                        !.versionIds = Append(@, Len(state.versions) + 1)]

\* state is [files, versions, project].
RegisterOutputs(state, paths) ==
  LET filed == FoldLeft(RegisterFile, state @@ [ids |-> <<>>, versionIds |-> <<>>], paths)
  IN FoldLeft(LAMBDA s, file : RegisterVersion(s, state.versions, file), filed, filed.ids)
=============================================================================
