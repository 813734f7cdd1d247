----------------------------- MODULE BlenderRuns -----------------------------
(***************************************************************************)
(* BlenderAdapter and blender_runner over the workspace of a plan: a step  *)
(* is a process of Blender that reads its job, opens the saved scene, runs *)
(* one tool, saves the scene and writes the result file the adapter reads  *)
(* once the process ended.  The name of the result file is that of the     *)
(* step, so that a retry finds the result of the attempt before.  Blender  *)
(* may crash, hang until the adapter kills it, or fail to write.  Meshes   *)
(* are their names; geometry is left out.                                  *)
(***************************************************************************)
EXTENDS ScenePromise, Sequences, SequencesExt

CONSTANTS
  Plan,         \* steps of the plan: [tool, name, other, keep] each
  MaxAttempts,  \* executions of a step
  MaxFaults     \* crashes, timeouts and failed writes

\* The tools of the runner, by what they do to the meshes of a scene.
Tools == {"create", "bevel", "boolean", "material", "export", "printability"}
PlanAssumption == Plan \in Seq(Range(Plan)) /\ \A step \in Range(Plan) : step.tool \in Tools
NoneAssumption == None \notin [ok : BOOLEAN, attempt : Nat]

VARIABLES
  result,  \* result file of each step
  faults

vars == <<blend, result, run, done, faults, struck, blind>>

Idle == [pc |-> "idle", step |-> 0, attempt |-> 0, scene |-> None, code |-> 0, before |-> None]
EmptyScene == [meshes |-> <<>>, active |-> None, log |-> <<>>]

Init ==
  /\ blend = EmptyScene
  /\ result = [i \in DOMAIN Plan |-> None]
  /\ run = Idle
  /\ done = <<>>
  /\ faults = 0
  /\ struck = {}
  /\ blind = {}
-----------------------------------------------------------------------------
Named(scene, name) == <<name, 0>> \in Range(scene.meshes)

\* Blender keeps names unique: an object whose name is taken gets a suffix.
FreshName(scene, name) ==
  IF ~Named(scene, name) THEN <<name, 0>>
  ELSE <<name, CHOOSE n \in 1 .. Len(scene.meshes) : <<name, n>> \notin Range(scene.meshes)>>

\* _resolve_object: by name, else the active mesh, else the first.
Resolved(scene, name) ==
  IF name # None THEN IF Named(scene, name) THEN <<name, 0>> ELSE None
  ELSE IF scene.active # None THEN scene.active
  ELSE IF scene.meshes # <<>> THEN Head(scene.meshes) ELSE None

\* A tool on a scene: the scene after it, or None when it raises.
Created(scene, step) ==
  LET name == FreshName(scene, step.name) IN
  [scene EXCEPT !.meshes = Append(@, name), !.active = name]

\* Bevel, subdivision and solidify: every mesh, and the last one stays active.
OnEveryMesh(scene) ==
  IF scene.meshes = <<>> THEN None ELSE [scene EXCEPT !.active = Last(scene.meshes)]

\* An object is deleted.
Without(meshes, m) == RemoveAt(meshes, CHOOSE k \in DOMAIN meshes : meshes[k] = m)

\* (mutant of Boolean) an object may be combined with itself.
Boolean_Same(scene, step) ==
  LET target == Resolved(scene, step.name)
      other == Resolved(scene, step.other)
  IN IF target = None \/ other = None THEN None
     ELSE [scene EXCEPT !.meshes = IF step.keep THEN @ ELSE Without(@, other), !.active = target]

\* The other object is deleted unless the step keeps it.
Boolean(scene, step) ==
  LET target == Resolved(scene, step.name)
      other == Resolved(scene, step.other)
  IN IF target = None \/ other = None \/ target = other THEN None
     ELSE [scene EXCEPT !.meshes = IF step.keep THEN @ ELSE Without(@, other), !.active = target]

\* Material, measure, repair and validate_mesh need one object.
OnOne(scene, step) == IF Resolved(scene, step.name) = None THEN None ELSE scene

\* The exporters need a mesh.
Exported(scene) == IF scene.meshes = <<>> THEN None ELSE scene

\* _execute on the opened scene; validate_printability accepts an empty one.
Applied(scene, step) ==
  CASE step.tool = "create" -> Created(scene, step)
    [] step.tool = "bevel" -> OnEveryMesh(scene)
    [] step.tool = "boolean" -> Boolean(scene, step)
    [] step.tool = "material" -> OnOne(scene, step)
    [] step.tool = "export" -> Exported(scene)
    [] step.tool = "printability" -> scene
-----------------------------------------------------------------------------
\* execute: the job is written and Blender starts.  A retry may come after the
\* snapshot of the step was restored, which keeps the result files.
Start ==
  /\ run.pc = "idle" /\ Len(done) < Len(Plan)
  /\ LET i == Len(done) + 1 IN
     /\ run.step # i \/ run.attempt < MaxAttempts
     /\ run' = [Idle EXCEPT !.pc = "started", !.step = i,
                            !.attempt = IF run.step = i THEN run.attempt + 1 ELSE 1,
                            !.before = IF run.step = i THEN run.before ELSE blend]
     /\ \/ UNCHANGED blend
        \/ run.step = i /\ blend' = run.before
  /\ UNCHANGED <<result, done, faults, struck, blind>>

\* (mutant of Execute) the scene is saved though the tool raised.
Execute_Saves ==
  /\ run.pc = "started"
  /\ run' = [run EXCEPT !.scene = blend,
       !.pc = IF Applied(blend, Plan[run.step]) = None THEN "failed" ELSE "applied"]
  /\ blend' = IF run'.pc = "failed" THEN [blend EXCEPT !.log = Append(@, Attempt)] ELSE blend
  /\ UNCHANGED <<result, done, faults, struck, blind>>

\* _ensure_scene and the tool.
Execute ==
  /\ run.pc = "started"
  /\ run' = [run EXCEPT !.scene = blend,
       !.pc = IF Applied(blend, Plan[run.step]) = None THEN "failed" ELSE "applied"]
  /\ UNCHANGED <<blend, result, done, faults, struck, blind>>

Save ==
  /\ run.pc = "applied"
  /\ blend' = [Applied(run.scene, Plan[run.step]) EXCEPT !.log = Append(@, Attempt)]
  /\ run' = [run EXCEPT !.pc = "saved"]
  /\ UNCHANGED <<result, done, faults, struck, blind>>

WriteResult ==
  /\ run.pc \in {"saved", "failed"}
  /\ result' = [result EXCEPT ![run.step] = [ok |-> run.pc = "saved", attempt |-> run.attempt]]
  /\ run' = [run EXCEPT !.pc = "ended", !.code = IF run.pc = "saved" THEN 0 ELSE 1]
  /\ UNCHANGED <<blend, done, faults, struck, blind>>

\* The runner's own error handler raises: Blender prints it and exits with 0.
WriteFails ==
  /\ run.pc \in {"saved", "failed"} /\ faults < MaxFaults
  /\ faults' = faults + 1
  /\ struck' = struck \cup {Attempt}
  /\ blind' = blind \cup {Attempt}
  /\ run' = [run EXCEPT !.pc = "ended", !.code = 0]
  /\ UNCHANGED <<blend, result, done>>

\* Blender crashes.
Crash ==
  /\ run.pc \in {"started", "applied", "saved", "failed"} /\ faults < MaxFaults
  /\ faults' = faults + 1
  /\ struck' = struck \cup {Attempt}
  /\ run' = [run EXCEPT !.pc = "ended", !.code = 1]
  /\ UNCHANGED <<blend, result, done, blind>>

\* The timeout: the process is killed and no result is read.
Timeout ==
  /\ run.pc \notin {"idle"} /\ faults < MaxFaults
  /\ faults' = faults + 1
  /\ struck' = struck \cup {Attempt}
  /\ run' = [run EXCEPT !.pc = "idle"]
  /\ UNCHANGED <<blend, result, done, blind>>

\* (mutant of Answer) the return code is not looked at.
Answer_AnyCode ==
  /\ run.pc = "ended"
  /\ LET read == result[run.step] IN
     /\ done' = IF read # None /\ read.ok THEN Append(done, run.attempt) ELSE done
     /\ run' = [run EXCEPT !.pc = "idle"]
  /\ UNCHANGED <<blend, result, faults, struck, blind>>

\* _read_result: ok when the file says so and the process ended with 0.
Answer ==
  /\ run.pc = "ended"
  /\ LET read == result[run.step] IN
     /\ done' = IF run.code = 0 /\ read # None /\ read.ok
                THEN Append(done, run.attempt) ELSE done
     /\ run' = [run EXCEPT !.pc = "idle"]
  /\ UNCHANGED <<blend, result, faults, struck, blind>>

Next == Start \/ Execute \/ Save \/ WriteResult \/ WriteFails \/ Crash \/ Timeout \/ Answer

Spec == Init /\ [][Next]_vars
=============================================================================
