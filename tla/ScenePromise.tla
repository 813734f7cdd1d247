---------------------------- MODULE ScenePromise ----------------------------
(***************************************************************************)
(* What the saved scene of a plan is for: the part of the state of         *)
(* BlenderRuns that a plan and its user depend on, and what is promised.   *)
(***************************************************************************)
EXTENDS Integers, FiniteSets, Functions

CONSTANT None  \* no reference, no file, no active object

VARIABLES
  blend,   \* workspace.blend: its scene
  run,     \* the process
  done,    \* how far the plan is: steps that were answered ok, by attempt
  \* history
  struck,  \* attempts that crashed, were killed or could not write their result
  blind    \* attempts that could not write their result

Attempt == <<run.step, run.attempt>>
InScene(a) == Cardinality({k \in DOMAIN blend.log : blend.log[k] = a})

\* A step answered ok is in the saved scene, through the crashes, timeouts and
\* restores of other attempts: the result of an attempt before it, which no
\* restore removes, is not taken for its own, unless it could not write one.
OkIsInScene ==
  \A i \in DOMAIN done : <<i, done[i]>> \notin blind => InScene(<<i, done[i]>>) = 1

\* An attempt that was not answered ok left nothing in the scene, so that the
\* retry builds the step a second time only after a crash, a timeout or a
\* result that could not be written.
TwiceOnlyAfterFault ==
  \A k \in DOMAIN blend.log :
    LET a == blend.log[k]
    IN \/ a[1] \in DOMAIN done /\ done[a[1]] = a[2]
       \/ a \in struck
       \/ run.pc # "idle" /\ a = Attempt

\* What the next step refers to by default is there: no tool deletes the object
\* it leaves active, and no two objects share a name.
ActiveExists ==
  /\ blend.active # None => blend.active \in Range(blend.meshes)
  /\ IsInjective(blend.meshes)

\* The saved scene is what the answers of the steps say it is.
SceneFollowsPlan == OkIsInScene /\ TwiceOnlyAfterFault /\ ActiveExists
=============================================================================
