---------------------------- MODULE ModelCritique ----------------------------
(***************************************************************************)
(* What a plan says it will leave behind (modeling/intent_spec.py): the    *)
(* number of bodies and their names, derived from the declared steps alone *)
(* and left open as soon as one of them cannot be counted.  And the report *)
(* on a finished model (modeling/model_critique.py): what was intended     *)
(* against the bodies that were read back and the history of the steps.    *)
(* It only reports: nothing is planned again from it.                      *)
(***************************************************************************)
EXTENDS Integers, Sequences, FiniteSets, SequencesExt

CONSTANT None
-----------------------------------------------------------------------------
(* The intent                                                              *)
-----------------------------------------------------------------------------
NamedPrimitives == {"add_box", "add_cylinder", "add_sphere", "add_cone"}
ProfileCreators == {"extrude_profile", "revolve_profile", "loft_profiles", "sweep_profile",
                    "thicken_surface", "create_surface_patch"}
Uncountable == {"pattern_rectangular", "pattern_circular", "mirror_feature", "stitch_surfaces",
                "unstitch_surface", "trim_surface", "extend_surface", "offset_surface",
                "knuckle_hinge", "metric_screw"}
Declarative == {"place_body", "align_axis", "distribute_along", "relate_bodies"}

Start == [count |-> 0, countKnown |-> TRUE, namesKnown |-> TRUE, live |-> {}, joints |-> FALSE]

Blur(s) == [s EXCEPT !.countKnown = FALSE, !.namesKnown = FALSE]
Created(s, name) == [s EXCEPT !.count = @ + 1, !.namesKnown = @ /\ name # None,
                              !.live = @ \cup ({name} \ {None})]
\* (mutant of Consumed) the bodies that are joined still count.
Consumed_Kept(s, step) == [s EXCEPT !.live = @ \ Range(step.refs)]

Consumed(s, step) ==
  LET counted == IF step.refs = <<>> THEN [s EXCEPT !.countKnown = FALSE]
                 ELSE [s EXCEPT !.count = @ - Len(step.refs), !.live = @ \ Range(step.refs)]
  IN IF step.result = None THEN counted
     ELSE [counted EXCEPT !.live = (@ \ {step.ref}) \cup {step.result}]

Declare(s, step) ==
  CASE step.tool \in NamedPrimitives -> Created(s, step.name)
    [] step.tool \in ProfileCreators ->
         CASE step.op = "new_body" -> Created(s, None)
           [] step.op \in {"join", "cut", "intersect"} -> [s EXCEPT !.namesKnown = FALSE]
           [] OTHER -> Blur(s)
    [] step.tool = "split_body" -> Created(s, None)
    [] step.tool \in Uncountable -> Blur(s)
    [] step.tool = "combine_bodies" -> Consumed(s, step)
    [] step.tool = "delete_body" -> [s EXCEPT !.count = @ - 1, !.live = @ \ {step.ref}]
    [] step.tool \in Declarative ->
         [s EXCEPT !.countKnown = FALSE, !.joints = TRUE,
                   !.namesKnown = @ /\ step.tool # "distribute_along"]
    [] OTHER -> s   \* a tool of the registry that makes and takes no body

\* count is None when it is left open; the names only speak when all are known.
IntentFromPlan(steps, oneShot) ==
  LET s == FoldLeft(Declare, Start, steps)
  IN IF ~oneShot THEN [count |-> None, bodies |-> {}, disjoint |-> {}]
     ELSE [count |-> IF s.countKnown /\ s.count >= 0 THEN s.count ELSE None,
           bodies |-> IF s.namesKnown THEN s.live ELSE {},
           disjoint |-> IF s.namesKnown /\ ~s.joints /\ Cardinality(s.live) >= 2 THEN s.live ELSE {}]
-----------------------------------------------------------------------------
(* The verdict                                                             *)
-----------------------------------------------------------------------------
\* make_component and joint move no metric of a body.
Neutral == {"make_component", "joint"}

Finding(kind, severity, check) == [kind |-> kind, severity |-> severity, check |-> check]

\* (mutant of BodyCount) one body too many is not looked at.
BodyCount_Floor(intent, bodies) ==
  IF intent.count = None THEN <<>>
  ELSE IF Len(bodies) >= intent.count THEN <<Finding("correct", "info", "body_count")>>
  ELSE <<Finding("missing", "error", "body_count")>>

BodyCount(intent, bodies) ==
  CASE intent.count = None -> <<>>
    [] Len(bodies) = intent.count -> <<Finding("correct", "info", "body_count")>>
    [] OTHER -> <<Finding(IF Len(bodies) > intent.count THEN "excess" ELSE "missing",
                          "error", "body_count")>>

OrphanBodies(intent, bodies) ==
  IF intent.bodies = {} THEN <<>>
  ELSE LET orphans == SelectSeq(bodies, LAMBDA b : b.name # None /\ b.name \notin intent.bodies)
       IN [n \in DOMAIN orphans |-> Finding("excess", "warn", "orphan_body")]

\* overlapping is a set of pairs of names, those whose boxes intersect.
Interference(intent, bodies, overlapping) ==
  LET names == {b.name : b \in Range(bodies)} \cap intent.disjoint
      pairs == {p \in overlapping : p \subseteq names /\ Cardinality(p) = 2}
  IN [n \in 1 .. Cardinality(pairs) |-> Finding("wrong", "error", "interference")]

\* A step whose record is empty although the model was read before and after it.
OpNoEffect(history) ==
  LET idle == SelectSeq(history, LAMBDA r : /\ r.category # "read_only"
                                            /\ r.tool \notin Neutral
                                            /\ r.empty /\ r.captured)
  IN [n \in DOMAIN idle |-> Finding("missing", "warn", "op_no_effect")]

Overall(findings) ==
  CASE \E f \in Range(findings) : f.severity = "critical" -> "broken"
    [] ~(\E f \in Range(findings) : f.severity = "critical")
         /\ (\E f \in Range(findings) : f.kind \in {"excess", "wrong"}) -> "diverged"
    [] OTHER -> IF \E f \in Range(findings) : f.kind = "missing" THEN "incomplete" ELSE "ok"

\* Without a state that was read back there is no verdict, instead of a model of
\* no bodies.  semantic is what the reader of the screenshots found.
BuildModelVerdict(intent, history, bodies, overlapping, semantic) ==
  IF bodies = None THEN None
  ELSE LET findings == BodyCount(intent, bodies) \o OrphanBodies(intent, bodies)
                         \o Interference(intent, bodies, overlapping)
                         \o OpNoEffect(history) \o semantic
       IN [overall |-> Overall(findings), findings |-> findings]

\* What the user is warned of, or None.
VerdictNotice(verdict) ==
  IF verdict = None THEN None
  ELSE LET issues == SelectSeq(verdict.findings, LAMBDA f : f.kind # "correct")
       IN IF verdict.overall = "ok" \/ issues = <<>> THEN None
          ELSE [head |-> verdict.overall, issues |-> SubSeq(issues, 1, IF Len(issues) < 5 THEN Len(issues) ELSE 5)]
=============================================================================
