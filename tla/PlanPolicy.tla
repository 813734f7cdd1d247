----------------------------- MODULE PlanPolicy -----------------------------
(***************************************************************************)
(* How a request becomes a plan and what a plan may do without a human     *)
(* (modeling/planner_service.py, planner.py, plan_sanitizer.py, policy.py, *)
(* discovery.py, tool_registry.py, intent_spec.py): the choice of the      *)
(* model and of the host, the checks on what the LLM answers, the policy,  *)
(* the approval, the correction of a failed step, and the gates of the     *)
(* executor.  Prompts are left out; an answer of the LLM is a record or    *)
(* None; the arguments of a step are a function from their keys to what   *)
(* the code tells apart of a value.                                        *)
(***************************************************************************)
EXTENDS Integers, Sequences, FiniteSets, SequencesExt, FiniteSetsExt, Functions

CONSTANTS
  Category,    \* the registry: a function from tool names to categories
  Software,    \* the host named by a tool's prefix
  Blocked,     \* names with a prefix of BLOCKED_TOOL_PREFIXES
  Internal,    \* registered tools that no plan may name
  Spatial,     \* tools that need modeling_spatial_resolution_enabled
  Relation,    \* tools that need modeling_relation_placement_enabled
  Distribute,  \* fusion.distribute_along
  GhostKeys, GhostExceptions,   \* argument names no handler has, and per tool the exceptions
  Heuristic,   \* the tools of the default steps of a host
  None

IsCategory(tool, category) == tool \in DOMAIN Category /\ Category[tool] = category

RequiresApproval(tool, risk) ==
  \/ tool \in Blocked
  \/ /\ ~IsCategory(tool, "read_only")
     /\ IsCategory(tool, "high_risk") \/ IsCategory(tool, "destructive") \/ risk = "high"

\* The flags are a subset of {"spatial", "relation", "sanitizer"}.
Toolset(flags) ==
  ((DOMAIN Category \ Internal) \ (IF "spatial" \in flags THEN {} ELSE Spatial))
    \ (IF "relation" \in flags THEN {} ELSE Relation)

-----------------------------------------------------------------------------
(* The sanitizer: args is a function from keys to "plain", "raw" (an       *)
(* expression like Plate.bbox.max_z), None, or an @-reference: "at", or    *)
(* "later" for an expression that does not begin with its reference.       *)
-----------------------------------------------------------------------------
AtRefs == {"at", "later"}

Remapped(args) ==
  IF "axis_line" \notin DOMAIN args THEN args
  ELSE LET rest == Restrict(args, DOMAIN args \ {"axis_line"})
           missing == "axis" \notin DOMAIN rest \/ rest["axis"] = None
       IN [k \in DOMAIN rest \cup {"axis"} |->
             IF k = "axis" /\ missing THEN args["axis_line"] ELSE rest[k]]

\* (mutant of HasGeomRef) only what the handlers would choke on.
HasGeomRef_Raw(value, flags) == value = "raw"

HasGeomRef(value, flags) == value = "raw" \/ (value \in AtRefs /\ "spatial" \notin flags)

Sanitize(tool, args, flags) ==
  LET named == Remapped(args)
      ghosts == GhostKeys \ (IF tool \in DOMAIN GhostExceptions THEN GhostExceptions[tool] ELSE {})
  IN Restrict(named, {k \in DOMAIN named \ ghosts : ~HasGeomRef(named[k], flags)})

-----------------------------------------------------------------------------
(* Planning                                                                *)
-----------------------------------------------------------------------------
\* The scores are the hints of each host found in the prompt.
ChooseSoftware(override, fusion, blender) ==
  CASE override # None -> override
    [] override = None /\ blender > fusion -> "blender"
    [] OTHER -> "fusion"

PlanStatus(mode, steps) ==
  CASE mode = "plan_only" -> "draft"
    [] mode # "plan_only" /\ (\E n \in DOMAIN steps : steps[n].approval) -> "waiting"
    [] OTHER -> "approved"

Plan(mode, software, steps) ==
  [mode |-> mode, software |-> software, steps |-> steps, status |-> PlanStatus(mode, steps)]

NewStep(tool, software, risk, approval, status, args) ==
  [tool |-> tool, software |-> software, risk |-> risk, approval |-> approval,
   status |-> status, args |-> args, disclosed |-> FALSE]

HeuristicPlan(payload) ==
  LET host == ChooseSoftware(payload.override, payload.fusion, payload.blender)
  IN Plan(payload.mode, host,
          [n \in DOMAIN Heuristic[host] |->
             NewStep(Heuristic[host][n], host, "medium", FALSE, "pending", <<>>)])

\* A step of the answer: tool, risk (anything unknown is low), ask, args.
StepFromItem(payload, host, item, flags) ==
  LET risk == IF item.risk \in {"low", "medium", "high"} THEN item.risk ELSE "low"
      approval == risk = "high" \/ item.ask
  IN NewStep(item.tool, IF item.tool \in DOMAIN Software THEN Software[item.tool] ELSE host, risk,
             approval, IF payload.mode = "plan_only" \/ ~approval THEN "pending" ELSE "waiting",
             IF "sanitizer" \in flags THEN Sanitize(item.tool, item.args, flags) ELSE item.args)

\* (mutant of Accepted) the answer is trusted to name tools of the schema.
Accepted_AnyTool(payload, answer, flags) ==
  answer # None /\ answer.software \in {"blender", "fusion"} /\ payload.override \in {None, answer.software}

Accepted(payload, answer, flags) ==
  /\ answer # None
  /\ answer.software \in {"blender", "fusion"}
  /\ payload.override \in {None, answer.software}
  /\ answer.steps # <<>>
  /\ \A n \in DOMAIN answer.steps : answer.steps[n].tool \in Toolset(flags)

\* The first of two attempts whose answer is accepted, or the default steps.
BuildPlan(model, payload, answers, flags) ==
  LET good == {n \in {1, 2} : Accepted(payload, answers[n], flags)}
      answer == answers[Min(good)]
  IN IF model = None \/ good = {}
     THEN [plan |-> HeuristicPlan(payload), source |-> "heuristic",
           reason |-> IF model = None THEN "planner_model_unavailable" ELSE "llm error"]
     ELSE [plan |-> Plan(payload.mode, answer.software,
                         [n \in DOMAIN answer.steps |->
                            StepFromItem(payload, answer.software, answer.steps[n], flags)]),
           source |-> "llm", reason |-> None]

-----------------------------------------------------------------------------
(* The policy, the approval and the correction                             *)
-----------------------------------------------------------------------------
\* The expansion of this step joins bodies: "alternate" is a list of at least two.
Combines(step) == step.tool = Distribute /\ "alternate" \in DOMAIN step.args

\* (mutant of PolicyStep) a step is only ever raised to waiting.
PolicyStep_Raise(step) ==
  LET required == RequiresApproval(step.tool, step.risk) \/ Combines(step)
  IN [step EXCEPT !.approval = required, !.status = IF required THEN "waiting" ELSE step.status]

PolicyStep(step) ==
  LET required == RequiresApproval(step.tool, step.risk) \/ Combines(step)
  IN [step EXCEPT !.approval = required,
                  !.status = CASE step.tool \in Blocked -> "waiting"
                               [] required /\ step.status = "pending" -> "waiting"
                               [] ~required /\ step.status = "waiting" -> "pending"
                               [] OTHER -> step.status]

ApplyPolicy(plan) ==
  LET steps == [n \in DOMAIN plan.steps |-> PolicyStep(plan.steps[n])]
  IN [plan EXCEPT !.steps = steps,
                  !.status = CASE plan.mode = "plan_only" -> "draft"
                               [] plan.mode # "plan_only" /\ (\E n \in DOMAIN steps : steps[n].approval)
                                    -> "waiting"
                               [] OTHER -> IF plan.status = "draft" \/ plan.status = "waiting"
                                           THEN "approved" ELSE plan.status]

\* disclosed is what the human saw: the step was on the card that was approved.
ApplyApproval(plan, approve) ==
  IF ~approve THEN [plan EXCEPT !.status = "rejected"]
  ELSE [plan EXCEPT !.status = "approved",
                    !.steps = [n \in DOMAIN plan.steps |->
                       LET step == plan.steps[n]
                       IN IF step.approval /\ step.status = "waiting"
                          THEN [step EXCEPT !.status = "approved", !.disclosed = TRUE] ELSE step]]

\* A corrected step replaces the failed one, or None: no correction.
\* (mutant of CorrectedStep) any tool of the set.
CorrectedStep_Any(step, answer, flags) ==
  IF answer = None \/ answer.tool \notin Toolset(flags) THEN None
  ELSE [step EXCEPT !.tool = answer.tool, !.args = answer.args, !.status = "approved"]

CorrectedStep(step, answer, flags) ==
  IF \/ answer = None \/ answer.tool \notin Toolset(flags)
     \/ RequiresApproval(answer.tool, step.risk) /\ ~RequiresApproval(step.tool, step.risk)
  THEN None
  ELSE [step EXCEPT !.tool = answer.tool, !.args = answer.args, !.status = "approved"]

-----------------------------------------------------------------------------
(* The gates of the executor                                               *)
-----------------------------------------------------------------------------
\* The policy leaves an error on a step of a blocked tool, which no approval lifts.
Runnable(step) == step.tool \notin Blocked /\ (step.approval => step.status = "approved")

\* A read-only step is never resolved, whatever its arguments.
Expands(step, flags) ==
  \/ step.tool \in Spatial /\ "spatial" \in flags /\ ~IsCategory(step.tool, "read_only")
  \/ step.tool \in Relation /\ "relation" \in flags

\* What a declarative step becomes; a relation may distribute too, in its own way.
Concrete(step) ==
  IF "alternate" \in DOMAIN step.args /\ step.tool \in {Distribute} \cup Relation
  THEN <<"add_box", "combine_bodies">> ELSE <<"joint">>

Dangerous(tool) ==
  IsCategory(tool, "high_risk") \/ tool \in Blocked \/ IsCategory(tool, "destructive")

\* The tools that are dispatched for a step that nothing fails.
Dispatched(step, flags) ==
  LET concrete == Concrete(step)
      cleared == step.approval /\ step.status = "approved"
  IN IF ~Runnable(step) THEN <<>>
     ELSE IF ~Expands(step, flags) THEN <<step.tool>>
     ELSE IF (\E n \in DOMAIN concrete : Dangerous(concrete[n])) /\ ~cleared THEN <<>>
     ELSE concrete

-----------------------------------------------------------------------------
(* Discovery                                                               *)
-----------------------------------------------------------------------------
\* (mutant of Assess) a request that is not ready has the questions it came with.
Assess_Silent(model, answer, threshold, existing) ==
  IF model = None \/ answer = None
  THEN [ready |-> TRUE, questions |-> 0, brief |-> "prompt", intent |-> "edit"]
  ELSE [ready |-> answer.ready /\ answer.confidence >= threshold, questions |-> answer.questions,
        brief |-> None, intent |-> "edit"]

\* What the LLM said of the request, against the threshold of confidence.
Assess(model, answer, threshold, existing) ==
  LET intent == IF ~existing THEN "new_model"
                ELSE IF answer.intent \in {"edit", "new_model", "ambiguous"} THEN answer.intent
                ELSE "edit"
      ready == answer.ready /\ answer.confidence >= threshold /\ answer.questions = 0
  IN IF model = None \/ answer = None
     THEN [ready |-> TRUE, questions |-> 0, brief |-> "prompt",
           intent |-> IF existing THEN "edit" ELSE "new_model"]
     ELSE [ready |-> ready, intent |-> intent,
           questions |-> IF ready THEN 0 ELSE Max({1, answer.questions}),
           brief |-> IF ready THEN answer.brief ELSE None]
=============================================================================
