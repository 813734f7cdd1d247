---------------------------- MODULE ModelingChat ----------------------------
(***************************************************************************)
(* One 3D modelling chat, its plans and the CAD document they build:       *)
(* api/routes/modeling.py and chat_modeling.py (the handlers),             *)
(* modeling/chat_orchestrator.py and chat_state.py (the stages of the      *)
(* chat), modeling/policy.py and service.py (approval, gates, edits, undo),*)
(* modeling/executor.py and agent_loop.py (the linear and the agentic run).*)
(*                                                                         *)
(* Handlers run in a thread pool over one store.  A step is one write of a *)
(* row or one call to the CAD host, with the reads just before it; the     *)
(* chat row and the plan row are always written whole, from the copy the   *)
(* handler took earlier.                                                   *)
(***************************************************************************)
EXTENDS Integers, Sequences, FiniteSets, FiniteSetsExt

CONSTANTS
  Clients,         \* threads that serve a request for the chat
  MaxPlans,        \* bound: plans ever proposed
  NumSteps,        \* steps of a plan
  MaxVersion,      \* bound: versions of a plan's content
  MaxCorrections,  \* MAX_CORRECTION_ITERATIONS (5) of the agentic loop
  MaxRequests,     \* bound: requests
  MaxCrashes,      \* bound: process deaths
  MaxRaises,       \* bound: exceptions that escape a run
  Loop,            \* settings.modeling_agentic_loop_enabled
  Outcomes,        \* what a call to the CAD host may come to
  PlanOnly         \* the execution modes proposed: TRUE for plan_only

ASSUME ConstantsAssumption ==
  /\ MaxPlans \in Nat /\ NumSteps \in Nat \ {0} /\ MaxVersion \in Nat \ {0}
  /\ MaxCorrections \in Nat \ {0} /\ MaxRequests \in Nat
  /\ MaxCrashes \in Nat /\ MaxRaises \in Nat
  /\ Loop \in BOOLEAN /\ PlanOnly \subseteq BOOLEAN
  /\ Outcomes \subseteq {"ok", "error", "lost", "diverged"}
  /\ "diverged" \in Outcomes => Loop

PlanIds == 1 .. MaxPlans
StepIds == 1 .. NumSteps
NoPlan == 0
Unmarked == -1           \* no rollback_marker

VARIABLES
  chat,       \* the session row: its modeling_stage and modeling_plan_id
  plans,      \* the plan rows
  doc,        \* the active CAD document: the plan that opened it, its timeline
  req,        \* req[c]: what handler c is doing, with its local copies
  left,       \* what remains of the bounds
  approvals,  \* history: contents (plan, version) a user approved
  rejected,   \* history: plans a rejection was saved for
  aborted,    \* history: plans whose last run the loop gave up
  strayed     \* history: steps whose call was lost or did something else

vars == <<chat, plans, doc, req, left, approvals, rejected, aborted, strayed>>
history == <<approvals, rejected, aborted, strayed>>

Stages == {"discovery", "planning", "approved", "executing", "editing", "failed"}
Statuses == {"none", "draft", "waiting_approval", "approved", "running",
             "completed", "failed", "rejected"}
StepStatuses == {"pending", "waiting_approval", "approved", "completed", "failed"}
Kinds == {"primary", "edit"}

Chats == [stage : Stages, plan : PlanIds \cup {NoPlan}]
\* risky: the steps with approval_required; mark: rollback_marker.
Plan ==
  [kind : Kinds, only : BOOLEAN, status : Statuses, steps : [StepIds -> StepStatuses],
   risky : SUBSET StepIds, ver : 0 .. MaxVersion, mark : Nat \cup {Unmarked}]
Absent ==
  [kind |-> "primary", only |-> FALSE, status |-> "none",
   steps |-> [s \in StepIds |-> "pending"], risky |-> {}, ver |-> 0, mark |-> Unmarked]

Pcs == {"idle", "turn", "opened", "timeline", "link", "ask", "auto", "card", "title",
        "reload", "decide", "advance", "edit", "load", "start",
        "run", "persist", "judge", "revert", "capture", "outcome"}
Ops == {"none", "turn", "approve", "reject", "edit", "execute"}
Idle == [pc |-> "idle", op |-> "none", plan |-> NoPlan,
         chat |-> [stage |-> "discovery", plan |-> NoPlan], snap |-> Absent,
         todo |-> {}, tries |-> 0, bad |-> FALSE, mark |-> 0]

Requests ==
  [pc : Pcs, op : Ops, plan : PlanIds \cup {NoPlan}, chat : Chats, snap : Plan,
   todo : SUBSET StepIds, tries : 0 .. MaxCorrections, bad : BOOLEAN, mark : Nat]

TypeOK ==
  /\ chat \in Chats
  /\ plans \in [PlanIds -> Plan]
  /\ doc \in [owner : PlanIds \cup {NoPlan}, made : Seq(PlanIds \X StepIds)]
  /\ req \in [Clients -> Requests]
  /\ approvals \subseteq PlanIds \X (1 .. MaxVersion)
  /\ rejected \subseteq PlanIds /\ aborted \subseteq PlanIds
  /\ strayed \subseteq PlanIds \X StepIds

Init ==
  /\ chat = [stage |-> "discovery", plan |-> NoPlan]
  /\ plans = [p \in PlanIds |-> Absent]
  /\ doc = [owner |-> NoPlan, made |-> <<>>]
  /\ req = [c \in Clients |-> Idle]
  /\ left = [requests |-> MaxRequests, crashes |-> MaxCrashes, raises |-> MaxRaises]
  /\ approvals = {} /\ rejected = {} /\ aborted = {} /\ strayed = {}

Spends(what) == left[what] > 0 /\ left' = [left EXCEPT ![what] = @ - 1]
At(c, pc) == req[c].pc = pc
Become(c, rec) == req' = [req EXCEPT ![c] = rec]
Arrives(c) == req[c] = Idle /\ Spends("requests")
Me(c) == plans[req[c].plan]

-----------------------------------------------------------------------------
(***************************************************************************)
(* chat_state.py: the transitions of the stage                             *)
(***************************************************************************)
Transitions ==
  {<<"discovery", "plan_proposed", "planning">>,
   <<"editing",   "plan_proposed", "planning">>,
   <<"failed",    "plan_proposed", "planning">>,
   <<"planning",  "plan_approved", "approved">>,
   <<"planning",  "plan_rejected", "discovery">>,
   <<"approved",  "execution_started", "executing">>,
   <<"executing", "execution_completed", "editing">>,
   <<"executing", "execution_failed", "failed">>,
   <<"failed",    "execution_started", "executing">>,
   <<"failed",    "plan_rejected", "discovery">>,
   <<"failed",    "edit_auto_executed", "editing">>,
   <<"failed",    "edit_high_risk_requested", "failed">>,
   <<"failed",    "edit_high_risk_approved", "editing">>,
   <<"failed",    "edit_high_risk_rejected", "discovery">>,
   <<"editing",   "edit_auto_executed", "editing">>,
   <<"editing",   "edit_high_risk_requested", "editing">>,
   <<"editing",   "edit_high_risk_approved", "editing">>,
   <<"editing",   "edit_high_risk_rejected", "discovery">>}

\* transition raises when the event is not legal in the stage.
Legal(stage, event) == \E t \in Transitions : t[1] = stage /\ t[2] = event
After(stage, event) == (CHOOSE t \in Transitions : t[1] = stage /\ t[2] = event)[3]

-----------------------------------------------------------------------------
(***************************************************************************)
(* policy.py and service.py: the state of a plan                           *)
(***************************************************************************)
\* apply_modeling_policy, of a plan none of whose steps has run.
Policy(plan) ==
  [plan EXCEPT
     !.steps = [s \in StepIds |-> IF s \in plan.risky THEN "waiting_approval" ELSE "pending"],
     !.status = CASE plan.only -> "draft"
                  [] ~plan.only /\ plan.risky # {} -> "waiting_approval"
                  [] OTHER -> "approved"]

\* (mutant of Decided) the rejection marks the steps as well.
Decided_RejectsSteps(plan, decision) ==
  [plan EXCEPT !.status = IF decision = "reject" THEN "rejected" ELSE "approved",
               !.steps = [s \in StepIds |->
                            CASE s \in plan.risky /\ decision = "reject"  -> "rejected"
                              [] s \in plan.risky /\ decision = "approve" -> "approved"
                              [] OTHER -> plan.steps[s]]]

\* apply_plan_approval.
Decided(plan, decision) ==
  IF decision = "reject" THEN [plan EXCEPT !.status = "rejected"]
  ELSE [plan EXCEPT
          !.status = "approved",
          !.steps = [s \in StepIds |->
                       IF s \in plan.risky /\ plan.steps[s] = "waiting_approval"
                       THEN "approved" ELSE plan.steps[s]]]

\* ensure_plan_approvable
Approvable(plan, decision) ==
  \/ plan.status \in {"draft", "waiting_approval", "approved"}
  \/ plan.status = "rejected" /\ decision = "reject"

\* (mutant of Executable) a rejected plan passes the gate.
Executable_Rejected(plan) == plan.status \in {"approved", "failed", "running", "draft", "rejected"}

\* ensure_plan_executable
Executable(plan) == plan.status \in {"approved", "failed", "running", "draft"}

\* (mutant of Runnable) completed steps run again.
Runnable_RerunsCompleted(plan) ==
  {s \in StepIds : s \in plan.risky => plan.steps[s] \in {"approved", "completed"}}

\* What a run executes: completed steps are skipped, failed ones run again, a
\* step that requires approval runs only while it is approved.
Runnable(plan) ==
  {s \in StepIds : /\ plan.steps[s] # "completed"
                   /\ s \in plan.risky => plan.steps[s] = "approved"}

\* The status a run leaves: a step that did not run was blocked.
FinalStatus(plan) ==
  CASE \E s \in StepIds : plan.steps[s] = "failed" -> "failed"
    [] \A s \in StepIds : plan.steps[s] = "completed" -> "completed"
    [] OTHER -> "running"

-----------------------------------------------------------------------------
(***************************************************************************)
(* The CAD document (external): a primary plan starts by opening a new     *)
(* one, every other step adds to the timeline of the active one.           *)
(***************************************************************************)
Build(kind, p, s) ==
  IF kind = "primary" /\ s = 1 THEN [owner |-> p, made |-> <<>>]
  ELSE [doc EXCEPT !.made = Append(@, <<p, s>>)]

\* fusion.rollback_timeline deletes from the end: a target beyond the timeline
\* deletes nothing, and what the host refuses to delete stays.
Reverted(target) ==
  {[doc EXCEPT !.made = SubSeq(@, 1, n)] : n \in Min({target, Len(doc.made)}) .. Len(doc.made)}

-----------------------------------------------------------------------------
(***************************************************************************)
(* A turn of the chat stream                                               *)
(***************************************************************************)
\* stream_chat reads the session ...
StartTurn(c) ==
  /\ Arrives(c)
  /\ Become(c, [Idle EXCEPT !.pc = "turn", !.op = "turn", !.chat = chat])
  /\ UNCHANGED <<chat, plans, doc, history>>

\* ... and writes it back with the context of the turn.
OpenTurn(c) ==
  /\ At(c, "turn")
  /\ chat' = req[c].chat
  /\ Become(c, [req[c] EXCEPT !.pc = "opened"])
  /\ UNCHANGED <<plans, doc, left, history>>

HasModel(stage) == stage \in {"editing", "failed"}

\* Discovery is not satisfied, or cannot tell an edit from a new model.
Clarify(c) ==
  /\ At(c, "opened")
  /\ chat' = [req[c].chat EXCEPT !.stage = IF HasModel(@) THEN "editing" ELSE "discovery"]
  /\ Become(c, Idle)
  /\ UNCHANGED <<plans, doc, left, history>>

Unused == {p \in PlanIds : plans[p].status = "none"}

\* What the planner makes of the answer of the LLM, or without one.
Planned(kind, only, risky, mark) ==
  [Absent EXCEPT !.kind = kind, !.only = only, !.risky = risky, !.ver = 1, !.mark = mark]

\* The planner persists a new plan, after the policy.
CreatePlan(c, pc, kind, risky, mark) ==
  /\ Unused # {}
  /\ \E only \in PlanOnly :
       LET p == Min(Unused)
           plan == Policy(Planned(kind, only, risky, mark)) IN
       /\ plans' = [plans EXCEPT ![p] = plan]
       /\ Become(c, [req[c] EXCEPT !.pc = pc, !.plan = p, !.snap = plan])
  /\ UNCHANGED <<chat, doc, left, history>>

\* propose_plan; opening the document (step 1) is not risky.
ProposePrimary(c) ==
  /\ At(c, "opened")
  /\ \E risky \in SUBSET (StepIds \ {1}) : CreatePlan(c, "link", "primary", risky, Unmarked)

\* The transition comes after the plan was saved, and may raise.
LinkPlan(c) ==
  /\ At(c, "link")
  /\ LET me == req[c]
         linked == [stage |-> "planning", plan |-> me.plan] IN
       IF Legal(me.chat.stage, "plan_proposed")
       THEN /\ chat' = linked
            /\ Become(c, [me EXCEPT !.pc = "card", !.chat = linked])
       ELSE Become(c, Idle) /\ UNCHANGED chat
  /\ UNCHANGED <<plans, doc, left, history>>

\* propose_edit_plan reads the timeline, then plans; the plan gets the length
\* read as its rollback_marker if the host answered and the edit is one that
\* adds to the timeline.
ReadTimeline(c) ==
  /\ At(c, "opened") /\ HasModel(req[c].chat.stage) /\ Unused # {}
  /\ Become(c, [req[c] EXCEPT !.pc = "timeline", !.mark = Len(doc.made)])
  /\ UNCHANGED <<chat, plans, doc, left, history>>

ProposeEdit(c) ==
  /\ At(c, "timeline")
  /\ \E risky \in SUBSET StepIds, mark \in {req[c].mark, Unmarked} :
       CreatePlan(c, IF risky = {} THEN "auto" ELSE "ask", "edit", risky, mark)

\* A risky edit waits for its approval.
AskEdit(c) ==
  /\ At(c, "ask")
  /\ chat' = [req[c].chat EXCEPT !.stage = After(@, "edit_high_risk_requested")]
  /\ Become(c, [req[c] EXCEPT !.pc = "card"])
  /\ UNCHANGED <<plans, doc, left, history>>

\* Where a run of plan row snap starts; a draft executes nothing.
Begin(c, snap) ==
  [req[c] EXCEPT !.pc = IF snap.status = "draft" THEN "capture" ELSE "run",
                 !.snap = snap, !.todo = Runnable(snap), !.mark = Len(doc.made)]

\* Any other edit is approved and executed at once.
AutoApprove(c) ==
  /\ At(c, "auto")
  /\ LET plan == Decided(req[c].snap, "approve") IN
       /\ plans' = [plans EXCEPT ![req[c].plan] = plan]
       /\ Become(c, Begin(c, plan))
  /\ aborted' = aborted \ {req[c].plan}
  /\ UNCHANGED <<chat, doc, left, approvals, rejected, strayed>>

\* The stream writes the plan once more (trace id, new document) and makes a
\* primary plan wait for its approval.
SaveCard(c) ==
  /\ At(c, "card")
  /\ LET plan == IF req[c].snap.kind = "primary"
                 THEN [req[c].snap EXCEPT !.status = "waiting_approval"] ELSE req[c].snap IN
       plans' = [plans EXCEPT ![req[c].plan] = plan]
  /\ Become(c, [req[c] EXCEPT !.pc = "title"])
  /\ UNCHANGED <<chat, doc, left, history>>

\* The title of a chat that still has a default one.
SaveTitle(c) ==
  /\ At(c, "title")
  /\ chat' \in {chat, req[c].chat}
  /\ Become(c, Idle)
  /\ UNCHANGED <<plans, doc, left, history>>

-----------------------------------------------------------------------------
(***************************************************************************)
(* The card: approve or reject, edit, execute, undo                        *)
(***************************************************************************)
\* The route reads the plan, applies the gate (409) and reads the session ...
StartDecision(c, p, decision) ==
  /\ Arrives(c)
  /\ Approvable(plans[p], decision)
  /\ Become(c, [Idle EXCEPT !.pc = "reload", !.op = decision, !.plan = p, !.chat = chat])
  /\ UNCHANGED <<chat, plans, doc, history>>

\* ... the orchestrator reads the plan again, without a gate, ...
Reload(c) ==
  /\ At(c, "reload")
  /\ Become(c, [req[c] EXCEPT !.pc = "decide", !.snap = Me(c)])
  /\ UNCHANGED <<chat, plans, doc, left, history>>

\* (mutant of SaveDecision) the decision is applied to the row as it is by now.
SaveDecision_OnRow(c) ==
  /\ At(c, "decide")
  /\ LET me == req[c] IN
       /\ plans' = [plans EXCEPT ![me.plan] = Decided(@, me.op)]
       /\ IF me.op = "approve"
          THEN approvals' = approvals \cup {<<me.plan, me.snap.ver>>} /\ UNCHANGED rejected
          ELSE rejected' = rejected \cup {me.plan} /\ UNCHANGED approvals
       /\ Become(c, [me EXCEPT !.pc = "advance"])
  /\ UNCHANGED <<chat, doc, left, aborted, strayed>>

\* ... saves the decision ...
SaveDecision(c) ==
  /\ At(c, "decide")
  /\ LET me == req[c] IN
       /\ plans' = [plans EXCEPT ![me.plan] = Decided(me.snap, me.op)]
       /\ IF me.op = "approve"
          THEN approvals' = approvals \cup {<<me.plan, me.snap.ver>>} /\ UNCHANGED rejected
          ELSE rejected' = rejected \cup {me.plan} /\ UNCHANGED approvals
       /\ Become(c, [me EXCEPT !.pc = "advance"])
  /\ UNCHANGED <<chat, doc, left, aborted, strayed>>

\* approve_plan_only, reject: the event depends on the stage.
DecisionEvent(stage, decision) ==
  CASE stage = "editing" /\ decision = "approve" -> "edit_high_risk_approved"
    [] stage = "editing" /\ decision = "reject"  -> "edit_high_risk_rejected"
    [] stage # "editing" /\ decision = "approve" -> "plan_approved"
    [] OTHER                                     -> "plan_rejected"

\* ... and only then moves the chat, which may raise (409).
Advance(c) ==
  /\ At(c, "advance")
  /\ LET me == req[c]
         event == DecisionEvent(me.chat.stage, me.op) IN
       IF Legal(me.chat.stage, event)
       THEN chat' = [stage |-> After(me.chat.stage, event),
                     plan |-> IF event = "plan_rejected" THEN NoPlan ELSE me.chat.plan]
       ELSE UNCHANGED chat
  /\ Become(c, Idle)
  /\ UNCHANGED <<plans, doc, left, history>>

\* edit_plan: only before the approval ...
StartEdit(c, p) ==
  /\ Arrives(c)
  /\ plans[p].status \in {"draft", "waiting_approval"} /\ plans[p].ver < MaxVersion
  /\ Become(c, [Idle EXCEPT !.pc = "edit", !.op = "edit", !.plan = p, !.snap = plans[p]])
  /\ UNCHANGED <<chat, plans, doc, history>>

\* ... and what comes out waits for the approval again.
SaveEdit(c) ==
  /\ At(c, "edit")
  /\ \E risky \in SUBSET StepIds :
       LET plan == Policy([req[c].snap EXCEPT !.risky = risky, !.ver = @ + 1]) IN
       plans' = [plans EXCEPT
                   ![req[c].plan] = IF plan.status = "approved"
                                    THEN [plan EXCEPT !.status = "waiting_approval"] ELSE plan]
  /\ Become(c, Idle)
  /\ UNCHANGED <<chat, doc, left, history>>

\* The route applies the gate (409) and reads the session ...
StartExecute(c, p) ==
  /\ Arrives(c)
  /\ Executable(plans[p])
  /\ Become(c, [Idle EXCEPT !.pc = "load", !.op = "execute", !.plan = p, !.chat = chat])
  /\ UNCHANGED <<chat, plans, doc, history>>

\* ... the orchestrator reads the plan again; its gate lets completed pass.  An
\* implicit approval, which left the chat in planning, is caught up with ...
LoadExecute(c) ==
  /\ At(c, "load")
  /\ LET me == req[c]
         plan == Me(c)
         caught == [me.chat EXCEPT !.stage = "approved"]
         loaded == [me EXCEPT !.pc = "start", !.snap = plan]
         passes == Executable(plan) \/ plan.status = "completed"
         behind == me.chat.stage = "planning" /\ plan.status = "approved" IN
       \/ ~passes /\ Become(c, Idle) /\ UNCHANGED chat
       \/ passes /\ ~behind /\ Become(c, loaded) /\ UNCHANGED chat
       \/ passes /\ behind /\ Become(c, [loaded EXCEPT !.chat = caught]) /\ chat' = caught
  /\ UNCHANGED <<plans, doc, left, history>>

\* ... and the execution starts: from approved or failed the chat moves on.
StartRun(c) ==
  /\ At(c, "start")
  /\ LET me == req[c]
         started == [me.chat EXCEPT !.stage = "executing"] IN
       IF me.chat.stage \in {"approved", "failed"}
       THEN Become(c, [Begin(c, me.snap) EXCEPT !.chat = started]) /\ chat' = started
       ELSE Become(c, Begin(c, me.snap)) /\ UNCHANGED chat
  /\ aborted' = aborted \ {req[c].plan}
  /\ UNCHANGED <<plans, doc, left, approvals, rejected, strayed>>

\* rollback_last_edit: a linear run of one rollback step, in a plan of its own.
Undo(c, p) ==
  /\ Arrives(c)
  /\ plans[p].mark # Unmarked
  /\ doc' \in Reverted(plans[p].mark)
  /\ UNCHANGED <<chat, plans, req, history>>

-----------------------------------------------------------------------------
(***************************************************************************)
(* A run.  The linear executor calls the host for one step after another   *)
(* and saves the plan at the end; the loop saves it after every call,      *)
(* corrects a step that failed or diverged, and gives up at the limit.     *)
(***************************************************************************)
Running(c) == At(c, "run") /\ req[c].todo # {}
Step(c) == Min(req[c].todo)

Dispatch(c) ==
  /\ Running(c)
  /\ \E o \in Outcomes :
       LET me == req[c]
           s == Step(c)
           result == IF o \in {"ok", "diverged"} THEN "completed" ELSE "failed"
           done == [me EXCEPT !.snap.steps[s] = result] IN
       /\ doc' = IF o = "error" THEN doc ELSE Build(me.snap.kind, me.plan, s)
       /\ Become(c, IF Loop THEN [done EXCEPT !.pc = "persist", !.bad = (o # "ok")]
                    ELSE [done EXCEPT !.todo = @ \ {s}])
       /\ strayed' = IF o \in {"lost", "diverged"} THEN strayed \cup {<<me.plan, s>>} ELSE strayed
  /\ UNCHANGED <<chat, plans, left, approvals, rejected, aborted>>

\* (mutant of Persist) the progress is kept in memory only.
Persist_Skipped(c) ==
  /\ At(c, "persist")
  /\ IF req[c].bad THEN Become(c, [req[c] EXCEPT !.pc = "judge"])
     ELSE Become(c, [req[c] EXCEPT !.pc = "run", !.todo = @ \ {Step(c)}, !.tries = 0])
  /\ UNCHANGED <<chat, plans, doc, left, history>>

\* _persist_progress
Persist(c) ==
  /\ At(c, "persist")
  /\ plans' = [plans EXCEPT ![req[c].plan] = [req[c].snap EXCEPT !.status = "running"]]
  /\ IF req[c].bad THEN Become(c, [req[c] EXCEPT !.pc = "judge"])
     ELSE Become(c, [req[c] EXCEPT !.pc = "run", !.todo = @ \ {Step(c)}, !.tries = 0])
  /\ UNCHANGED <<chat, doc, left, history>>

\* (mutant of Correct) the attempts are not counted.
Correct_NoLimit(c) ==
  /\ At(c, "judge")
  /\ Become(c, [req[c] EXCEPT !.pc = "run"])
  /\ UNCHANGED <<chat, plans, doc, left, history>>

\* The corrected step runs in place of the step, without a new approval.
Correct(c) ==
  /\ At(c, "judge") /\ req[c].tries < MaxCorrections
  /\ Become(c, [req[c] EXCEPT !.pc = "run", !.tries = @ + 1])
  /\ UNCHANGED <<chat, plans, doc, left, history>>

\* (mutant of Exhaust) a step that diverged stays completed.
Exhaust_KeepsCompleted(c) ==
  /\ At(c, "judge")
  /\ Become(c, [req[c] EXCEPT !.pc = "revert", !.todo = {}])
  /\ aborted' = aborted \cup {req[c].plan}
  /\ UNCHANGED <<chat, plans, doc, left, approvals, rejected, strayed>>

\* No correction, or no attempt left: the step is failed - which is saved when
\* it was completed and diverged - and the remaining steps are blocked ...
Exhaust(c) ==
  /\ At(c, "judge")
  /\ LET me == req[c]
         failed == [me.snap EXCEPT !.steps[Step(c)] = "failed"] IN
       /\ plans' = IF failed = me.snap THEN plans
                   ELSE [plans EXCEPT ![me.plan] = [failed EXCEPT !.status = "running"]]
       /\ Become(c, [me EXCEPT !.pc = "revert", !.todo = {}, !.snap = failed])
       /\ aborted' = aborted \cup {me.plan}
  /\ UNCHANGED <<chat, doc, left, approvals, rejected, strayed>>

\* ... and the document is reverted, as far as the marker taken before the run
\* (which the probe may not have got) and the host allow.
Revert(c) ==
  /\ At(c, "revert")
  /\ doc' \in Reverted(req[c].mark)
  /\ Become(c, [req[c] EXCEPT !.pc = "run"])
  /\ UNCHANGED <<chat, plans, left, history>>

\* The outcome of the run is saved ...
Finalize(c) ==
  /\ At(c, "run") /\ req[c].todo = {}
  /\ LET ended == [req[c].snap EXCEPT !.status = FinalStatus(req[c].snap)] IN
       /\ plans' = [plans EXCEPT ![req[c].plan] = ended]
       /\ Become(c, [req[c] EXCEPT !.pc = "capture", !.snap = ended])
  /\ UNCHANGED <<chat, doc, left, history>>

\* ... and, if the host tells what geometry there is by now, once more with it.
Capture(c) ==
  /\ At(c, "capture")
  /\ plans' \in {plans, [plans EXCEPT ![req[c].plan] = req[c].snap]}
  /\ Become(c, [req[c] EXCEPT !.pc = "outcome"])
  /\ UNCHANGED <<chat, doc, left, history>>

\* (mutants of Outcome) any plan is linked; only a failure moves the chat.
Outcome_LinksAny(c) ==
  /\ At(c, "outcome") /\ req[c].op = "execute"
  /\ LET me == req[c]
         stage == CASE me.chat.stage # "executing" -> me.chat.stage
                    [] me.chat.stage = "executing" /\ Me(c).status = "failed" -> "failed"
                    [] OTHER -> "editing"
         landed == [stage |-> stage, plan |-> me.plan] IN
       chat' = IF landed = me.chat THEN chat ELSE landed
  /\ Become(c, Idle)
  /\ UNCHANGED <<plans, doc, left, history>>
Outcome_FailureOnly(c) ==
  /\ At(c, "outcome") /\ req[c].op = "execute"
  /\ LET me == req[c]
         landed == [stage |-> IF Me(c).status = "failed" THEN "failed" ELSE me.chat.stage,
                    plan |-> me.chat.plan] IN
       chat' = IF landed = me.chat THEN chat ELSE landed
  /\ Become(c, Idle)
  /\ UNCHANGED <<plans, doc, left, history>>

\* execute_plan, after the run: the outcome is that of the plan row read again;
\* a primary plan is linked to the chat.
Outcome(c) ==
  /\ At(c, "outcome") /\ req[c].op = "execute"
  /\ LET me == req[c]
         event == IF Me(c).status = "failed" THEN "execution_failed" ELSE "execution_completed"
         landed == [stage |-> IF me.chat.stage = "executing"
                              THEN After(me.chat.stage, event) ELSE me.chat.stage,
                    plan |-> IF me.snap.kind = "primary" THEN me.plan ELSE me.chat.plan] IN
       chat' = IF landed = me.chat THEN chat ELSE landed
  /\ Become(c, Idle)
  /\ UNCHANGED <<plans, doc, left, history>>

\* propose_edit_plan, after the run: a failed edit leaves the chat alone.
EditOutcome(c) ==
  /\ At(c, "outcome") /\ req[c].op = "turn"
  /\ LET me == req[c]
         landed == [me.chat EXCEPT !.stage = After(@, "edit_auto_executed")] IN
       IF Me(c).status = "failed"
       THEN Become(c, [me EXCEPT !.pc = "card", !.snap = Me(c)]) /\ UNCHANGED chat
       ELSE /\ chat' = landed
            /\ Become(c, [me EXCEPT !.pc = "card", !.snap = Me(c), !.chat = landed])
  /\ UNCHANGED <<plans, doc, left, history>>

-----------------------------------------------------------------------------
\* An exception escapes the run: the loop saves the plan as failed first.
Raises(c) ==
  /\ Spends("raises")
  /\ req[c].pc \in {"run", "persist", "judge", "revert"}
  /\ plans' = IF Loop THEN [plans EXCEPT ![req[c].plan] = [req[c].snap EXCEPT !.status = "failed"]]
              ELSE plans
  /\ Become(c, Idle)
  /\ UNCHANGED <<chat, doc, history>>

\* The process dies; the rows and the document stay.
Crash ==
  /\ Spends("crashes")
  /\ req' = [c \in Clients |-> Idle]
  /\ UNCHANGED <<chat, plans, doc, history>>

TurnStep(c) ==
  OpenTurn(c) \/ Clarify(c) \/ ProposePrimary(c) \/ LinkPlan(c) \/ ReadTimeline(c)
  \/ ProposeEdit(c) \/ AskEdit(c) \/ AutoApprove(c) \/ SaveCard(c) \/ SaveTitle(c)
CardStep(c) == Reload(c) \/ SaveDecision(c) \/ Advance(c) \/ SaveEdit(c) \/ LoadExecute(c) \/ StartRun(c)
RunStep(c) ==
  Dispatch(c) \/ Persist(c) \/ Correct(c) \/ Exhaust(c) \/ Revert(c) \/ Finalize(c)
  \/ Capture(c) \/ Outcome(c) \/ EditOutcome(c)

Next ==
  \/ \E c \in Clients : StartTurn(c) \/ TurnStep(c) \/ CardStep(c) \/ RunStep(c) \/ Raises(c)
  \/ \E c \in Clients, p \in PlanIds :
       \/ \E decision \in {"approve", "reject"} : StartDecision(c, p, decision)
       \/ StartEdit(c, p) \/ StartExecute(c, p) \/ Undo(c, p)
  \/ Crash

Spec == Init /\ [][Next]_vars
\* A handler that was started goes on; no request is bound to come.
FairSpec == Spec /\ \A c \in Clients : WF_vars(TurnStep(c) \/ CardStep(c) \/ RunStep(c))

-----------------------------------------------------------------------------
(***************************************************************************)
(* Properties                                                              *)
(***************************************************************************)
Quiet == \A c \in Clients : req[c] = Idle

\* The step a run is about to send to the CAD host, if it requires approval, is
\* part of a content that a user approved - whatever else reads and writes the
\* plan meanwhile.
OnlyApprovedRuns ==
  \A c \in Clients :
    Running(c) /\ Step(c) \in req[c].snap.risky => <<req[c].plan, req[c].snap.ver>> \in approvals

\* A primary plan is executed only after the user approved what it contains.
\* It does not hold: see README, section 6.
PrimaryAlwaysWaits ==
  \A c \in Clients :
    Running(c) /\ req[c].snap.kind = "primary" =>
      <<req[c].plan, req[c].snap.ver>> \in approvals

\* Once a rejection of a plan was saved, no step of it is sent to the host.
RejectedNeverRuns == \A c \in Clients : Running(c) => req[c].plan \notin rejected

Times(p, s) == Cardinality({i \in DOMAIN doc.made : doc.made[i] = <<p, s>>})

\* A retry does not build a second time what is in the document already.
BuiltOnce == \A p \in PlanIds, s \in StepIds : Times(p, s) <= 1

\* What the plan that opened the document records as completed is in it.
\* It does not hold after the loop reverted the document: see README, section 6.
CompletedIsBuilt ==
  Quiet /\ doc.owner # NoPlan =>
    \A s \in StepIds \ {1} :
      plans[doc.owner].steps[s] = "completed" => Times(doc.owner, s) > 0

\* Each crash of the loop leaves at most one step in the document that its
\* plan does not know of: the call whose result was not saved yet (the steps
\* whose reply was lost, or which did something else, aside).
OneUnrecordedPerCrash ==
  Quiet =>
    Cardinality({b \in (PlanIds \X StepIds) \ strayed :
                   Times(b[1], b[2]) > 0 /\ plans[b[1]].steps[b[2]] # "completed"})
      <= MaxCrashes - left.crashes

\* A run that the loop gave up (Exhaust) ends in a failed plan, unless the
\* process dies first: a step whose call succeeded but diverged is not left
\* completed, and an exception on the way is recorded too.
AbortIsReported ==
  Quiet /\ left.crashes = MaxCrashes => \A p \in aborted : plans[p].status = "failed"

\* After a run, what the plan records is what was done: a run the loop gave up
\* is not left as completed, and a death hides at most the call it interrupted.
RunsAreAccounted == AbortIsReported /\ OneUnrecordedPerCrash

\* No chat is left in the executing stage by a run that ended - of one client,
\* without crashes: executing is left by execute_plan's last write alone, so a
\* completed, failed or blocked plan must all reach it.
NeverLeftExecuting == Quiet => chat.stage # "executing"

\* An edit never takes the place of the primary plan the chat is linked to,
\* however proposals, decisions and runs of two clients interleave (execute_plan
\* links only a primary plan, and every other handler keeps the link it read).
LinkIsPrimary == chat.plan # NoPlan => plans[chat.plan].kind = "primary"

\* The rows make sense together, whoever wrote them from whichever copies.
StateIsSound == TypeOK /\ LinkIsPrimary

\* Every request ends: the corrections of a step (the while of the loop) and
\* the steps of a plan are bounded, and an exception ends the request.
RequestsEnd == \A c \in Clients : req[c] # Idle ~> req[c] = Idle
=============================================================================
