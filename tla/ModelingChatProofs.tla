------------------------- MODULE ModelingChatProofs -------------------------
(***************************************************************************)
(* What ModelingChat promises for any number of clients, plans, steps and  *)
(* requests, whatever fails: the rows and the copies the handlers hold are *)
(* well typed, the chat is linked to a primary plan, and a step that needs *)
(* an approval is sent to the host only as part of a content that a user   *)
(* approved.  What it promises while one request follows another comes     *)
(* after: of rejections, of the stage of the chat, of what is built, and   *)
(* of what a run records.                                                  *)
(*                                                                         *)
(* A handler writes a row or the chat from the copy it holds, so that the  *)
(* invariant speaks of the copies too.  The operators take the rows and    *)
(* the approvals as arguments: a step extends both, and what was sound     *)
(* stays so.                                                               *)
(***************************************************************************)
EXTENDS ModelingChat, WellFoundedInduction, NaturalsInduction, SequenceTheorems,
        FiniteSetTheorems, TLAPS

RunPcs == {"run", "persist", "judge", "revert", "capture", "outcome"}
\* A handler that knows its plan, and one that holds a copy of its row.
Named == Pcs \ {"idle", "turn", "opened", "timeline"}
Loaded == Named \ {"reload", "load"}

Docs == [owner : PlanIds \cup {NoPlan}, made : Seq(PlanIds \X StepIds)]
Rows == [PlanIds -> Plan]
Contents == PlanIds \X (1 .. MaxVersion)

Known(ps, p) == p \in PlanIds /\ ps[p].status # "none"
Linked(ps, ch) == ch.plan # NoPlan => Known(ps, ch.plan) /\ ps[ch.plan].kind = "primary"
Granted(ap, p, row) ==
  \A s \in row.risky : row.steps[s] = "approved" => <<p, row.ver>> \in ap

\* The operation a handler works on at each point.
Fits(pc, op) ==
  /\ pc \in {"turn", "opened", "timeline", "link", "ask", "auto", "card", "title"} => op = "turn"
  /\ pc \in {"reload", "decide", "advance"} => op \in {"approve", "reject"}
  /\ pc = "edit" => op = "edit"
  /\ pc \in {"load", "start"} => op = "execute"
  /\ pc \in RunPcs => op \in {"turn", "execute"}

\* The copies of a request.
Sound(ps, ap, r) ==
  /\ Fits(r.pc, r.op)
  /\ Linked(ps, r.chat)
  /\ r.pc \in Named => Known(ps, r.plan)
  /\ r.pc \in Loaded =>
       r.snap.status # "none" /\ r.snap.kind = ps[r.plan].kind /\ r.snap.ver >= 1
  /\ r.pc = "edit" => r.snap.ver < MaxVersion
  /\ r.pc = "link" => r.snap.kind = "primary"
  /\ r.pc = "auto" => r.snap.risky = {}
  /\ r.pc \in {"timeline", "ask", "auto"} \/ (r.op = "turn" /\ r.pc \in RunPcs)
       => HasModel(r.chat.stage)
  /\ r.pc \in {"persist", "judge"} => r.todo # {}
  /\ r.pc = "revert" => r.todo = {}
  /\ Granted(ap, r.plan, r.snap)
  /\ r.pc \in {"run", "persist", "judge"} =>
       \A s \in r.todo \cap r.snap.risky : <<r.plan, r.snap.ver>> \in ap

SoundRows(ps, ap) ==
  \A p \in PlanIds :
    Granted(ap, p, ps[p]) /\ (ps[p].status # "none" => ps[p].ver >= 1)

\* The inductive invariant.
IndInv ==
  /\ TypeOK
  /\ Linked(plans, chat)
  /\ SoundRows(plans, approvals)
  /\ \A c \in Clients : Sound(plans, approvals, req[c])
-----------------------------------------------------------------------------
(***************************************************************************)
(* What a step may do to the rows and the approvals                        *)
(***************************************************************************)
Extends(ps, qs) ==
  \A p \in PlanIds : ps[p].status # "none" => qs[p].status # "none" /\ qs[p].kind = ps[p].kind

\* A set of naturals has a least element.
LEMMA MinIn ==
  ASSUME NEW S \in SUBSET Nat, S # {}
  PROVE  Min(S) \in S
<1> DEFINE R == OpToRel(<, Nat)
<1>1. \A x, y \in Nat : y < x => <<y, x>> \in R
  BY DEF OpToRel
<1>2. IsWellFoundedOn(R, Nat)
  BY NatLessThanWellFounded
<1> HIDE DEF R
<1>3. PICK x \in S : \A y \in S : ~(<<y, x>> \in R)
  BY <1>2, WFMin
<1>4. x \in Nat /\ \A y \in S : y \in Nat /\ ~(y < x)
  BY <1>1, <1>3
<1>5. \A y \in S : x =< y
  BY <1>4
<1> QED  BY <1>5 DEF Min

LEMMA Grows ==
  ASSUME NEW ps, NEW qs, Extends(ps, qs), NEW ap, NEW aq, ap \subseteq aq,
         NEW r, Sound(ps, ap, r)
  PROVE  Sound(qs, aq, r)
BY DEF Sound, Extends, Linked, Known, Granted, Loaded

LEMMA WriteRow ==
  ASSUME NEW ps \in Rows, NEW p \in PlanIds, NEW row \in Plan, NEW ap, NEW aq, ap \subseteq aq,
         SoundRows(ps, ap), row.status # "none", row.ver >= 1, Granted(aq, p, row),
         ps[p].status = "none" \/ row.kind = ps[p].kind,
         NEW qs, qs = [ps EXCEPT ![p] = row]
  PROVE  qs \in Rows /\ Extends(ps, qs) /\ SoundRows(qs, aq) /\ qs[p] = row
<1>1. qs \in Rows /\ qs[p] = row /\ \A q \in PlanIds \ {p} : qs[q] = ps[q]
  BY DEF Rows
<1>2. Extends(ps, qs)
  BY <1>1 DEF Extends
<1>3. SoundRows(qs, aq)
  BY <1>1 DEF SoundRows, Granted
<1> QED  BY <1>1, <1>2, <1>3

\* One client changes, the rows and the approvals grow.
LEMMA ClientStep ==
  ASSUME IndInv, NEW c \in Clients, NEW r \in Requests, req' = [req EXCEPT ![c] = r],
         chat' \in Chats, Linked(plans', chat'), doc' \in Docs,
         plans' \in Rows, Extends(plans, plans'), SoundRows(plans', approvals'),
         approvals' \in SUBSET Contents, approvals \subseteq approvals',
         rejected' \subseteq PlanIds, aborted' \subseteq PlanIds,
         strayed' \subseteq PlanIds \X StepIds,
         Sound(plans', approvals', r)
  PROVE  IndInv'
<1>1. TypeOK'
  BY DEF IndInv, TypeOK, Docs, Rows, Contents
<1>2. \A d \in Clients : Sound(plans', approvals', req'[d])
  <2> TAKE d \in Clients
  <2>1. CASE d = c
    BY <2>1 DEF IndInv, TypeOK
  <2>2. CASE d # c
    BY <2>2, Grows DEF IndInv, TypeOK
  <2> QED  BY <2>1, <2>2
<1> QED  BY <1>1, <1>2 DEF IndInv

\* One client and the chat change.
LEMMA LocalStep ==
  ASSUME IndInv, NEW c \in Clients, NEW r \in Requests, req' = [req EXCEPT ![c] = r],
         chat' \in Chats, Linked(plans, chat'), doc' \in Docs,
         UNCHANGED <<plans, approvals, rejected>>, aborted' \subseteq PlanIds,
         strayed' \subseteq PlanIds \X StepIds,
         Sound(plans, approvals, r)
  PROVE  IndInv'
<1>1. plans' \in Rows /\ Extends(plans, plans') /\ SoundRows(plans', approvals')
  BY DEF Extends, IndInv, TypeOK, Rows
<1>2. approvals' \in SUBSET Contents /\ approvals \subseteq approvals' /\ rejected' \subseteq PlanIds
  BY DEF IndInv, TypeOK, Contents
<1>3. Linked(plans', chat') /\ Sound(plans', approvals', r)
  OBVIOUS
<1> QED  BY <1>1, <1>2, <1>3, ClientStep

\* One client changes and writes a row.
LEMMA RowStep ==
  ASSUME IndInv, NEW c \in Clients, NEW r \in Requests, req' = [req EXCEPT ![c] = r],
         NEW p \in PlanIds, NEW row \in Plan, plans' = [plans EXCEPT ![p] = row],
         row.status # "none", row.ver >= 1,
         plans[p].status = "none" \/ row.kind = plans[p].kind,
         approvals' \in SUBSET Contents, approvals \subseteq approvals',
         Granted(approvals', p, row), rejected' \subseteq PlanIds, aborted' \subseteq PlanIds,
         UNCHANGED <<chat, doc, strayed>>,
         Sound(plans', approvals', r)
  PROVE  IndInv'
<1>0. plans \in Rows /\ SoundRows(plans, approvals)
  BY DEF IndInv, TypeOK, Rows
<1>1. plans' \in Rows /\ Extends(plans, plans') /\ SoundRows(plans', approvals')
  BY <1>0, WriteRow
<1>2. chat' \in Chats /\ Linked(plans', chat') /\ doc' \in Docs
  BY <1>1 DEF IndInv, TypeOK, Docs, Linked, Known, Extends
<1>3. strayed' \subseteq PlanIds \X StepIds
  BY DEF IndInv, TypeOK
<1> QED  BY <1>1, <1>2, <1>3, ClientStep
-----------------------------------------------------------------------------
\* What a step of c starts from.
LEMMA Held ==
  ASSUME IndInv, NEW c \in Clients
  PROVE  /\ req[c] \in Requests /\ Sound(plans, approvals, req[c])
         /\ chat \in Chats /\ Linked(plans, chat)
         /\ doc \in Docs /\ plans \in Rows /\ SoundRows(plans, approvals)
         /\ approvals \in SUBSET Contents /\ rejected \subseteq PlanIds
         /\ aborted \subseteq PlanIds /\ strayed \subseteq PlanIds \X StepIds
BY DEF IndInv, TypeOK, Docs, Rows, Contents

LEMMA AbsentIsPlan == Absent \in Plan /\ Absent.risky = {}
<1>1. 0 \in 0 .. MaxVersion
  BY ConstantsAssumption
<1>2. [s \in StepIds |-> "pending"] \in [StepIds -> StepStatuses]
  BY DEF StepStatuses
<1> QED  BY <1>1, <1>2 DEF Absent, Plan, Kinds, Statuses

\* A new request: it knows nothing yet but the chat and perhaps a plan.
LEMMA NewRequest ==
  ASSUME IndInv, NEW r,
         r = [Idle EXCEPT !.pc = r.pc, !.op = r.op, !.chat = r.chat, !.plan = r.plan],
         r.pc \in {"idle", "turn", "reload", "load"}, r.op \in Ops, Fits(r.pc, r.op),
         r.chat \in Chats, Linked(plans, r.chat), r.plan \in PlanIds \cup {NoPlan},
         r.pc \in {"reload", "load"} => Known(plans, r.plan)
  PROVE  r \in Requests /\ Sound(plans, approvals, r)
<1>1. 0 \in 0 .. MaxCorrections
  BY ConstantsAssumption
<1>2. r = [pc |-> r.pc, op |-> r.op, plan |-> r.plan, chat |-> r.chat, snap |-> Absent,
           todo |-> {}, tries |-> 0, bad |-> FALSE, mark |-> 0]
  BY DEF Idle
<1>3. r \in Requests
  <2>1. \A pc \in Pcs, op \in Ops, p \in PlanIds \cup {NoPlan}, ch \in Chats :
          [pc |-> pc, op |-> op, plan |-> p, chat |-> ch, snap |-> Absent,
           todo |-> {}, tries |-> 0, bad |-> FALSE, mark |-> 0] \in Requests
    BY <1>1, AbsentIsPlan DEF Requests
  <2>2. r.pc \in Pcs
    BY DEF Pcs
  <2> QED  BY <1>2, <2>1, <2>2
<1>4. r.snap = Absent
  BY <1>2
<1>5. Sound(plans, approvals, r)
  BY <1>4, AbsentIsPlan DEF Sound, Granted, Loaded, Named, RunPcs, Pcs
<1> QED  BY <1>3, <1>5

LEMMA IdleSound == IndInv => Idle \in Requests /\ Sound(plans, approvals, Idle)
<1> SUFFICES ASSUME IndInv PROVE Idle \in Requests /\ Sound(plans, approvals, Idle)
  OBVIOUS
<1>1. /\ Idle.pc = "idle" /\ Idle.op = "none" /\ Idle.plan = NoPlan
      /\ Idle.chat = [stage |-> "discovery", plan |-> NoPlan]
  BY DEF Idle
<1>2. Idle.chat \in Chats /\ Linked(plans, Idle.chat)
  BY <1>1 DEF Chats, Stages, Linked
<1>3. Idle = [Idle EXCEPT !.pc = Idle.pc, !.op = Idle.op, !.chat = Idle.chat, !.plan = Idle.plan]
  BY DEF Idle
<1> HIDE DEF Idle
<1> QED  BY <1>1, <1>2, <1>3, NewRequest DEF Ops, Fits, RunPcs

\* The end of a request, with what it left in the chat.
LEMMA EndStep ==
  ASSUME IndInv, NEW c \in Clients, req' = [req EXCEPT ![c] = Idle],
         chat' \in Chats, Linked(plans, chat'),
         UNCHANGED <<plans, doc, approvals, rejected, aborted, strayed>>
  PROVE  IndInv'
BY IdleSound, LocalStep, Held

LEMMA AfterType ==
  ASSUME NEW stage, NEW event, Legal(stage, event)
  PROVE  After(stage, event) \in Stages
<1>1. PICK t \in Transitions : t[1] = stage /\ t[2] = event
  BY DEF Legal
<1>2. (CHOOSE u \in Transitions : u[1] = stage /\ u[2] = event) \in Transitions
  BY <1>1
<1>3. \A u \in Transitions : u[3] \in Stages
  BY DEF Transitions, Stages
<1> QED  BY <1>2, <1>3 DEF After

\* What an edit or a run of a model may do to the stage is legal.
LEMMA EditIsLegal ==
  ASSUME NEW stage
  PROVE  /\ HasModel(stage) => Legal(stage, "edit_high_risk_requested")
                               /\ Legal(stage, "edit_auto_executed")
         /\ stage = "executing" => Legal(stage, "execution_completed")
                                   /\ Legal(stage, "execution_failed")
<1>1. /\ <<"editing", "edit_high_risk_requested", "editing">> \in Transitions
      /\ <<"failed", "edit_high_risk_requested", "failed">> \in Transitions
      /\ <<"editing", "edit_auto_executed", "editing">> \in Transitions
      /\ <<"failed", "edit_auto_executed", "editing">> \in Transitions
      /\ <<"executing", "execution_completed", "editing">> \in Transitions
      /\ <<"executing", "execution_failed", "failed">> \in Transitions
  BY DEF Transitions
<1> QED  BY <1>1 DEF HasModel, Legal
-----------------------------------------------------------------------------
(***************************************************************************)
(* A turn                                                                  *)
(***************************************************************************)
LEMMA PolicyType ==
  ASSUME NEW plan \in Plan
  PROVE  /\ Policy(plan) \in Plan /\ Policy(plan).status # "none"
         /\ Policy(plan).kind = plan.kind /\ Policy(plan).ver = plan.ver
         /\ Policy(plan).risky = plan.risky
         /\ \A s \in StepIds : Policy(plan).steps[s] \in {"waiting_approval", "pending"}
<1> DEFINE st == [s \in StepIds |-> IF s \in plan.risky THEN "waiting_approval" ELSE "pending"]
           sta == CASE plan.only -> "draft"
                  [] ~plan.only /\ plan.risky # {} -> "waiting_approval"
                  [] OTHER -> "approved"
<1>1. st \in [StepIds -> StepStatuses] /\ \A s \in StepIds : st[s] \in {"waiting_approval", "pending"}
  BY DEF StepStatuses
<1>2. sta \in Statuses /\ sta # "none"
  BY DEF Statuses
<1>3. Policy(plan) = [plan EXCEPT !.steps = st, !.status = sta]
  BY DEF Policy
<1> HIDE DEF st, sta
<1> QED  BY <1>1, <1>2, <1>3 DEF Plan

LEMMA DecidedType ==
  ASSUME NEW plan \in Plan, NEW decision
  PROVE  /\ Decided(plan, decision) \in Plan /\ Decided(plan, decision).status # "none"
         /\ Decided(plan, decision).kind = plan.kind /\ Decided(plan, decision).ver = plan.ver
         /\ Decided(plan, decision).risky = plan.risky
         /\ decision = "reject" => Decided(plan, decision).steps = plan.steps
<1> DEFINE st == [s \in StepIds |-> IF s \in plan.risky /\ plan.steps[s] = "waiting_approval"
                                    THEN "approved" ELSE plan.steps[s]]
<1>1. st \in [StepIds -> StepStatuses]
  BY DEF StepStatuses, Plan
<1>2. Decided(plan, decision) = IF decision = "reject" THEN [plan EXCEPT !.status = "rejected"]
                                ELSE [plan EXCEPT !.status = "approved", !.steps = st]
  BY DEF Decided
<1> HIDE DEF st
<1> QED  BY <1>1, <1>2 DEF Plan, Statuses

Marks == Nat \cup {Unmarked}

LEMMA CreatePlanSound ==
  ASSUME IndInv, NEW c \in Clients, req[c].pc \in {"opened", "timeline"},
         NEW pc \in {"link", "ask", "auto"}, NEW kind \in Kinds,
         pc = "link" => kind = "primary", pc # "link" => HasModel(req[c].chat.stage),
         NEW risky \in SUBSET StepIds, pc = "auto" => risky = {},
         NEW mark \in Marks, CreatePlan(c, pc, kind, risky, mark)
  PROVE  IndInv'
<1>0. /\ req[c] \in Requests /\ Sound(plans, approvals, req[c]) /\ chat \in Chats
      /\ plans \in Rows /\ approvals \in SUBSET Contents /\ SoundRows(plans, approvals)
      /\ aborted \subseteq PlanIds /\ rejected \subseteq PlanIds
  BY Held
<1> DEFINE p == Min(Unused)
<1>1. p \in PlanIds /\ plans[p].status = "none"
  <2>1. Unused \in SUBSET Nat /\ Unused # {}
    <3>1. Unused # {}
      BY DEF CreatePlan
    <3> QED  BY <3>1 DEF Unused, PlanIds
  <2>2. p \in Unused
    BY <2>1, MinIn
  <2> QED  BY <2>2 DEF Unused
<1>2. PICK only \in PlanOnly :
        LET plan == Policy(Planned(kind, only, risky, mark)) IN
        /\ plans' = [plans EXCEPT ![p] = plan]
        /\ Become(c, [req[c] EXCEPT !.pc = pc, !.plan = p, !.snap = plan])
  BY DEF CreatePlan
<1> HIDE DEF p
<1> DEFINE raw == Planned(kind, only, risky, mark)
           plan == Policy(raw)
           r == [req[c] EXCEPT !.pc = pc, !.plan = p, !.snap = plan]
<1>3. raw \in Plan /\ raw.kind = kind /\ raw.ver = 1 /\ raw.risky = risky
  <2>1. 1 \in 0 .. MaxVersion
    BY ConstantsAssumption
  <2>2. only \in BOOLEAN
    BY ConstantsAssumption
  <2> HIDE DEF Absent
  <2> QED  BY <2>1, <2>2, AbsentIsPlan DEF Planned, Plan, Marks
<1> HIDE DEF raw
<1>4. /\ plan \in Plan /\ plan.status # "none" /\ plan.kind = kind /\ plan.ver = 1
      /\ plan.risky = risky /\ \A s \in StepIds : plan.steps[s] # "approved"
  BY <1>3, PolicyType
<1> HIDE DEF plan
<1>5. \A ap : Granted(ap, p, plan)
  BY <1>4 DEF Granted
<1>6. /\ plans' = [plans EXCEPT ![p] = plan] /\ req' = [req EXCEPT ![c] = r]
      /\ UNCHANGED <<chat, doc, approvals, rejected, aborted, strayed>>
  BY <1>2 DEF CreatePlan, Become, history, plan, raw
<1>7. r \in Requests /\ r.pc = pc /\ r.plan = p /\ r.snap = plan /\ r.chat = req[c].chat
      /\ r.op = req[c].op
  BY <1>0, <1>1, <1>4 DEF Requests, Pcs
<1>8. plans'[p] = plan /\ Extends(plans, plans')
  BY <1>0, <1>1, <1>6 DEF Extends, Rows
<1>9. Linked(plans', r.chat)
  BY <1>0, <1>7, <1>8 DEF Sound, Linked, Extends, Known
<1>10. Sound(plans', approvals', r)
  <2> HIDE DEF r
  <2>1. Known(plans', p) /\ plan.kind = plans'[p].kind
    BY <1>1, <1>4, <1>8 DEF Known
  <2>2. Granted(approvals', r.plan, r.snap)
    BY <1>5, <1>7
  <2>3. pc \in {"ask", "auto"} => HasModel(r.chat.stage)
    BY <1>7
  <2>4. pc \notin {"edit", "timeline", "persist", "judge", "run"} \cup RunPcs
    BY DEF RunPcs
  <2>5. plan.ver >= 1
    BY <1>4
  <2>6. Fits(pc, r.op)
    BY <1>0, <1>7 DEF Sound, Fits, RunPcs
  <2> HIDE DEF plan
  <2> QED  BY <1>4, <1>7, <1>9, <2>1, <2>2, <2>3, <2>4, <2>5, <2>6 DEF Sound
<1>11. Granted(approvals', p, plan) /\ approvals' \in SUBSET Contents /\ approvals \subseteq approvals'
  BY <1>0, <1>5, <1>6
<1>12. rejected' \subseteq PlanIds /\ aborted' \subseteq PlanIds
  BY <1>0, <1>6
<1>13. /\ plan \in Plan /\ plan.status # "none" /\ plan.ver >= 1
       /\ plans[p].status = "none" \/ plan.kind = plans[p].kind
  BY <1>1, <1>4
<1>14. r \in Requests
  BY <1>7
<1>15. UNCHANGED <<chat, doc, strayed>>
  BY <1>6
<1> HIDE DEF r, plan
<1> QED  BY <1>1, <1>6, <1>10, <1>11, <1>12, <1>13, <1>14, <1>15, RowStep

\* A request of c that goes on without writing a row.
LEMMA GoesOn ==
  ASSUME IndInv, NEW c \in Clients, NEW r, req' = [req EXCEPT ![c] = r],
         r \in Requests, Sound(plans, approvals, r),
         chat' \in Chats, Linked(plans, chat'),
         UNCHANGED <<plans, doc, approvals, rejected, aborted, strayed>>
  PROVE  IndInv'
BY Held, LocalStep

LEMMA StartTurnSound ==
  ASSUME IndInv, NEW c \in Clients, StartTurn(c)
  PROVE  IndInv'
<1> DEFINE r == [Idle EXCEPT !.pc = "turn", !.op = "turn", !.chat = chat]
<1>0. chat \in Chats /\ Linked(plans, chat) /\ doc \in Docs
      /\ aborted \subseteq PlanIds /\ strayed \subseteq PlanIds \X StepIds
  BY Held
<1>1. r.pc = "turn" /\ r.op = "turn" /\ r.chat = chat /\ r.plan = NoPlan
      /\ r = [Idle EXCEPT !.pc = r.pc, !.op = r.op, !.chat = r.chat, !.plan = r.plan]
  BY DEF Idle
<1>2. req' = [req EXCEPT ![c] = r] /\ UNCHANGED <<chat, plans, doc, history>>
  BY DEF StartTurn, Become
<1> HIDE DEF r
<1>3. r \in Requests /\ Sound(plans, approvals, r)
  BY <1>0, <1>1, NewRequest DEF Ops, Fits, RunPcs
<1> QED  BY <1>0, <1>2, <1>3, LocalStep DEF history

LEMMA OpenTurnSound ==
  ASSUME IndInv, NEW c \in Clients, OpenTurn(c)
  PROVE  IndInv'
<1> DEFINE r == [req[c] EXCEPT !.pc = "opened"]
<1>0. req[c] \in Requests /\ Sound(plans, approvals, req[c]) /\ req[c].pc = "turn"
  BY Held DEF OpenTurn, At
<1>1. r \in Requests /\ r.chat = req[c].chat /\ r.pc = "opened" /\ r.plan = req[c].plan /\ r.op = req[c].op
      /\ r.snap = req[c].snap /\ r.chat \in Chats /\ Linked(plans, r.chat)
  BY <1>0 DEF Requests, Pcs, Sound
<1>2. req' = [req EXCEPT ![c] = r] /\ chat' = r.chat
      /\ UNCHANGED <<plans, doc, approvals, rejected, aborted, strayed>>
  BY <1>1 DEF OpenTurn, Become, history
<1> HIDE DEF r
<1>3. Sound(plans, approvals, r)
  BY <1>0, <1>1 DEF Sound, Fits, Granted, Named, Loaded, RunPcs
<1> QED  BY <1>1, <1>2, <1>3, GoesOn

LEMMA ClarifySound ==
  ASSUME IndInv, NEW c \in Clients, Clarify(c)
  PROVE  IndInv'
<1>1. req[c].chat \in Chats /\ Linked(plans, req[c].chat)
  BY Held DEF Requests, Sound
<1>2. chat' \in Chats /\ chat'.plan = req[c].chat.plan
  BY <1>1 DEF Clarify, Chats, Stages
<1>3. req' = [req EXCEPT ![c] = Idle]
      /\ UNCHANGED <<plans, doc, approvals, rejected, aborted, strayed>>
  BY DEF Clarify, Become, history
<1> QED  BY <1>1, <1>2, <1>3, EndStep DEF Linked

LEMMA ProposePrimarySound ==
  ASSUME IndInv, NEW c \in Clients, ProposePrimary(c)
  PROVE  IndInv'
<1>1. PICK risky \in SUBSET (StepIds \ {1}) : CreatePlan(c, "link", "primary", risky, Unmarked)
  BY DEF ProposePrimary
<1>2. req[c].pc = "opened" /\ risky \in SUBSET StepIds /\ Unmarked \in Marks
  BY DEF ProposePrimary, At, Marks
<1> QED  BY <1>1, <1>2, CreatePlanSound DEF Kinds

LEMMA LinkPlanSound ==
  ASSUME IndInv, NEW c \in Clients, LinkPlan(c)
  PROVE  IndInv'
<1> DEFINE me == req[c]
           linked == [stage |-> "planning", plan |-> me.plan]
           r == [me EXCEPT !.pc = "card", !.chat = linked]
<1>0. /\ me \in Requests /\ Sound(plans, approvals, me) /\ me.pc = "link"
      /\ chat \in Chats /\ Linked(plans, chat)
  BY Held DEF LinkPlan, At
<1>1. Known(plans, me.plan) /\ plans[me.plan].kind = "primary"
  BY <1>0 DEF Sound, Fits, Named, Loaded, Pcs
<1>2. linked \in Chats /\ Linked(plans, linked)
  BY <1>1 DEF Chats, Stages, Linked, Known
<1>3. r \in Requests /\ r.chat = linked /\ r.pc = "card" /\ r.plan = me.plan /\ r.op = me.op /\ r.snap = me.snap
  BY <1>0, <1>2 DEF Requests, Pcs
<1>4. UNCHANGED <<plans, doc, approvals, rejected, aborted, strayed>>
  BY DEF LinkPlan, history
<1>5. \/ req' = [req EXCEPT ![c] = r] /\ chat' = linked
      \/ req' = [req EXCEPT ![c] = Idle] /\ chat' = chat
  BY DEF LinkPlan, Become
<1> HIDE DEF r, linked
<1>6. Sound(plans, approvals, r)
  BY <1>0, <1>1, <1>2, <1>3 DEF Sound, Fits, Named, Loaded, RunPcs, Pcs
<1>7. CASE req' = [req EXCEPT ![c] = Idle] /\ chat' = chat
  BY <1>0, <1>4, <1>7, EndStep
<1>8. CASE req' = [req EXCEPT ![c] = r] /\ chat' = linked
  BY <1>2, <1>3, <1>4, <1>6, <1>8, GoesOn
<1> QED  BY <1>5, <1>7, <1>8

LEMMA ReadTimelineSound ==
  ASSUME IndInv, NEW c \in Clients, ReadTimeline(c)
  PROVE  IndInv'
<1> DEFINE me == req[c]
           r == [me EXCEPT !.pc = "timeline", !.mark = Len(doc.made)]
<1>0. /\ me \in Requests /\ Sound(plans, approvals, me) /\ me.pc = "opened"
      /\ HasModel(me.chat.stage) /\ chat \in Chats /\ Linked(plans, chat) /\ doc \in Docs
  BY Held DEF ReadTimeline, At
<1>1. Len(doc.made) \in Nat
  BY <1>0, LenProperties DEF Docs
<1>2. r \in Requests /\ r.chat = me.chat /\ r.pc = "timeline" /\ r.plan = me.plan /\ r.op = me.op
      /\ r.snap = me.snap
  BY <1>0, <1>1 DEF Requests, Pcs
<1>3. /\ req' = [req EXCEPT ![c] = r]
      /\ UNCHANGED <<chat, plans, doc, approvals, rejected, aborted, strayed>>
  BY DEF ReadTimeline, Become, history
<1> HIDE DEF r
<1>4. Sound(plans, approvals, r)
  BY <1>0, <1>2 DEF Sound, Fits, Named, Loaded, RunPcs
<1> QED  BY <1>0, <1>2, <1>3, <1>4, GoesOn

LEMMA ProposeEditSound ==
  ASSUME IndInv, NEW c \in Clients, ProposeEdit(c)
  PROVE  IndInv'
<1>1. PICK risky \in SUBSET StepIds, mark \in {req[c].mark, Unmarked} :
        CreatePlan(c, IF risky = {} THEN "auto" ELSE "ask", "edit", risky, mark)
  BY DEF ProposeEdit
<1>2. req[c] \in Requests /\ req[c].pc = "timeline" /\ HasModel(req[c].chat.stage)
  BY Held DEF ProposeEdit, At, Sound
<1>3. mark \in Marks /\ "edit" \in Kinds
  BY <1>2 DEF Requests, Marks, Kinds
<1> DEFINE pc == IF risky = {} THEN "auto" ELSE "ask"
<1>4. pc \in {"link", "ask", "auto"} /\ pc # "link" /\ (pc = "auto" => risky = {})
  OBVIOUS
<1> HIDE DEF pc
<1>5. CreatePlan(c, pc, "edit", risky, mark)
  BY <1>1 DEF pc
<1> QED  BY <1>2, <1>3, <1>4, <1>5, CreatePlanSound

LEMMA AskEditSound ==
  ASSUME IndInv, NEW c \in Clients, AskEdit(c)
  PROVE  IndInv'
<1> DEFINE me == req[c]
           r == [me EXCEPT !.pc = "card"]
<1>0. me \in Requests /\ Sound(plans, approvals, me) /\ me.pc = "ask" /\ me.chat \in Chats
  BY Held DEF AskEdit, At, Requests
<1>1. HasModel(me.chat.stage) /\ Linked(plans, me.chat) /\ Known(plans, me.plan)
  BY <1>0 DEF Sound, Fits, Named, Pcs
<1>2. chat' = [me.chat EXCEPT !.stage = After(@, "edit_high_risk_requested")]
  BY DEF AskEdit
<1>3. chat' \in Chats /\ chat'.plan = me.chat.plan
  BY <1>0, <1>1, <1>2, EditIsLegal, AfterType DEF Chats
<1>4. Linked(plans, chat')
  BY <1>1, <1>3 DEF Linked
<1>5. r \in Requests /\ r.chat = me.chat /\ r.pc = "card" /\ r.plan = me.plan /\ r.op = me.op /\ r.snap = me.snap
  BY <1>0 DEF Requests, Pcs
<1>6. /\ req' = [req EXCEPT ![c] = r]
      /\ UNCHANGED <<plans, doc, approvals, rejected, aborted, strayed>>
  BY DEF AskEdit, Become, history
<1> HIDE DEF r
<1>7. Sound(plans, approvals, r)
  BY <1>0, <1>5 DEF Sound, Fits, Named, Loaded, RunPcs, Pcs
<1> QED  BY <1>3, <1>4, <1>5, <1>6, <1>7, GoesOn
LEMMA RunnableIn ==
  ASSUME NEW plan \in Plan, NEW ap, NEW p, Granted(ap, p, plan)
  PROVE  /\ Runnable(plan) \in SUBSET StepIds
         /\ \A s \in Runnable(plan) \cap plan.risky : <<p, plan.ver>> \in ap
         /\ \A s \in Runnable(plan) : plan.steps[s] # "completed"
BY DEF Runnable, Granted

\* Where a run starts, from the copy snap.
LEMMA BeginSound ==
  ASSUME IndInv, NEW ps, NEW ap, NEW me \in Requests, NEW snap \in Plan,
         Linked(ps, me.chat), Known(ps, me.plan), snap.status # "none",
         snap.kind = ps[me.plan].kind, snap.ver >= 1, Granted(ap, me.plan, snap),
         me.op = "execute" \/ (me.op = "turn" /\ HasModel(me.chat.stage)),
         NEW pc \in {"capture", "run"}, NEW r,
         r = [me EXCEPT !.pc = pc, !.snap = snap, !.todo = Runnable(snap), !.mark = Len(doc.made)]
  PROVE  r \in Requests /\ Sound(ps, ap, r)
<1>1. Len(doc.made) \in Nat
  BY Held, LenProperties DEF Docs
<1>2. r \in Requests
  BY <1>1, RunnableIn DEF Requests, Pcs
<1>3. /\ r.pc = pc /\ r.snap = snap /\ r.todo = Runnable(snap) /\ r.chat = me.chat
      /\ r.plan = me.plan /\ r.op = me.op
  BY DEF Requests
<1>4. \A s \in r.todo \cap r.snap.risky : <<r.plan, r.snap.ver>> \in ap
  BY <1>3, RunnableIn
<1>5. Fits(r.pc, r.op)
  BY <1>3 DEF Fits, RunPcs
<1>6. Sound(ps, ap, r)
  BY <1>3, <1>4, <1>5 DEF Sound
<1> QED  BY <1>2, <1>6

LEMMA AutoApproveSound ==
  ASSUME IndInv, NEW c \in Clients, AutoApprove(c)
  PROVE  IndInv'
<1> DEFINE me == req[c]
           plan == Decided(me.snap, "approve")
           pc == IF plan.status = "draft" THEN "capture" ELSE "run"
           r == [me EXCEPT !.pc = pc, !.snap = plan, !.todo = Runnable(plan), !.mark = Len(doc.made)]
<1>0. /\ me \in Requests /\ Sound(plans, approvals, me) /\ me.pc = "auto" /\ me.snap \in Plan
      /\ plans \in Rows /\ approvals \in SUBSET Contents /\ rejected \subseteq PlanIds
      /\ aborted \subseteq PlanIds /\ SoundRows(plans, approvals)
  BY Held DEF AutoApprove, At, Requests
<1>1. /\ Known(plans, me.plan) /\ me.op = "turn" /\ HasModel(me.chat.stage)
      /\ me.snap.risky = {} /\ me.snap.kind = plans[me.plan].kind /\ me.snap.ver >= 1
      /\ Linked(plans, me.chat)
  BY <1>0 DEF Sound, Fits, Named, Loaded, Pcs
<1>2. /\ plan \in Plan /\ plan.status # "none" /\ plan.kind = plans[me.plan].kind
      /\ plan.ver >= 1 /\ plan.risky = {}
  BY <1>0, <1>1, DecidedType
<1>3. /\ plans' = [plans EXCEPT ![me.plan] = plan] /\ req' = [req EXCEPT ![c] = r]
      /\ UNCHANGED <<chat, doc, approvals, rejected, strayed>> /\ aborted' \subseteq PlanIds
  BY <1>0 DEF AutoApprove, Become, Begin
<1>4. pc \in {"capture", "run"}
  OBVIOUS
<1> HIDE DEF plan, pc
<1>5. \A p : Granted(approvals', p, plan)
  BY <1>2 DEF Granted
<1>6. me.plan \in PlanIds
  BY <1>1 DEF Known
<1>7. /\ Extends(plans, plans') /\ plans'[me.plan] = plan
  BY <1>0, <1>1, <1>2, <1>3, <1>6 DEF Extends, Rows
<1>8. Linked(plans', me.chat) /\ Known(plans', me.plan)
  BY <1>1, <1>7 DEF Linked, Known, Extends
<1>9. r \in Requests /\ Sound(plans', approvals', r)
  BY <1>0, <1>1, <1>2, <1>4, <1>5, <1>7, <1>8, BeginSound
<1> HIDE DEF r
<1>10. /\ approvals' \in SUBSET Contents /\ approvals \subseteq approvals' /\ rejected' \subseteq PlanIds
       /\ UNCHANGED <<chat, doc, strayed>>
  BY <1>0, <1>3
<1> QED  BY <1>2, <1>3, <1>5, <1>6, <1>9, <1>10, RowStep

LEMMA SaveCardSound ==
  ASSUME IndInv, NEW c \in Clients, SaveCard(c)
  PROVE  IndInv'
<1> DEFINE me == req[c]
           plan == IF me.snap.kind = "primary"
                   THEN [me.snap EXCEPT !.status = "waiting_approval"] ELSE me.snap
           r == [me EXCEPT !.pc = "title"]
<1>0. /\ me \in Requests /\ Sound(plans, approvals, me) /\ me.pc = "card" /\ me.snap \in Plan
      /\ plans \in Rows /\ approvals \in SUBSET Contents /\ rejected \subseteq PlanIds
      /\ aborted \subseteq PlanIds /\ SoundRows(plans, approvals)
  BY Held DEF SaveCard, At, Requests
<1>1. /\ Known(plans, me.plan) /\ me.op = "turn" /\ Linked(plans, me.chat)
      /\ me.snap.kind = plans[me.plan].kind /\ me.snap.ver >= 1 /\ me.snap.status # "none"
      /\ Granted(approvals, me.plan, me.snap)
  BY <1>0 DEF Sound, Fits, Named, Loaded, Pcs
<1>2. /\ plan \in Plan /\ plan.status # "none" /\ plan.kind = me.snap.kind /\ plan.ver = me.snap.ver
      /\ plan.risky = me.snap.risky /\ plan.steps = me.snap.steps
  BY <1>0, <1>1 DEF Plan, Statuses
<1>3. /\ plans' = [plans EXCEPT ![me.plan] = plan] /\ req' = [req EXCEPT ![c] = r]
      /\ UNCHANGED <<chat, doc, approvals, rejected, aborted, strayed>>
  BY DEF SaveCard, Become, history
<1> HIDE DEF plan
<1>4. Granted(approvals', me.plan, plan) /\ me.plan \in PlanIds /\ plan.ver >= 1
  BY <1>1, <1>2, <1>3 DEF Granted, Known
<1>5. /\ Extends(plans, plans') /\ plans'[me.plan] = plan
  BY <1>0, <1>1, <1>2, <1>3, <1>4 DEF Extends, Rows
<1>6. /\ r \in Requests /\ r.chat = me.chat /\ r.pc = "title" /\ r.plan = me.plan
      /\ r.op = me.op /\ r.snap = me.snap
  BY <1>0 DEF Requests, Pcs
<1> HIDE DEF r
<1>7. Sound(plans', approvals', me)
  BY <1>0, <1>3, <1>5, Grows
<1>8. Sound(plans', approvals', r)
  BY <1>0, <1>6, <1>7 DEF Sound, Fits, Named, Loaded, Pcs, RunPcs
<1>9. /\ approvals' \in SUBSET Contents /\ approvals \subseteq approvals' /\ rejected' \subseteq PlanIds
      /\ aborted' \subseteq PlanIds /\ UNCHANGED <<chat, doc, strayed>>
  BY <1>0, <1>3
<1> QED  BY <1>1, <1>2, <1>3, <1>4, <1>6, <1>8, <1>9, RowStep

LEMMA SaveTitleSound ==
  ASSUME IndInv, NEW c \in Clients, SaveTitle(c)
  PROVE  IndInv'
<1>1. /\ req[c].chat \in Chats /\ Linked(plans, req[c].chat)
      /\ chat \in Chats /\ Linked(plans, chat)
  BY Held DEF Requests, Sound
<1>2. chat' \in {chat, req[c].chat} /\ req' = [req EXCEPT ![c] = Idle]
      /\ UNCHANGED <<plans, doc, approvals, rejected, aborted, strayed>>
  BY DEF SaveTitle, Become, history
<1> QED  BY <1>1, <1>2, EndStep
-----------------------------------------------------------------------------
(***************************************************************************)
(* The card: decisions and edits of a plan                                 *)
(***************************************************************************)
\* A request of c begins.
LEMMA StartsWith ==
  ASSUME IndInv, NEW c \in Clients, NEW r,
         r = [Idle EXCEPT !.pc = r.pc, !.op = r.op, !.chat = r.chat, !.plan = r.plan],
         r.pc \in {"idle", "turn", "reload", "load"}, r.op \in Ops, Fits(r.pc, r.op),
         r.chat = chat, r.plan \in PlanIds \cup {NoPlan},
         r.pc \in {"reload", "load"} => Known(plans, r.plan),
         req' = [req EXCEPT ![c] = r], UNCHANGED <<chat, plans, doc, history>>
  PROVE  IndInv'
<1>1. chat \in Chats /\ Linked(plans, chat)
  BY Held
<1>2. r \in Requests /\ Sound(plans, approvals, r)
  BY <1>1, NewRequest
<1>3. UNCHANGED <<plans, doc, approvals, rejected, aborted, strayed>>
  BY DEF history
<1> QED  BY <1>1, <1>2, <1>3, GoesOn

LEMMA StartDecisionSound ==
  ASSUME IndInv, NEW c \in Clients, NEW p \in PlanIds, NEW decision \in {"approve", "reject"},
         StartDecision(c, p, decision)
  PROVE  IndInv'
<1> DEFINE r == [Idle EXCEPT !.pc = "reload", !.op = decision, !.plan = p, !.chat = chat]
<1>1. r.pc = "reload" /\ r.op = decision /\ r.chat = chat /\ r.plan = p
      /\ r = [Idle EXCEPT !.pc = r.pc, !.op = r.op, !.chat = r.chat, !.plan = r.plan]
  BY DEF Idle
<1>2. req' = [req EXCEPT ![c] = r] /\ UNCHANGED <<chat, plans, doc, history>>
  BY DEF StartDecision, Become
<1>3. Known(plans, p)
  BY DEF StartDecision, Approvable, Known
<1> HIDE DEF r
<1>4. Fits(r.pc, r.op) /\ r.op \in Ops
  BY <1>1 DEF Fits, RunPcs, Ops
<1> QED  BY <1>1, <1>2, <1>3, <1>4, StartsWith

LEMMA StartExecuteSound ==
  ASSUME IndInv, NEW c \in Clients, NEW p \in PlanIds, StartExecute(c, p)
  PROVE  IndInv'
<1> DEFINE r == [Idle EXCEPT !.pc = "load", !.op = "execute", !.plan = p, !.chat = chat]
<1>1. r.pc = "load" /\ r.op = "execute" /\ r.chat = chat /\ r.plan = p
      /\ r = [Idle EXCEPT !.pc = r.pc, !.op = r.op, !.chat = r.chat, !.plan = r.plan]
  BY DEF Idle
<1>2. req' = [req EXCEPT ![c] = r] /\ UNCHANGED <<chat, plans, doc, history>>
  BY DEF StartExecute, Become
<1>3. Known(plans, p)
  BY DEF StartExecute, Executable, Known
<1> HIDE DEF r
<1>4. Fits(r.pc, r.op) /\ r.op \in Ops
  BY <1>1 DEF Fits, RunPcs, Ops
<1> QED  BY <1>1, <1>2, <1>3, <1>4, StartsWith

LEMMA ReloadSound ==
  ASSUME IndInv, NEW c \in Clients, Reload(c)
  PROVE  IndInv'
<1> DEFINE me == req[c]
           r == [me EXCEPT !.pc = "decide", !.snap = plans[me.plan]]
<1>0. /\ me \in Requests /\ Sound(plans, approvals, me) /\ me.pc = "reload"
      /\ chat \in Chats /\ Linked(plans, chat) /\ plans \in Rows /\ SoundRows(plans, approvals)
  BY Held DEF Reload, At
<1>1. Known(plans, me.plan) /\ me.op \in {"approve", "reject"} /\ Linked(plans, me.chat)
  BY <1>0 DEF Sound, Fits, Named, Pcs
<1>2. /\ plans[me.plan] \in Plan /\ Granted(approvals, me.plan, plans[me.plan])
      /\ plans[me.plan].status # "none" /\ plans[me.plan].ver >= 1 /\ me.plan \in PlanIds
  BY <1>0, <1>1 DEF Known, Rows, SoundRows
<1>3. /\ r \in Requests /\ r.chat = me.chat /\ r.pc = "decide" /\ r.plan = me.plan
      /\ r.op = me.op /\ r.snap = plans[me.plan]
  BY <1>0, <1>2 DEF Requests, Pcs
<1>4. /\ req' = [req EXCEPT ![c] = r]
      /\ UNCHANGED <<chat, plans, doc, approvals, rejected, aborted, strayed>>
  BY DEF Reload, Become, history, Me
<1> HIDE DEF r
<1>5. Sound(plans, approvals, r)
  BY <1>1, <1>2, <1>3 DEF Sound, Fits, RunPcs
<1> QED  BY <1>0, <1>3, <1>4, <1>5, GoesOn

LEMMA SaveDecisionSound ==
  ASSUME IndInv, NEW c \in Clients, SaveDecision(c)
  PROVE  IndInv'
<1> DEFINE me == req[c]
           plan == Decided(me.snap, me.op)
           r == [me EXCEPT !.pc = "advance"]
<1>0. /\ me \in Requests /\ Sound(plans, approvals, me) /\ me.pc = "decide" /\ me.snap \in Plan
      /\ plans \in Rows /\ approvals \in SUBSET Contents /\ rejected \subseteq PlanIds
      /\ aborted \subseteq PlanIds /\ SoundRows(plans, approvals)
  BY Held DEF SaveDecision, At, Requests
<1>1. /\ Known(plans, me.plan) /\ me.plan \in PlanIds /\ me.op \in {"approve", "reject"}
      /\ me.snap.kind = plans[me.plan].kind /\ me.snap.ver >= 1
      /\ Granted(approvals, me.plan, me.snap)
  BY <1>0 DEF Sound, Fits, Named, Loaded, Pcs, Known
<1>2. /\ plan \in Plan /\ plan.status # "none" /\ plan.kind = plans[me.plan].kind
      /\ plan.ver = me.snap.ver /\ plan.ver >= 1 /\ plan.risky = me.snap.risky
      /\ me.op = "reject" => plan.steps = me.snap.steps
  BY <1>0, <1>1, DecidedType
<1>3. /\ plans' = [plans EXCEPT ![me.plan] = plan] /\ req' = [req EXCEPT ![c] = r]
      /\ UNCHANGED <<chat, doc, aborted, strayed>>
      /\ \/ me.op = "approve" /\ approvals' = approvals \cup {<<me.plan, me.snap.ver>>}
            /\ rejected' = rejected
         \/ me.op = "reject" /\ rejected' = rejected \cup {me.plan} /\ approvals' = approvals
  BY <1>1 DEF SaveDecision, Become
<1> HIDE DEF plan
<1>4. <<me.plan, me.snap.ver>> \in Contents
  BY <1>0, <1>1, ConstantsAssumption DEF Contents, Plan
<1>5. /\ approvals' \in SUBSET Contents /\ approvals \subseteq approvals'
      /\ rejected' \subseteq PlanIds /\ aborted' \subseteq PlanIds
      /\ UNCHANGED <<chat, doc, strayed>>
  BY <1>0, <1>1, <1>3, <1>4
<1>6. Granted(approvals', me.plan, plan)
  BY <1>1, <1>2, <1>3 DEF Granted
<1>7. Extends(plans, plans')
  BY <1>0, <1>1, <1>2, <1>3 DEF Extends, Rows
<1>8. /\ r \in Requests /\ r.chat = me.chat /\ r.pc = "advance" /\ r.plan = me.plan
      /\ r.op = me.op /\ r.snap = me.snap
  BY <1>0 DEF Requests, Pcs
<1> HIDE DEF r
<1>9. Sound(plans', approvals', me)
  BY <1>0, <1>5, <1>7, Grows
<1>10. Sound(plans', approvals', r)
  BY <1>0, <1>8, <1>9 DEF Sound, Fits, Named, Loaded, Pcs, RunPcs
<1> QED  BY <1>1, <1>2, <1>3, <1>5, <1>6, <1>8, <1>10, RowStep

LEMMA AdvanceSound ==
  ASSUME IndInv, NEW c \in Clients, Advance(c)
  PROVE  IndInv'
<1> DEFINE me == req[c]
           event == DecisionEvent(me.chat.stage, me.op)
           stage == After(me.chat.stage, event)
<1>1. /\ me.chat \in Chats /\ Linked(plans, me.chat)
      /\ chat \in Chats /\ Linked(plans, chat)
  BY Held DEF Requests, Sound
<1>2. /\ req' = [req EXCEPT ![c] = Idle]
      /\ UNCHANGED <<plans, doc, approvals, rejected, aborted, strayed>>
  BY DEF Advance, Become, history
<1>3. chat' \in Chats /\ Linked(plans, chat')
  <2>1. CASE ~Legal(me.chat.stage, event)
    BY <1>1, <2>1 DEF Advance
  <2>2. CASE Legal(me.chat.stage, event)
    <3>1. chat' = [stage |-> stage,
                   plan |-> IF event = "plan_rejected" THEN NoPlan ELSE me.chat.plan]
      BY <2>2 DEF Advance
    <3>2. stage \in Stages
      BY <2>2, AfterType
    <3> HIDE DEF stage, event
    <3> QED  BY <1>1, <3>1, <3>2 DEF Chats, Linked
  <2> QED  BY <2>1, <2>2
<1> QED  BY <1>2, <1>3, EndStep

LEMMA StartEditSound ==
  ASSUME IndInv, NEW c \in Clients, NEW p \in PlanIds, StartEdit(c, p)
  PROVE  IndInv'
<1> DEFINE r == [Idle EXCEPT !.pc = "edit", !.op = "edit", !.plan = p, !.snap = plans[p]]
<1>0. /\ chat \in Chats /\ Linked(plans, chat) /\ plans \in Rows /\ SoundRows(plans, approvals)
      /\ Idle \in Requests /\ Linked(plans, Idle.chat)
  BY Held, IdleSound DEF Sound
<1>1. /\ r \in Requests /\ r.chat = Idle.chat /\ r.pc = "edit" /\ r.plan = p
      /\ r.op = "edit" /\ r.snap = plans[p]
  BY <1>0 DEF Requests, Pcs, Ops, Rows
<1>2. /\ req' = [req EXCEPT ![c] = r]
      /\ UNCHANGED <<chat, plans, doc, approvals, rejected, aborted, strayed>>
  BY DEF StartEdit, Become, history
<1>3. /\ plans[p].status # "none" /\ plans[p].ver < MaxVersion
      /\ plans[p].ver >= 1 /\ Granted(approvals, p, plans[p])
  BY <1>0 DEF StartEdit, SoundRows
<1> HIDE DEF r
<1>4. Sound(plans, approvals, r)
  BY <1>0, <1>1, <1>3 DEF Sound, Fits, RunPcs, Known
<1> QED  BY <1>0, <1>1, <1>2, <1>4, GoesOn

LEMMA SaveEditSound ==
  ASSUME IndInv, NEW c \in Clients, SaveEdit(c)
  PROVE  IndInv'
<1> DEFINE me == req[c]
<1>0. /\ me \in Requests /\ Sound(plans, approvals, me) /\ me.pc = "edit" /\ me.snap \in Plan
      /\ plans \in Rows /\ approvals \in SUBSET Contents /\ rejected \subseteq PlanIds
      /\ aborted \subseteq PlanIds /\ SoundRows(plans, approvals)
  BY Held DEF SaveEdit, At, Requests
<1>1. /\ Known(plans, me.plan) /\ me.plan \in PlanIds
      /\ me.snap.kind = plans[me.plan].kind /\ me.snap.ver >= 1 /\ me.snap.ver < MaxVersion
  BY <1>0 DEF Sound, Named, Loaded, Pcs, Known
<1>2. PICK risky \in SUBSET StepIds :
        LET plan == Policy([me.snap EXCEPT !.risky = risky, !.ver = @ + 1]) IN
        plans' = [plans EXCEPT
                    ![me.plan] = IF plan.status = "approved"
                                 THEN [plan EXCEPT !.status = "waiting_approval"] ELSE plan]
  BY DEF SaveEdit
<1> DEFINE raw == [me.snap EXCEPT !.risky = risky, !.ver = @ + 1]
           plan == Policy(raw)
           row == IF plan.status = "approved"
                  THEN [plan EXCEPT !.status = "waiting_approval"] ELSE plan
<1>3. me.snap.ver + 1 \in 0 .. MaxVersion /\ me.snap.ver + 1 >= 1
  BY <1>0, <1>1, ConstantsAssumption DEF Plan
<1>4. raw \in Plan /\ raw.kind = plans[me.plan].kind /\ raw.ver >= 1
  BY <1>0, <1>1, <1>3 DEF Plan
<1>5. plans' = [plans EXCEPT ![me.plan] = row]
  BY <1>2
<1> HIDE DEF raw
<1>6. /\ plan \in Plan /\ plan.status # "none" /\ plan.kind = plans[me.plan].kind
      /\ plan.ver >= 1 /\ \A s \in StepIds : plan.steps[s] \in {"waiting_approval", "pending"}
  BY <1>4, PolicyType
<1> HIDE DEF plan
<1>7. /\ row \in Plan /\ row.status # "none" /\ row.kind = plans[me.plan].kind
      /\ row.ver >= 1 /\ row.steps = plan.steps
  BY <1>6 DEF Plan, Statuses
<1>8. Granted(approvals', me.plan, row)
  BY <1>6, <1>7 DEF Granted, Plan
<1> HIDE DEF row
<1>9. /\ req' = [req EXCEPT ![c] = Idle]
      /\ UNCHANGED <<chat, doc, approvals, rejected, aborted, strayed>>
  BY DEF SaveEdit, Become, history
<1>10. Extends(plans, plans')
  BY <1>0, <1>1, <1>5, <1>7 DEF Extends, Rows
<1>11. Idle \in Requests /\ Sound(plans', approvals', Idle)
  BY <1>9, <1>10, IdleSound, Grows
<1>12. /\ approvals' \in SUBSET Contents /\ approvals \subseteq approvals'
       /\ rejected' \subseteq PlanIds /\ aborted' \subseteq PlanIds
       /\ UNCHANGED <<chat, doc, strayed>>
  BY <1>0, <1>9
<1> QED  BY <1>1, <1>5, <1>7, <1>8, <1>9, <1>11, <1>12, RowStep
-----------------------------------------------------------------------------
(***************************************************************************)
(* The start of a run                                                      *)
(***************************************************************************)
LEMMA LoadExecuteSound ==
  ASSUME IndInv, NEW c \in Clients, LoadExecute(c)
  PROVE  IndInv'
<1> DEFINE me == req[c]
           plan == plans[me.plan]
           caught == [me.chat EXCEPT !.stage = "approved"]
           loaded == [me EXCEPT !.pc = "start", !.snap = plan]
           moved == [loaded EXCEPT !.chat = caught]
<1>0. /\ me \in Requests /\ Sound(plans, approvals, me) /\ me.pc = "load"
      /\ chat \in Chats /\ Linked(plans, chat) /\ plans \in Rows /\ SoundRows(plans, approvals)
  BY Held DEF LoadExecute, At
<1>1. Known(plans, me.plan) /\ me.plan \in PlanIds /\ me.op = "execute" /\ Linked(plans, me.chat)
      /\ me.chat \in Chats
  BY <1>0 DEF Sound, Fits, Named, Pcs, Known, Requests
<1>2. /\ plan \in Plan /\ plan.status # "none" /\ plan.ver >= 1 /\ Granted(approvals, me.plan, plan)
  BY <1>0, <1>1 DEF Rows, SoundRows, Known
<1>3. /\ \/ req' = [req EXCEPT ![c] = Idle] /\ chat' = chat
         \/ req' = [req EXCEPT ![c] = loaded] /\ chat' = chat
         \/ req' = [req EXCEPT ![c] = moved] /\ chat' = caught
      /\ UNCHANGED <<plans, doc, approvals, rejected, aborted, strayed>>
  BY DEF LoadExecute, Become, history, Me
<1>4. caught \in Chats /\ Linked(plans, caught)
  BY <1>1 DEF Chats, Stages, Linked
<1>5. /\ loaded \in Requests /\ loaded.chat = me.chat /\ loaded.pc = "start"
      /\ loaded.plan = me.plan /\ loaded.op = me.op /\ loaded.snap = plan
  BY <1>0, <1>2 DEF Requests, Pcs
<1>6. /\ moved \in Requests /\ moved.chat = caught /\ moved.pc = "start"
      /\ moved.plan = me.plan /\ moved.op = me.op /\ moved.snap = plan
  BY <1>4, <1>5 DEF Requests, Pcs
<1> HIDE DEF moved, loaded, caught
<1>7. Sound(plans, approvals, loaded)
  BY <1>1, <1>2, <1>5 DEF Sound, Fits, RunPcs
<1>8. Sound(plans, approvals, moved)
  BY <1>1, <1>2, <1>4, <1>6 DEF Sound, Fits, RunPcs
<1>9. CASE req' = [req EXCEPT ![c] = Idle] /\ chat' = chat
  BY <1>0, <1>3, <1>9, EndStep
<1>10. CASE req' = [req EXCEPT ![c] = loaded] /\ chat' = chat
  BY <1>0, <1>3, <1>5, <1>7, <1>10, GoesOn
<1>11. CASE req' = [req EXCEPT ![c] = moved] /\ chat' = caught
  BY <1>3, <1>4, <1>6, <1>8, <1>11, GoesOn
<1> QED  BY <1>3, <1>9, <1>10, <1>11

LEMMA StartRunSound ==
  ASSUME IndInv, NEW c \in Clients, StartRun(c)
  PROVE  IndInv'
<1> DEFINE me == req[c]
           pc == IF me.snap.status = "draft" THEN "capture" ELSE "run"
           started == [me.chat EXCEPT !.stage = "executing"]
           b == [me EXCEPT !.pc = pc, !.snap = me.snap, !.todo = Runnable(me.snap),
                           !.mark = Len(doc.made)]
           m == [b EXCEPT !.chat = started]
<1>0. /\ me \in Requests /\ Sound(plans, approvals, me) /\ me.pc = "start" /\ me.snap \in Plan
      /\ me.chat \in Chats /\ chat \in Chats /\ Linked(plans, chat) /\ doc \in Docs
      /\ aborted \subseteq PlanIds /\ strayed \subseteq PlanIds \X StepIds
  BY Held DEF StartRun, At, Requests
<1>1. /\ Known(plans, me.plan) /\ me.op = "execute" /\ Linked(plans, me.chat)
      /\ me.snap.status # "none" /\ me.snap.kind = plans[me.plan].kind /\ me.snap.ver >= 1
      /\ Granted(approvals, me.plan, me.snap)
  BY <1>0 DEF Sound, Fits, Named, Loaded, Pcs
<1>2. started \in Chats /\ Linked(plans, started)
  BY <1>0, <1>1 DEF Chats, Stages, Linked
<1>3. pc \in {"capture", "run"}
  OBVIOUS
<1>4. /\ \/ req' = [req EXCEPT ![c] = b] /\ chat' = chat
         \/ req' = [req EXCEPT ![c] = m] /\ chat' = started
      /\ UNCHANGED <<plans, doc, approvals, rejected, strayed>> /\ aborted' \subseteq PlanIds
  BY <1>0 DEF StartRun, Become, Begin
<1> HIDE DEF pc
<1>5. b \in Requests /\ Sound(plans, approvals, b)
  BY <1>0, <1>1, <1>3, BeginSound
<1>6. b.op = "execute"
  BY <1>0, <1>1 DEF Requests
<1> HIDE DEF b, started
<1>7. /\ m \in Requests /\ m.chat = started /\ m.pc = b.pc /\ m.plan = b.plan
      /\ m.op = b.op /\ m.snap = b.snap /\ m.todo = b.todo
  BY <1>2, <1>5 DEF Requests
<1> HIDE DEF m
<1>8. b.pc \in {"run", "capture"}
  BY <1>0, <1>3 DEF b, Requests
<1>9. Sound(plans, approvals, m)
  BY <1>2, <1>5, <1>6, <1>7, <1>8 DEF Sound
<1>10. UNCHANGED <<plans, approvals, rejected>> /\ strayed' \subseteq PlanIds \X StepIds
       /\ doc' \in Docs
  BY <1>0, <1>4
<1>11. CASE req' = [req EXCEPT ![c] = b] /\ chat' = chat
  BY <1>0, <1>4, <1>5, <1>10, <1>11, LocalStep
<1>12. CASE req' = [req EXCEPT ![c] = m] /\ chat' = started
  BY <1>2, <1>4, <1>7, <1>9, <1>10, <1>12, LocalStep
<1> QED  BY <1>4, <1>11, <1>12
-----------------------------------------------------------------------------
(***************************************************************************)
(* The run                                                                 *)
(***************************************************************************)
LEMMA BuildType ==
  ASSUME NEW kind, NEW p \in PlanIds, NEW s \in StepIds, doc \in Docs
  PROVE  Build(kind, p, s) \in Docs
<1>1. <<>> \in Seq(PlanIds \X StepIds)
  OBVIOUS
<1>2. Append(doc.made, <<p, s>>) \in Seq(PlanIds \X StepIds)
  BY AppendProperties DEF Docs
<1>3. [owner |-> p, made |-> <<>>] \in Docs
  BY <1>1 DEF Docs
<1>4. [doc EXCEPT !.made = Append(@, <<p, s>>)] \in Docs
  BY <1>2 DEF Docs
<1> QED  BY <1>3, <1>4 DEF Build

LEMMA RevertedType ==
  ASSUME doc \in Docs, NEW target \in Nat, NEW d \in Reverted(target)
  PROVE  d \in Docs
<1>1. Len(doc.made) \in Nat
  BY LenProperties DEF Docs
<1>2. Min({target, Len(doc.made)}) \in Nat
  BY <1>1, MinIn
<1>3. PICK n \in Min({target, Len(doc.made)}) .. Len(doc.made) :
        d = [doc EXCEPT !.made = SubSeq(@, 1, n)]
  BY DEF Reverted
<1>4. n \in 0 .. Len(doc.made)
  BY <1>1, <1>2
<1>5. SubSeq(doc.made, 1, n) \in Seq(PlanIds \X StepIds)
  BY <1>4, SubSeqProperties DEF Docs
<1> QED  BY <1>3, <1>5 DEF Docs

\* The step a run works on is one of those it has to do.
LEMMA StepIn ==
  ASSUME NEW c \in Clients, req[c] \in Requests, req[c].todo # {}
  PROVE  Step(c) \in req[c].todo /\ Step(c) \in StepIds
<1>1. req[c].todo \in SUBSET Nat /\ req[c].todo \in SUBSET StepIds
  BY DEF Requests, StepIds
<1> QED  BY <1>1, MinIn DEF Step

\* A result of a step changes nothing else of a copy.
LEMMA WithResult ==
  ASSUME NEW plan \in Plan, NEW s \in StepIds, NEW result \in {"completed", "failed"}, NEW new,
         new = [plan EXCEPT !.steps[s] = result]
  PROVE  /\ new \in Plan /\ new.status = plan.status /\ new.kind = plan.kind
         /\ new.ver = plan.ver /\ new.risky = plan.risky /\ new.mark = plan.mark
         /\ new.steps[s] = result /\ \A t \in StepIds \ {s} : new.steps[t] = plan.steps[t]
         /\ \A ap, p : Granted(ap, p, plan) => Granted(ap, p, new)
<1> DEFINE st == [plan.steps EXCEPT ![s] = result]
<1>1. new = [plan EXCEPT !.steps = st]
  BY DEF Plan
<1>2. st \in [StepIds -> StepStatuses] /\ st[s] = result
      /\ \A t \in StepIds \ {s} : st[t] = plan.steps[t]
  BY DEF Plan, StepStatuses
<1> HIDE DEF st
<1>3. /\ new \in Plan /\ new.status = plan.status /\ new.kind = plan.kind
      /\ new.ver = plan.ver /\ new.risky = plan.risky /\ new.mark = plan.mark /\ new.steps = st
  BY <1>1, <1>2 DEF Plan
<1>4. \A ap, p : Granted(ap, p, plan) => Granted(ap, p, new)
  BY <1>2, <1>3 DEF Granted, Plan
<1> QED  BY <1>2, <1>3, <1>4

LEMMA DispatchSound ==
  ASSUME IndInv, NEW c \in Clients, Dispatch(c)
  PROVE  IndInv'
<1> DEFINE me == req[c]
           s == Step(c)
<1>0. /\ me \in Requests /\ Sound(plans, approvals, me) /\ me.pc = "run" /\ me.todo # {}
      /\ me.snap \in Plan /\ chat \in Chats /\ Linked(plans, chat) /\ doc \in Docs
      /\ aborted \subseteq PlanIds /\ strayed \subseteq PlanIds \X StepIds
  BY Held DEF Dispatch, Running, At, Requests
<1>1. /\ Known(plans, me.plan) /\ me.plan \in PlanIds /\ Granted(approvals, me.plan, me.snap)
  BY <1>0 DEF Sound, Named, Pcs, Known
<1>2. s \in StepIds
  BY <1>0, StepIn
<1>3. PICK o \in Outcomes :
        LET result == IF o \in {"ok", "diverged"} THEN "completed" ELSE "failed"
            done == [me EXCEPT !.snap.steps[s] = result] IN
        /\ doc' = IF o = "error" THEN doc ELSE Build(me.snap.kind, me.plan, s)
        /\ Become(c, IF Loop THEN [done EXCEPT !.pc = "persist", !.bad = (o # "ok")]
                     ELSE [done EXCEPT !.todo = @ \ {s}])
        /\ strayed' = IF o \in {"lost", "diverged"} THEN strayed \cup {<<me.plan, s>>} ELSE strayed
  BY DEF Dispatch
<1> DEFINE result == IF o \in {"ok", "diverged"} THEN "completed" ELSE "failed"
           snap == [me.snap EXCEPT !.steps[s] = result]
           r1 == [me EXCEPT !.snap = snap, !.pc = "persist", !.bad = (o # "ok")]
           r2 == [me EXCEPT !.snap = snap, !.todo = @ \ {s}]
           done == [me EXCEPT !.snap.steps[s] = result]
<1>4. doc' \in Docs /\ strayed' \subseteq PlanIds \X StepIds
  BY <1>0, <1>1, <1>2, <1>3, BuildType
<1>5. req' = [req EXCEPT ![c] = r1] \/ req' = [req EXCEPT ![c] = r2]
  <2>1. done = [me EXCEPT !.snap = snap]
    BY <1>0 DEF Requests, Plan
  <2>2. Become(c, IF Loop THEN [done EXCEPT !.pc = "persist", !.bad = (o # "ok")]
                  ELSE [done EXCEPT !.todo = @ \ {s}])
    BY <1>3
  <2>3. [done EXCEPT !.pc = "persist", !.bad = (o # "ok")] = r1
    BY <1>0, <2>1 DEF Requests
  <2>4. [done EXCEPT !.todo = @ \ {s}] = r2
    BY <1>0, <2>1 DEF Requests
  <2> HIDE DEF done, r1, r2, snap, result
  <2> QED  BY <2>2, <2>3, <2>4 DEF Become
<1>6. result \in {"completed", "failed"}
  OBVIOUS
<1> HIDE DEF result
<1>7. /\ snap \in Plan /\ snap.status = me.snap.status /\ snap.kind = me.snap.kind
      /\ snap.ver = me.snap.ver /\ snap.risky = me.snap.risky
      /\ Granted(approvals, me.plan, snap)
  BY <1>0, <1>1, <1>2, <1>6, WithResult
<1> HIDE DEF snap, s
<1>8. /\ r1 \in Requests /\ r1.chat = me.chat /\ r1.pc = "persist" /\ r1.plan = me.plan
      /\ r1.op = me.op /\ r1.snap = snap /\ r1.todo = me.todo
  BY <1>0, <1>7 DEF Requests, Pcs
<1>9. /\ r2 \in Requests /\ r2.chat = me.chat /\ r2.pc = "run" /\ r2.plan = me.plan
      /\ r2.op = me.op /\ r2.snap = snap /\ r2.todo \subseteq me.todo
  BY <1>0, <1>7 DEF Requests, Pcs
<1> HIDE DEF r1, r2
<1>10. Sound(plans, approvals, r1)
  BY <1>0, <1>7, <1>8 DEF Sound, Fits, Named, Loaded, Pcs, RunPcs
<1>11. Sound(plans, approvals, r2)
  BY <1>0, <1>7, <1>9 DEF Sound, Fits, Named, Loaded, Pcs, RunPcs
<1>12. UNCHANGED <<chat, plans, approvals, rejected>> /\ aborted' \subseteq PlanIds
  BY <1>0 DEF Dispatch
<1> QED  BY <1>0, <1>4, <1>5, <1>8, <1>9, <1>10, <1>11, <1>12, LocalStep

\* The copy a run holds, once it is saved with another status.
LEMMA SavesRun ==
  ASSUME IndInv, NEW c \in Clients, NEW r \in Requests, req' = [req EXCEPT ![c] = r],
         req[c].pc \in RunPcs, NEW snap \in Plan, NEW status \in Statuses \ {"none"},
         snap.kind = req[c].snap.kind, snap.ver = req[c].snap.ver,
         Granted(approvals, req[c].plan, snap),
         plans' = [plans EXCEPT ![req[c].plan] = [snap EXCEPT !.status = status]],
         Sound(plans, approvals, r), aborted' \subseteq PlanIds,
         UNCHANGED <<chat, doc, approvals, rejected, strayed>>
  PROVE  IndInv'
<1> DEFINE me == req[c]
           row == [snap EXCEPT !.status = status]
<1>0. /\ me \in Requests /\ Sound(plans, approvals, me)
      /\ plans \in Rows /\ approvals \in SUBSET Contents /\ rejected \subseteq PlanIds
      /\ SoundRows(plans, approvals)
  BY Held
<1>1. /\ me.plan \in PlanIds /\ me.snap.kind = plans[me.plan].kind /\ me.snap.ver >= 1
  BY <1>0 DEF Sound, Named, Loaded, Pcs, RunPcs, Known
<1>2. /\ row \in Plan /\ row.status # "none" /\ row.kind = plans[me.plan].kind /\ row.ver >= 1
      /\ row.risky = snap.risky /\ row.steps = snap.steps /\ row.ver = snap.ver
  BY <1>1 DEF Plan
<1>3. plans' = [plans EXCEPT ![me.plan] = row]
  OBVIOUS
<1> HIDE DEF row
<1>4. Extends(plans, plans')
  BY <1>0, <1>1, <1>2, <1>3 DEF Extends, Rows
<1>5. Sound(plans', approvals', r)
  BY <1>4, Grows
<1>6. Granted(approvals', me.plan, row)
  BY <1>2 DEF Granted
<1> QED  BY <1>0, <1>1, <1>2, <1>3, <1>5, <1>6, RowStep

LEMMA PersistSound ==
  ASSUME IndInv, NEW c \in Clients, Persist(c)
  PROVE  IndInv'
<1> DEFINE me == req[c]
           r1 == [me EXCEPT !.pc = "judge"]
           r2 == [me EXCEPT !.pc = "run", !.todo = @ \ {Step(c)}, !.tries = 0]
<1>0. /\ me \in Requests /\ Sound(plans, approvals, me) /\ me.pc = "persist" /\ me.snap \in Plan
      /\ aborted \subseteq PlanIds
  BY Held DEF Persist, At, Requests
<1>1. req' = [req EXCEPT ![c] = r1] \/ req' = [req EXCEPT ![c] = r2]
  BY DEF Persist, Become
<1>2. 0 \in 0 .. MaxCorrections
  BY ConstantsAssumption
<1>3. /\ r1 \in Requests /\ r1.chat = me.chat /\ r1.pc = "judge" /\ r1.plan = me.plan
      /\ r1.op = me.op /\ r1.snap = me.snap /\ r1.todo = me.todo
  BY <1>0 DEF Requests, Pcs
<1>4. /\ r2 \in Requests /\ r2.chat = me.chat /\ r2.pc = "run" /\ r2.plan = me.plan
      /\ r2.op = me.op /\ r2.snap = me.snap /\ r2.todo \subseteq me.todo
  BY <1>0, <1>2 DEF Requests, Pcs
<1>5. /\ plans' = [plans EXCEPT ![me.plan] = [me.snap EXCEPT !.status = "running"]]
      /\ UNCHANGED <<chat, doc, approvals, rejected, aborted, strayed>>
  BY DEF Persist, history
<1> HIDE DEF r1, r2
<1>6. Sound(plans, approvals, r1) /\ Sound(plans, approvals, r2)
  BY <1>0, <1>3, <1>4 DEF Sound, Fits, Named, Loaded, Pcs, RunPcs
<1>7. Granted(approvals, me.plan, me.snap) /\ "running" \in Statuses \ {"none"}
      /\ me.pc \in RunPcs
  BY <1>0 DEF Sound, Statuses, RunPcs
<1>8. aborted' \subseteq PlanIds /\ UNCHANGED <<chat, doc, approvals, rejected, strayed>>
  BY <1>0, <1>5
<1> QED  BY <1>0, <1>1, <1>3, <1>4, <1>5, <1>6, <1>7, <1>8, SavesRun

LEMMA CorrectSound ==
  ASSUME IndInv, NEW c \in Clients, Correct(c)
  PROVE  IndInv'
<1> DEFINE me == req[c]
           r == [me EXCEPT !.pc = "run", !.tries = @ + 1]
<1>0. /\ me \in Requests /\ Sound(plans, approvals, me) /\ me.pc = "judge"
      /\ chat \in Chats /\ Linked(plans, chat)
  BY Held DEF Correct, At
<1>1. me.tries + 1 \in 0 .. MaxCorrections
  BY <1>0, ConstantsAssumption DEF Correct, Requests
<1>2. /\ r \in Requests /\ r.chat = me.chat /\ r.pc = "run" /\ r.plan = me.plan
      /\ r.op = me.op /\ r.snap = me.snap /\ r.todo = me.todo
  BY <1>0, <1>1 DEF Requests, Pcs
<1>3. /\ req' = [req EXCEPT ![c] = r]
      /\ UNCHANGED <<chat, plans, doc, approvals, rejected, aborted, strayed>>
  BY DEF Correct, Become, history
<1> HIDE DEF r
<1>4. Sound(plans, approvals, r)
  BY <1>0, <1>2 DEF Sound, Fits, Named, Loaded, Pcs, RunPcs
<1> QED  BY <1>0, <1>2, <1>3, <1>4, GoesOn

LEMMA ExhaustSound ==
  ASSUME IndInv, NEW c \in Clients, Exhaust(c)
  PROVE  IndInv'
<1> DEFINE me == req[c]
           s == Step(c)
           failed == [me.snap EXCEPT !.steps[s] = "failed"]
           r == [me EXCEPT !.pc = "revert", !.todo = {}, !.snap = failed]
<1>0. /\ me \in Requests /\ Sound(plans, approvals, me) /\ me.pc = "judge" /\ me.snap \in Plan
      /\ chat \in Chats /\ Linked(plans, chat) /\ doc \in Docs
      /\ aborted \subseteq PlanIds /\ strayed \subseteq PlanIds \X StepIds
  BY Held DEF Exhaust, At, Requests
<1>1. /\ me.plan \in PlanIds /\ Granted(approvals, me.plan, me.snap) /\ me.todo # {}
  BY <1>0 DEF Sound, Named, Pcs, Known
<1>2. s \in StepIds
  BY <1>0, <1>1, StepIn
<1>3. /\ req' = [req EXCEPT ![c] = r] /\ aborted' = aborted \cup {me.plan}
      /\ plans' = IF failed = me.snap THEN plans
                  ELSE [plans EXCEPT ![me.plan] = [failed EXCEPT !.status = "running"]]
      /\ UNCHANGED <<chat, doc, approvals, rejected, strayed>>
  BY DEF Exhaust, Become
<1>4. /\ failed \in Plan /\ failed.status = me.snap.status /\ failed.kind = me.snap.kind
      /\ failed.ver = me.snap.ver /\ failed.risky = me.snap.risky
      /\ Granted(approvals, me.plan, failed)
  BY <1>0, <1>1, <1>2, WithResult
<1> HIDE DEF failed, s
<1>5. /\ r \in Requests /\ r.chat = me.chat /\ r.pc = "revert" /\ r.plan = me.plan
      /\ r.op = me.op /\ r.snap = failed /\ r.todo = {}
  BY <1>0, <1>4 DEF Requests, Pcs
<1> HIDE DEF r
<1>6. Sound(plans, approvals, r)
  BY <1>0, <1>4, <1>5 DEF Sound, Fits, Named, Loaded, Pcs, RunPcs
<1>7. aborted' \subseteq PlanIds /\ strayed' \subseteq PlanIds \X StepIds
      /\ chat' \in Chats /\ Linked(plans, chat') /\ doc' \in Docs
  BY <1>0, <1>1, <1>3
<1>8. CASE plans' = plans
  BY <1>3, <1>5, <1>6, <1>7, <1>8, LocalStep
<1>9. CASE plans' = [plans EXCEPT ![me.plan] = [failed EXCEPT !.status = "running"]]
  <2>1. "running" \in Statuses \ {"none"} /\ me.pc \in RunPcs
    BY <1>0 DEF Statuses, RunPcs
  <2> QED  BY <1>3, <1>4, <1>5, <1>6, <1>7, <1>9, <2>1, SavesRun
<1> QED  BY <1>3, <1>8, <1>9

LEMMA RevertSound ==
  ASSUME IndInv, NEW c \in Clients, Revert(c)
  PROVE  IndInv'
<1> DEFINE me == req[c]
           r == [me EXCEPT !.pc = "run"]
<1>0. /\ me \in Requests /\ Sound(plans, approvals, me) /\ me.pc = "revert"
      /\ chat \in Chats /\ Linked(plans, chat) /\ doc \in Docs /\ aborted \subseteq PlanIds
      /\ strayed \subseteq PlanIds \X StepIds
  BY Held DEF Revert, At
<1>1. doc' \in Docs
  BY <1>0, RevertedType DEF Revert, Requests
<1>2. /\ r \in Requests /\ r.chat = me.chat /\ r.pc = "run" /\ r.plan = me.plan
      /\ r.op = me.op /\ r.snap = me.snap /\ r.todo = me.todo
  BY <1>0 DEF Requests, Pcs
<1>3. /\ req' = [req EXCEPT ![c] = r]
      /\ UNCHANGED <<chat, plans, approvals, rejected, aborted, strayed>>
  BY DEF Revert, Become, history
<1> HIDE DEF r
<1>4. Sound(plans, approvals, r)
  BY <1>0, <1>2 DEF Sound, Fits, Named, Loaded, Pcs, RunPcs
<1> QED  BY <1>0, <1>1, <1>2, <1>3, <1>4, LocalStep

LEMMA FinalizeSound ==
  ASSUME IndInv, NEW c \in Clients, Finalize(c)
  PROVE  IndInv'
<1> DEFINE me == req[c]
           status == FinalStatus(me.snap)
           ended == [me.snap EXCEPT !.status = status]
           r == [me EXCEPT !.pc = "capture", !.snap = ended]
<1>0. /\ me \in Requests /\ Sound(plans, approvals, me) /\ me.pc = "run" /\ me.snap \in Plan
      /\ aborted \subseteq PlanIds
  BY Held DEF Finalize, At, Requests
<1>1. status \in Statuses \ {"none"}
  BY DEF FinalStatus, Statuses
<1>2. /\ req' = [req EXCEPT ![c] = r] /\ plans' = [plans EXCEPT ![me.plan] = ended]
      /\ UNCHANGED <<chat, doc, approvals, rejected, aborted, strayed>>
  BY DEF Finalize, Become, history
<1> HIDE DEF status
<1>3. /\ ended \in Plan /\ ended.status # "none" /\ ended.kind = me.snap.kind
      /\ ended.ver = me.snap.ver /\ ended.risky = me.snap.risky /\ ended.steps = me.snap.steps
  BY <1>0, <1>1 DEF Plan
<1>4. r \in Requests /\ r.chat = me.chat /\ r.pc = "capture" /\ r.plan = me.plan
      /\ r.op = me.op /\ r.snap = ended
  BY <1>0, <1>3 DEF Requests, Pcs
<1>5. Granted(approvals, me.plan, me.snap) /\ Granted(approvals, me.plan, ended)
  BY <1>0, <1>3 DEF Sound, Granted
<1> HIDE DEF r
<1>6. Sound(plans, approvals, r)
  <2> HIDE DEF ended
  <2> QED  BY <1>0, <1>3, <1>4, <1>5 DEF Sound, Fits, Named, Loaded, Pcs, RunPcs
<1>7. me.pc \in RunPcs
  BY <1>0 DEF RunPcs
<1>8. aborted' \subseteq PlanIds /\ UNCHANGED <<chat, doc, approvals, rejected, strayed>>
  BY <1>0, <1>2
<1> QED  BY <1>0, <1>1, <1>2, <1>4, <1>5, <1>6, <1>7, <1>8, SavesRun

LEMMA CaptureSound ==
  ASSUME IndInv, NEW c \in Clients, Capture(c)
  PROVE  IndInv'
<1> DEFINE me == req[c]
           r == [me EXCEPT !.pc = "outcome"]
<1>0. /\ me \in Requests /\ Sound(plans, approvals, me) /\ me.pc = "capture" /\ me.snap \in Plan
      /\ chat \in Chats /\ Linked(plans, chat) /\ aborted \subseteq PlanIds
  BY Held DEF Capture, At, Requests
<1>1. /\ req' = [req EXCEPT ![c] = r]
      /\ plans' = plans \/ plans' = [plans EXCEPT ![me.plan] = me.snap]
      /\ UNCHANGED <<chat, doc, approvals, rejected, aborted, strayed>>
  BY DEF Capture, Become, history
<1>2. r \in Requests /\ r.chat = me.chat /\ r.pc = "outcome" /\ r.plan = me.plan
      /\ r.op = me.op /\ r.snap = me.snap
  BY <1>0 DEF Requests, Pcs
<1> HIDE DEF r
<1>3. Sound(plans, approvals, r)
  BY <1>0, <1>2 DEF Sound, Fits, Named, Loaded, Pcs, RunPcs
<1>4. CASE plans' = plans
  BY <1>0, <1>1, <1>2, <1>3, <1>4, GoesOn
<1>5. CASE plans' = [plans EXCEPT ![me.plan] = me.snap]
  <2>1. /\ Granted(approvals, me.plan, me.snap) /\ me.snap.status \in Statuses \ {"none"}
        /\ me.pc \in RunPcs
    BY <1>0 DEF Sound, Named, Loaded, Pcs, RunPcs, Plan
  <2>2. [me.snap EXCEPT !.status = me.snap.status] = me.snap
    BY <1>0 DEF Plan
  <2>3. aborted' \subseteq PlanIds /\ UNCHANGED <<chat, doc, approvals, rejected, strayed>>
    BY <1>0, <1>1
  <2> QED  BY <1>0, <1>1, <1>2, <1>3, <1>5, <2>1, <2>2, <2>3, SavesRun
<1> QED  BY <1>1, <1>4, <1>5

LEMMA OutcomeSound ==
  ASSUME IndInv, NEW c \in Clients, Outcome(c)
  PROVE  IndInv'
<1> DEFINE me == req[c]
           event == IF Me(c).status = "failed" THEN "execution_failed" ELSE "execution_completed"
           stage == IF me.chat.stage = "executing" THEN After(me.chat.stage, event)
                    ELSE me.chat.stage
           plan == IF me.snap.kind = "primary" THEN me.plan ELSE me.chat.plan
<1>0. /\ me \in Requests /\ Sound(plans, approvals, me) /\ me.pc = "outcome"
      /\ chat \in Chats /\ Linked(plans, chat) /\ me.chat \in Chats
  BY Held DEF Outcome, At, Requests
<1>1. /\ Known(plans, me.plan) /\ me.snap.kind = plans[me.plan].kind /\ Linked(plans, me.chat)
  BY <1>0 DEF Sound, Named, Loaded, Pcs
<1>2. stage \in Stages
  <2>1. CASE me.chat.stage = "executing"
    BY <2>1, EditIsLegal, AfterType
  <2>2. CASE me.chat.stage # "executing"
    BY <1>0, <2>2 DEF Chats
  <2> QED  BY <2>1, <2>2
<1>3. /\ chat' = chat \/ chat' = [stage |-> stage, plan |-> plan]
      /\ req' = [req EXCEPT ![c] = Idle]
      /\ UNCHANGED <<plans, doc, approvals, rejected, aborted, strayed>>
  BY DEF Outcome, Become, history
<1>4. plan \in PlanIds \cup {NoPlan}
      /\ (plan # NoPlan => Known(plans, plan) /\ plans[plan].kind = "primary")
  BY <1>0, <1>1 DEF Linked, Known, Chats
<1> HIDE DEF stage, plan
<1>5. chat' \in Chats /\ Linked(plans, chat')
  BY <1>0, <1>2, <1>3, <1>4 DEF Chats, Linked
<1> QED  BY <1>3, <1>5, EndStep

LEMMA EditOutcomeSound ==
  ASSUME IndInv, NEW c \in Clients, EditOutcome(c)
  PROVE  IndInv'
<1> DEFINE me == req[c]
           landed == [me.chat EXCEPT !.stage = After(@, "edit_auto_executed")]
           r1 == [me EXCEPT !.pc = "card", !.snap = plans[me.plan]]
           r2 == [me EXCEPT !.pc = "card", !.snap = plans[me.plan], !.chat = landed]
<1>0. /\ me \in Requests /\ Sound(plans, approvals, me) /\ me.pc = "outcome" /\ me.op = "turn"
      /\ chat \in Chats /\ Linked(plans, chat) /\ me.chat \in Chats
      /\ plans \in Rows /\ SoundRows(plans, approvals)
  BY Held DEF EditOutcome, At, Requests
<1>1. /\ Known(plans, me.plan) /\ me.plan \in PlanIds /\ Linked(plans, me.chat)
      /\ HasModel(me.chat.stage)
  BY <1>0 DEF Sound, Named, Pcs, RunPcs, Known
<1>2. /\ plans[me.plan] \in Plan /\ plans[me.plan].status # "none" /\ plans[me.plan].ver >= 1
      /\ Granted(approvals, me.plan, plans[me.plan])
  BY <1>0, <1>1 DEF Rows, SoundRows, Known
<1>3. landed \in Chats /\ Linked(plans, landed)
  <2>1. After(me.chat.stage, "edit_auto_executed") \in Stages
    BY <1>1, EditIsLegal, AfterType
  <2> QED  BY <1>0, <1>1, <2>1 DEF Chats, Linked
<1>4. /\ \/ req' = [req EXCEPT ![c] = r1] /\ chat' = chat
         \/ req' = [req EXCEPT ![c] = r2] /\ chat' = landed
      /\ UNCHANGED <<plans, doc, approvals, rejected, aborted, strayed>>
  BY DEF EditOutcome, Become, history, Me
<1> HIDE DEF landed
<1>5. /\ r1 \in Requests /\ r1.chat = me.chat /\ r1.pc = "card" /\ r1.plan = me.plan
      /\ r1.op = me.op /\ r1.snap = plans[me.plan]
  BY <1>0, <1>2 DEF Requests, Pcs
<1>6. /\ r2 \in Requests /\ r2.chat = landed /\ r2.pc = "card" /\ r2.plan = me.plan
      /\ r2.op = me.op /\ r2.snap = plans[me.plan]
  BY <1>0, <1>2, <1>3 DEF Requests, Pcs
<1> HIDE DEF r1, r2
<1>7. Sound(plans, approvals, r1) /\ Sound(plans, approvals, r2)
  BY <1>0, <1>1, <1>2, <1>3, <1>5, <1>6 DEF Sound, Fits, RunPcs
<1> QED  BY <1>0, <1>3, <1>4, <1>5, <1>6, <1>7, GoesOn
-----------------------------------------------------------------------------
(***************************************************************************)
(* Failures, undo and the specification                                    *)
(***************************************************************************)
LEMMA RaisesSound ==
  ASSUME IndInv, NEW c \in Clients, Raises(c)
  PROVE  IndInv'
<1> DEFINE me == req[c]
<1>0. /\ me \in Requests /\ Sound(plans, approvals, me) /\ me.snap \in Plan
      /\ me.pc \in {"run", "persist", "judge", "revert"} /\ chat \in Chats /\ Linked(plans, chat)
      /\ aborted \subseteq PlanIds
  BY Held DEF Raises, Requests
<1>1. /\ req' = [req EXCEPT ![c] = Idle]
      /\ \/ plans' = plans
         \/ plans' = [plans EXCEPT ![me.plan] = [me.snap EXCEPT !.status = "failed"]]
      /\ UNCHANGED <<chat, doc, approvals, rejected, aborted, strayed>>
  BY DEF Raises, Become, history
<1>2. Idle \in Requests /\ Sound(plans, approvals, Idle)
  BY IdleSound
<1>3. CASE plans' = plans
  BY <1>0, <1>1, <1>3, EndStep
<1>4. CASE plans' = [plans EXCEPT ![me.plan] = [me.snap EXCEPT !.status = "failed"]]
  <2>1. /\ Granted(approvals, me.plan, me.snap) /\ "failed" \in Statuses \ {"none"}
        /\ me.pc \in RunPcs
    BY <1>0 DEF Sound, Statuses, RunPcs
  <2>2. aborted' \subseteq PlanIds /\ UNCHANGED <<chat, doc, approvals, rejected, strayed>>
    BY <1>0, <1>1
  <2> QED  BY <1>0, <1>1, <1>2, <1>4, <2>1, <2>2, SavesRun
<1> QED  BY <1>1, <1>3, <1>4

LEMMA UndoSound ==
  ASSUME IndInv, NEW c \in Clients, NEW p \in PlanIds, Undo(c, p)
  PROVE  IndInv'
<1>1. plans[p].mark \in Nat /\ doc \in Docs
  BY Held DEF Undo, Rows, Plan
<1>2. doc' \in Docs
  BY <1>1, RevertedType DEF Undo
<1>3. UNCHANGED <<chat, plans, req, approvals, rejected, aborted, strayed>>
  BY DEF Undo, history
<1> QED  BY <1>2, <1>3 DEF IndInv, TypeOK, Docs

LEMMA CrashSound == IndInv /\ Crash => IndInv'
<1> SUFFICES ASSUME IndInv, Crash PROVE IndInv'
  OBVIOUS
<1>1. Idle \in Requests /\ Sound(plans, approvals, Idle)
  BY IdleSound
<1>2. /\ req' = [c \in Clients |-> Idle]
      /\ UNCHANGED <<chat, plans, doc, approvals, rejected, aborted, strayed>>
  BY DEF Crash, history
<1> HIDE DEF Idle
<1> QED  BY <1>1, <1>2 DEF IndInv, TypeOK

LEMMA InitSound == Init => IndInv
<1> SUFFICES ASSUME Init PROVE IndInv
  OBVIOUS
<1>1. /\ chat = [stage |-> "discovery", plan |-> NoPlan]
      /\ plans = [p \in PlanIds |-> Absent]
      /\ doc = [owner |-> NoPlan, made |-> <<>>]
      /\ req = [c \in Clients |-> Idle]
      /\ approvals = {} /\ rejected = {} /\ aborted = {} /\ strayed = {}
  BY DEF Init
<1>2. chat \in Chats /\ Linked(plans, chat)
  BY <1>1 DEF Chats, Stages, Linked
<1>3. Absent \in Plan /\ Absent.risky = {} /\ Absent.status = "none"
  BY AbsentIsPlan DEF Absent
<1>4. 0 \in 0 .. MaxCorrections
  BY ConstantsAssumption
<1>5. Idle \in Requests /\ Sound(plans, approvals, Idle)
  <2>1. Idle \in Requests
    BY <1>3, <1>4 DEF Idle, Requests, Pcs, Ops, Chats, Stages
  <2>2. /\ Idle.pc = "idle" /\ Idle.op = "none" /\ Idle.chat.plan = NoPlan
        /\ Idle.snap.risky = {}
    BY <1>3 DEF Idle
  <2> QED  BY <2>1, <2>2 DEF Sound, Fits, Granted, Linked, Named, Loaded, RunPcs, Pcs
<1> HIDE DEF Idle, Absent
<1>6. SoundRows(plans, approvals)
  BY <1>1, <1>3 DEF SoundRows, Granted
<1>7. TypeOK
  <2>1. <<>> \in Seq(PlanIds \X StepIds)
    OBVIOUS
  <2> QED  BY <1>1, <1>2, <1>3, <1>5, <2>1 DEF TypeOK
<1> QED  BY <1>1, <1>2, <1>5, <1>6, <1>7 DEF IndInv

\* Every step keeps the invariant, one action after another.
LEMMA NextSound == IndInv /\ [Next]_vars => IndInv'
<1> SUFFICES ASSUME IndInv, [Next]_vars PROVE IndInv'
  OBVIOUS
<1>1. CASE UNCHANGED vars
  BY <1>1 DEF vars, IndInv, TypeOK
<1>2. ASSUME NEW c \in Clients, TurnStep(c) PROVE IndInv'
  BY <1>2, OpenTurnSound, ClarifySound, ProposePrimarySound, LinkPlanSound, ReadTimelineSound,
     ProposeEditSound, AskEditSound, AutoApproveSound, SaveCardSound, SaveTitleSound DEF TurnStep
<1>3. ASSUME NEW c \in Clients, CardStep(c) PROVE IndInv'
  BY <1>3, ReloadSound, SaveDecisionSound, AdvanceSound, SaveEditSound, LoadExecuteSound,
     StartRunSound DEF CardStep
<1>4. ASSUME NEW c \in Clients, RunStep(c) PROVE IndInv'
  BY <1>4, DispatchSound, PersistSound, CorrectSound, ExhaustSound, RevertSound, FinalizeSound,
     CaptureSound, OutcomeSound, EditOutcomeSound DEF RunStep
<1>5. ASSUME NEW c \in Clients, NEW p \in PlanIds,
             \/ \E decision \in {"approve", "reject"} : StartDecision(c, p, decision)
             \/ StartEdit(c, p) \/ StartExecute(c, p) \/ Undo(c, p)
      PROVE  IndInv'
  BY <1>5, StartDecisionSound, StartEditSound, StartExecuteSound, UndoSound
<1> QED
  BY <1>1, <1>2, <1>3, <1>4, <1>5, StartTurnSound, RaisesSound, CrashSound DEF Next

LEMMA Invariance == Spec => []IndInv
<1>1. Init => IndInv
  BY InitSound
<1>2. IndInv /\ [Next]_vars => IndInv'
  BY NextSound
<1> QED  BY <1>1, <1>2, PTL DEF Spec

\* Whatever is written from whichever copies, by any number of handlers, and
\* wherever they die, the rows stay well typed and the chat linked to a primary
\* plan (orchestrator and store: rows written whole from a handler's copy).
THEOREM StateIsSoundHolds == Spec => []StateIsSound
<1>1. IndInv => StateIsSound
  BY DEF IndInv, StateIsSound, LinkIsPrimary, Linked
<1> QED  BY <1>1, Invariance, PTL

\* No step that requires an approval is sent to the host unless a user approved
\* the very content it is part of, for any number of handlers and retries
\* (policy.apply_plan_approval, the executor's and the loop's gate on a step).
THEOREM OnlyApprovedRunsHolds == Spec => []OnlyApprovedRuns
<1>1. IndInv => OnlyApprovedRuns
  <2> SUFFICES ASSUME IndInv, NEW c \in Clients, Running(c), Step(c) \in req[c].snap.risky
               PROVE  <<req[c].plan, req[c].snap.ver>> \in approvals
    BY DEF OnlyApprovedRuns
  <2>1. req[c] \in Requests /\ Sound(plans, approvals, req[c]) /\ req[c].pc = "run"
        /\ req[c].todo # {}
    BY Held DEF Running, At
  <2>2. Step(c) \in req[c].todo
    BY <2>1, StepIn
  <2> QED  BY <2>1, <2>2 DEF Sound
<1> QED  BY <1>1, Invariance, PTL
-----------------------------------------------------------------------------
(***************************************************************************)
(* One client at a time: what is lost when two of them write the same row  *)
(* from older copies holds while one request follows the other.            *)
(***************************************************************************)
\* A request that is not a rejection works on no rejected plan.
RejectedInv(c) ==
  /\ \A p \in rejected : plans[p].status = "rejected"
  /\ req[c].pc \in Named /\ req[c].op # "reject" => req[c].plan \notin rejected

\* Nothing but the run of an execute request is in the executing stage; no
\* failure is left that could end it.
ExecutingInv(c) ==
  /\ left \in [{"requests", "crashes", "raises"} -> Int] /\ left.crashes = 0 /\ left.raises = 0
  /\ chat.stage = "executing" => req[c].chat.stage = "executing"
  /\ req[c].chat.stage = "executing" => req[c].op = "execute" /\ req[c].pc \in RunPcs

\* While a run is live its copy tells what was done, then the row does.
Live == {"run", "persist", "judge", "revert"}
Done(ps, r, p) == IF r.pc \in Live /\ r.plan = p THEN r.snap.steps ELSE ps[p].steps
Undone(row) == \A s \in StepIds : row.steps[s] # "completed"

\* What is in the document is there once and is completed; what a run has left
\* to do is not.
Counted == left \in [{"requests", "crashes", "raises"} -> Int] /\ left.crashes = 0
           /\ (~Loop => left.raises = 0)
Distinct(made) == \A i, j \in DOMAIN made : made[i] = made[j] => i = j
Recorded(made, ps, r) ==
  \A i \in DOMAIN made : Done(ps, r, made[i][1])[made[i][2]] = "completed"
Untouched ==
  \A p \in PlanIds : plans[p].status \in {"none", "draft", "waiting_approval"} => Undone(plans[p])
Copies(c) ==
  /\ req[c].pc \in Loaded \ (Live \cup {"title", "advance"}) => req[c].snap = plans[req[c].plan]
  /\ req[c].pc \in {"ask", "auto"} \/ (req[c].op = "turn" /\ req[c].pc \in RunPcs)
       => req[c].snap.kind = "edit"
  /\ req[c].pc = "link" \/ (req[c].pc = "card" /\ req[c].snap.kind = "primary") => Undone(req[c].snap)
  /\ req[c].pc = "edit" => req[c].snap.status \in {"draft", "waiting_approval"}
Ahead(c) ==
  /\ req[c].pc \in {"run", "judge"} => \A s \in req[c].todo : req[c].snap.steps[s] # "completed"
  /\ req[c].pc = "persist" =>
       \A s \in req[c].todo \ {Step(c)} : req[c].snap.steps[s] # "completed"
  /\ req[c].pc = "judge" \/ (req[c].pc = "persist" /\ req[c].bad)
       => req[c].snap.steps[Step(c)] = "failed"
BuiltInv(c) ==
  /\ Counted /\ Distinct(doc.made) /\ Recorded(doc.made, plans, req[c])
  /\ Untouched /\ Copies(c) /\ Ahead(c)
LEMMA BecomeDoes ==
  ASSUME IndInv, NEW c \in Clients, NEW r, Become(c, r)
  PROVE  req'[c] = r
BY DEF IndInv, TypeOK, Become

LEMMA StartTurnDoes ==
  ASSUME IndInv, NEW c \in Clients, StartTurn(c)
  PROVE  /\ req[c].pc = "idle"
         /\ req'[c].pc = "turn" /\ req'[c].op = "turn" /\ req'[c].chat = chat
         /\ UNCHANGED <<chat, plans, doc>> /\ left' = [left EXCEPT !["requests"] = @ - 1] /\ UNCHANGED rejected
<1>1. req'[c] = [Idle EXCEPT !.pc = "turn", !.op = "turn", !.chat = chat]
  BY BecomeDoes DEF StartTurn
<1>2. req[c] = Idle /\ Idle.pc = "idle"
  BY DEF StartTurn, Arrives, Idle
<1>3. left' = [left EXCEPT !["requests"] = @ - 1]
  BY DEF StartTurn, Arrives, Spends
<1>4. UNCHANGED <<chat, plans, doc, rejected>>
  BY DEF StartTurn, history
<1> QED  BY <1>1, <1>2, <1>3, <1>4 DEF StartTurn, Idle

LEMMA OpenTurnDoes ==
  ASSUME IndInv, NEW c \in Clients, OpenTurn(c)
  PROVE  /\ req[c].pc = "turn"
         /\ req'[c].pc = "opened" /\ req'[c].op = req[c].op /\ req'[c].chat = req[c].chat
         /\ chat' = req[c].chat /\ UNCHANGED <<plans, doc, rejected, left>>
BY Held, BecomeDoes DEF OpenTurn, At, history, Requests

LEMMA ClarifyDoes ==
  ASSUME IndInv, NEW c \in Clients, Clarify(c)
  PROVE  /\ req[c].pc = "opened"
         /\ req'[c] = Idle
         /\ chat'.stage \in {"editing", "discovery"} /\ UNCHANGED <<plans, doc, rejected, left>>
BY Held, BecomeDoes DEF Clarify, At, history, Requests, Chats

LEMMA LinkPlanDoes ==
  ASSUME IndInv, NEW c \in Clients, LinkPlan(c)
  PROVE  /\ req[c].pc = "link"
         /\ \/ req'[c] = Idle /\ chat' = chat
            \/ req'[c].pc = "card" /\ req'[c].op = req[c].op /\ req'[c].plan = req[c].plan /\ req'[c].snap = req[c].snap
               /\ req'[c].chat.stage = "planning" /\ chat' = req'[c].chat
         /\ UNCHANGED <<plans, doc, rejected, left>>
<1> DEFINE linked == [stage |-> "planning", plan |-> req[c].plan]
<1>1. req[c] \in Requests
  BY Held
<1>2. \/ req'[c] = Idle /\ chat' = chat
      \/ req'[c] = [req[c] EXCEPT !.pc = "card", !.chat = linked] /\ chat' = linked
  BY BecomeDoes DEF LinkPlan
<1>3. req[c].pc = "link" /\ UNCHANGED <<plans, doc, rejected, left>>
  BY DEF LinkPlan, At, history
<1>4. linked.stage = "planning"
  OBVIOUS
<1> HIDE DEF linked
<1> QED  BY <1>1, <1>2, <1>3, <1>4 DEF Requests

LEMMA ReadTimelineDoes ==
  ASSUME IndInv, NEW c \in Clients, ReadTimeline(c)
  PROVE  /\ req[c].pc = "opened"
         /\ req'[c].pc = "timeline" /\ req'[c].op = req[c].op /\ req'[c].chat = req[c].chat
         /\ UNCHANGED <<chat, plans, doc, rejected, left>>
BY Held, BecomeDoes DEF ReadTimeline, At, history, Requests

LEMMA AskEditDoes ==
  ASSUME IndInv, NEW c \in Clients, AskEdit(c)
  PROVE  /\ req[c].pc = "ask"
         /\ req'[c].pc = "card" /\ req'[c].op = req[c].op /\ req'[c].plan = req[c].plan /\ req'[c].snap = req[c].snap /\ req'[c].chat = req[c].chat
         /\ chat'.stage = After(req[c].chat.stage, "edit_high_risk_requested")
         /\ UNCHANGED <<plans, doc, rejected, left>>
BY Held, BecomeDoes DEF AskEdit, At, history, Requests, Chats

LEMMA SaveCardDoes ==
  ASSUME IndInv, NEW c \in Clients, SaveCard(c)
  PROVE  /\ req[c].pc = "card"
         /\ req'[c].pc = "title" /\ req'[c].op = req[c].op /\ req'[c].plan = req[c].plan /\ req'[c].snap = req[c].snap /\ req'[c].chat = req[c].chat
         /\ UNCHANGED <<chat, doc, rejected, left>>
BY Held, BecomeDoes DEF SaveCard, At, history, Requests

LEMMA SaveTitleDoes ==
  ASSUME IndInv, NEW c \in Clients, SaveTitle(c)
  PROVE  /\ req[c].pc = "title"
         /\ req'[c] = Idle /\ chat' \in {chat, req[c].chat}
         /\ UNCHANGED <<plans, doc, rejected, left>>
BY Held, BecomeDoes DEF SaveTitle, At, history, Requests

LEMMA StartDecisionDoes ==
  ASSUME IndInv, NEW c \in Clients, NEW p \in PlanIds, NEW decision \in {"approve", "reject"}, StartDecision(c, p, decision)
  PROVE  /\ req[c].pc = "idle"
         /\ req'[c].pc = "reload" /\ req'[c].op = decision /\ req'[c].plan = p
            /\ req'[c].chat = chat /\ Approvable(plans[p], decision)
         /\ UNCHANGED <<chat, plans, doc>> /\ left' = [left EXCEPT !["requests"] = @ - 1] /\ UNCHANGED rejected
<1>1. req'[c] = [Idle EXCEPT !.pc = "reload", !.op = decision, !.plan = p, !.chat = chat]
  BY BecomeDoes DEF StartDecision
<1>2. req[c] = Idle /\ Idle.pc = "idle"
  BY DEF StartDecision, Arrives, Idle
<1>3. left' = [left EXCEPT !["requests"] = @ - 1]
  BY DEF StartDecision, Arrives, Spends
<1>4. UNCHANGED <<chat, plans, doc, rejected>>
  BY DEF StartDecision, history
<1> QED  BY <1>1, <1>2, <1>3, <1>4 DEF StartDecision, Idle

LEMMA ReloadDoes ==
  ASSUME IndInv, NEW c \in Clients, Reload(c)
  PROVE  /\ req[c].pc = "reload"
         /\ req'[c].pc = "decide" /\ req'[c].op = req[c].op /\ req'[c].plan = req[c].plan /\ req'[c].chat = req[c].chat
            /\ req'[c].snap = plans[req[c].plan]
         /\ UNCHANGED <<chat, plans, doc, rejected, left>>
BY Held, BecomeDoes DEF Reload, At, history, Requests, Me

LEMMA SaveDecisionDoes ==
  ASSUME IndInv, NEW c \in Clients, SaveDecision(c)
  PROVE  /\ req[c].pc = "decide"
         /\ req'[c].pc = "advance" /\ req'[c].op = req[c].op /\ req'[c].plan = req[c].plan /\ req'[c].snap = req[c].snap /\ req'[c].chat = req[c].chat
         /\ UNCHANGED <<chat, doc, left>>
BY Held, BecomeDoes DEF SaveDecision, At, history, Requests

LEMMA AdvanceDoes ==
  ASSUME IndInv, NEW c \in Clients, Advance(c)
  PROVE  /\ req[c].pc = "advance"
         /\ req'[c] = Idle
         /\ UNCHANGED <<plans, doc, rejected, left>>
BY Held, BecomeDoes DEF Advance, At, history, Requests

LEMMA StartEditDoes ==
  ASSUME IndInv, NEW c \in Clients, NEW p \in PlanIds, StartEdit(c, p)
  PROVE  /\ req[c].pc = "idle"
         /\ req'[c].pc = "edit" /\ req'[c].op = "edit" /\ req'[c].plan = p /\ req'[c].snap = plans[p]
            /\ req'[c].chat.stage = "discovery"
         /\ plans[p].status \in {"draft", "waiting_approval"}
         /\ UNCHANGED <<chat, plans, doc>> /\ left' = [left EXCEPT !["requests"] = @ - 1] /\ UNCHANGED rejected
<1>1. req'[c] = [Idle EXCEPT !.pc = "edit", !.op = "edit", !.plan = p, !.snap = plans[p]]
  BY BecomeDoes DEF StartEdit
<1>2. req[c] = Idle /\ Idle.pc = "idle"
  BY DEF StartEdit, Arrives, Idle
<1>3. left' = [left EXCEPT !["requests"] = @ - 1]
  BY DEF StartEdit, Arrives, Spends
<1>4. UNCHANGED <<chat, plans, doc, rejected>>
  BY DEF StartEdit, history
<1> QED  BY <1>1, <1>2, <1>3, <1>4 DEF StartEdit, Idle

LEMMA SaveEditDoes ==
  ASSUME IndInv, NEW c \in Clients, SaveEdit(c)
  PROVE  /\ req[c].pc = "edit"
         /\ req'[c] = Idle
         /\ UNCHANGED <<chat, doc, rejected, left>>
BY Held, BecomeDoes DEF SaveEdit, At, history, Requests

LEMMA StartExecuteDoes ==
  ASSUME IndInv, NEW c \in Clients, NEW p \in PlanIds, StartExecute(c, p)
  PROVE  /\ req[c].pc = "idle"
         /\ req'[c].pc = "load" /\ req'[c].op = "execute" /\ req'[c].plan = p
            /\ req'[c].chat = chat /\ Executable(plans[p])
         /\ UNCHANGED <<chat, plans, doc>> /\ left' = [left EXCEPT !["requests"] = @ - 1] /\ UNCHANGED rejected
<1>1. req'[c] = [Idle EXCEPT !.pc = "load", !.op = "execute", !.plan = p, !.chat = chat]
  BY BecomeDoes DEF StartExecute
<1>2. req[c] = Idle /\ Idle.pc = "idle"
  BY DEF StartExecute, Arrives, Idle
<1>3. left' = [left EXCEPT !["requests"] = @ - 1]
  BY DEF StartExecute, Arrives, Spends
<1>4. UNCHANGED <<chat, plans, doc, rejected>>
  BY DEF StartExecute, history
<1> QED  BY <1>1, <1>2, <1>3, <1>4 DEF StartExecute, Idle

LEMMA PersistDoes ==
  ASSUME IndInv, NEW c \in Clients, Persist(c)
  PROVE  /\ req[c].pc = "persist"
         /\ req'[c].op = req[c].op /\ req'[c].plan = req[c].plan /\ req'[c].snap = req[c].snap /\ req'[c].chat = req[c].chat
         /\ \/ req'[c].pc = "judge" /\ req[c].bad /\ req'[c].todo = req[c].todo
            \/ req'[c].pc = "run" /\ ~req[c].bad /\ req'[c].todo = req[c].todo \ {Step(c)}
         /\ UNCHANGED <<chat, doc, rejected, left>>
BY Held, BecomeDoes DEF Persist, At, history, Requests

LEMMA CorrectDoes ==
  ASSUME IndInv, NEW c \in Clients, Correct(c)
  PROVE  /\ req[c].pc = "judge"
         /\ req'[c].pc = "run" /\ req'[c].op = req[c].op /\ req'[c].plan = req[c].plan /\ req'[c].snap = req[c].snap /\ req'[c].chat = req[c].chat /\ req'[c].todo = req[c].todo
         /\ UNCHANGED <<chat, plans, doc, rejected, left>>
BY Held, BecomeDoes DEF Correct, At, history, Requests

LEMMA RevertDoes ==
  ASSUME IndInv, NEW c \in Clients, Revert(c)
  PROVE  /\ req[c].pc = "revert"
         /\ req'[c].pc = "run" /\ req'[c].op = req[c].op /\ req'[c].plan = req[c].plan /\ req'[c].snap = req[c].snap /\ req'[c].chat = req[c].chat /\ req'[c].todo = req[c].todo
         /\ UNCHANGED <<chat, plans, rejected, left>>
BY Held, BecomeDoes DEF Revert, At, history, Requests

LEMMA CaptureDoes ==
  ASSUME IndInv, NEW c \in Clients, Capture(c)
  PROVE  /\ req[c].pc = "capture"
         /\ req'[c].pc = "outcome" /\ req'[c].op = req[c].op /\ req'[c].plan = req[c].plan /\ req'[c].snap = req[c].snap /\ req'[c].chat = req[c].chat
         /\ UNCHANGED <<chat, doc, rejected, left>>
BY Held, BecomeDoes DEF Capture, At, history, Requests

LEMMA OutcomeDoes ==
  ASSUME IndInv, NEW c \in Clients, Outcome(c)
  PROVE  /\ req[c].pc = "outcome"
         /\ req[c].op = "execute" /\ req'[c] = Idle
         /\ UNCHANGED <<plans, doc, rejected, left>>
BY Held, BecomeDoes DEF Outcome, At, history, Requests

LEMMA EditOutcomeDoes ==
  ASSUME IndInv, NEW c \in Clients, EditOutcome(c)
  PROVE  /\ req[c].pc = "outcome"
         /\ req[c].op = "turn" /\ req'[c].pc = "card" /\ req'[c].op = req[c].op /\ req'[c].plan = req[c].plan
            /\ req'[c].snap = plans[req[c].plan]
         /\ \/ chat' = chat /\ req'[c].chat = req[c].chat
            \/ chat' = req'[c].chat /\ req'[c].chat.stage = After(req[c].chat.stage, "edit_auto_executed")
         /\ UNCHANGED <<plans, doc, rejected, left>>
<1> DEFINE landed == [req[c].chat EXCEPT !.stage = After(@, "edit_auto_executed")]
<1>1. req[c] \in Requests
  BY Held
<1>2. \/ /\ req'[c] = [req[c] EXCEPT !.pc = "card", !.snap = plans[req[c].plan]]
         /\ chat' = chat
      \/ /\ req'[c] = [req[c] EXCEPT !.pc = "card", !.snap = plans[req[c].plan], !.chat = landed]
         /\ chat' = landed
  BY BecomeDoes DEF EditOutcome, Me
<1>3. req[c].pc = "outcome" /\ req[c].op = "turn" /\ UNCHANGED <<plans, doc, rejected, left>>
  BY DEF EditOutcome, At, history
<1>4. landed.stage = After(req[c].chat.stage, "edit_auto_executed")
  BY <1>1 DEF Requests, Chats
<1> HIDE DEF landed
<1> QED  BY <1>1, <1>2, <1>3, <1>4 DEF Requests

LEMMA RaisesDoes ==
  ASSUME IndInv, NEW c \in Clients, Raises(c)
  PROVE  /\ req[c].pc \in {"run", "persist", "judge", "revert"}
         /\ req'[c] = Idle /\ left.raises > 0
         /\ left' = [left EXCEPT !["raises"] = @ - 1]
         /\ UNCHANGED <<chat, doc, rejected>>
BY Held, BecomeDoes DEF Raises, At, history, Requests, Spends

\* A new plan is a fresh row; none of its steps is done.
LEMMA CreatePlanDoes ==
  ASSUME IndInv, NEW c \in Clients, NEW pc, NEW kind \in Kinds, NEW risky \in SUBSET StepIds,
         NEW mark \in Marks, CreatePlan(c, pc, kind, risky, mark)
  PROVE  \E p \in PlanIds, plan \in Plan :
           /\ plans[p].status = "none" /\ plans' = [plans EXCEPT ![p] = plan]
           /\ Undone(plan) /\ plan.kind = kind
           /\ req'[c].pc = pc /\ req'[c].plan = p /\ req'[c].snap = plan
           /\ req'[c].op = req[c].op /\ req'[c].chat = req[c].chat
           /\ UNCHANGED <<chat, doc, rejected, left>>
<1> DEFINE p == Min(Unused)
<1>1. p \in PlanIds /\ plans[p].status = "none"
  <2>1. Unused \in SUBSET Nat /\ Unused # {}
    <3>1. Unused # {}
      BY DEF CreatePlan
    <3> QED  BY <3>1 DEF Unused, PlanIds
  <2>2. p \in Unused
    BY <2>1, MinIn
  <2> QED  BY <2>2 DEF Unused
<1>2. PICK only \in PlanOnly :
        LET plan == Policy(Planned(kind, only, risky, mark)) IN
        /\ plans' = [plans EXCEPT ![p] = plan]
        /\ Become(c, [req[c] EXCEPT !.pc = pc, !.plan = p, !.snap = plan])
  BY DEF CreatePlan
<1> HIDE DEF p
<1> DEFINE raw == Planned(kind, only, risky, mark)
           plan == Policy(raw)
<1>3. raw \in Plan /\ raw.kind = kind
  <2>1. 1 \in 0 .. MaxVersion
    BY ConstantsAssumption
  <2>2. only \in BOOLEAN
    BY ConstantsAssumption
  <2> HIDE DEF Absent
  <2> QED  BY <2>1, <2>2, AbsentIsPlan DEF Planned, Plan, Marks
<1>4. plans' = [plans EXCEPT ![p] = plan]
      /\ Become(c, [req[c] EXCEPT !.pc = pc, !.plan = p, !.snap = plan])
  BY <1>2
<1> HIDE DEF raw
<1>5. plan \in Plan /\ plan.kind = kind /\ \A s \in StepIds : plan.steps[s] \in {"waiting_approval", "pending"}
  BY <1>3, PolicyType
<1> HIDE DEF plan
<1>6. Undone(plan)
  BY <1>5 DEF Undone
<1>7. req'[c] = [req[c] EXCEPT !.pc = pc, !.plan = p, !.snap = plan]
  BY <1>4, BecomeDoes
<1>8. req[c] \in Requests
  BY Held
<1>9. /\ req'[c].pc = pc /\ req'[c].plan = p /\ req'[c].snap = plan
      /\ req'[c].op = req[c].op /\ req'[c].chat = req[c].chat
  BY <1>7, <1>8 DEF Requests
<1>10. UNCHANGED <<chat, doc, rejected, left>>
  BY DEF CreatePlan, history
<1> QED  BY <1>1, <1>4, <1>5, <1>6, <1>9, <1>10

LEMMA ProposeDoes ==
  ASSUME IndInv, NEW c \in Clients, ProposePrimary(c) \/ ProposeEdit(c)
  PROVE  /\ req[c].pc \in {"opened", "timeline"} /\ req'[c].op = req[c].op /\ req'[c].chat = req[c].chat
         /\ UNCHANGED <<chat, doc, rejected, left>>
         /\ \E p \in PlanIds, plan \in Plan :
              /\ plans[p].status = "none" /\ plans' = [plans EXCEPT ![p] = plan]
              /\ Undone(plan) /\ req'[c].plan = p /\ req'[c].snap = plan
              /\ \/ req'[c].pc = "link"
                 \/ req'[c].pc \in {"ask", "auto"} /\ plan.kind = "edit"
<1>1. CASE ProposePrimary(c)
  <2>1. PICK risky \in SUBSET (StepIds \ {1}) : CreatePlan(c, "link", "primary", risky, Unmarked)
    BY <1>1 DEF ProposePrimary
  <2>2. req[c].pc = "opened" /\ risky \in SUBSET StepIds /\ Unmarked \in Marks /\ "primary" \in Kinds
    BY <1>1 DEF ProposePrimary, At, Marks, Kinds
  <2> QED  BY <2>1, <2>2, CreatePlanDoes
<1>2. CASE ProposeEdit(c)
  <2>1. PICK risky \in SUBSET StepIds, mark \in {req[c].mark, Unmarked} :
          CreatePlan(c, IF risky = {} THEN "auto" ELSE "ask", "edit", risky, mark)
    BY <1>2 DEF ProposeEdit
  <2>2. req[c] \in Requests /\ req[c].pc = "timeline"
    BY <1>2, Held DEF ProposeEdit, At
  <2>3. mark \in Marks /\ "edit" \in Kinds
    BY <2>2 DEF Requests, Marks, Kinds
  <2> DEFINE pc == IF risky = {} THEN "auto" ELSE "ask"
  <2>4. pc \in {"ask", "auto"} /\ CreatePlan(c, pc, "edit", risky, mark)
    BY <2>1
  <2> HIDE DEF pc
  <2> QED  BY <2>2, <2>3, <2>4, CreatePlanDoes
<1> QED  BY <1>1, <1>2

LEMMA AutoApproveDoes ==
  ASSUME IndInv, NEW c \in Clients, AutoApprove(c)
  PROVE  LET plan == Decided(req[c].snap, "approve") IN
         /\ req[c].pc = "auto" /\ req'[c].pc = "run" /\ req'[c].op = req[c].op
         /\ req'[c].plan = req[c].plan /\ req'[c].chat = req[c].chat
         /\ req'[c].snap = plan /\ req'[c].todo = Runnable(plan)
         /\ plans' = [plans EXCEPT ![req[c].plan] = plan]
         /\ UNCHANGED <<chat, doc, rejected, left>>
<1> DEFINE plan == Decided(req[c].snap, "approve")
<1>0. req[c] \in Requests /\ req[c].snap \in Plan
  BY Held DEF Requests
<1>1. plan.status = "approved"
  BY <1>0 DEF Decided, Plan
<1>2. Become(c, Begin(c, plan)) /\ plans' = [plans EXCEPT ![req[c].plan] = plan] /\ req[c].pc = "auto"
      /\ UNCHANGED <<chat, doc, rejected, left>>
  BY DEF AutoApprove, At
<1> HIDE DEF plan
<1>3. req'[c] = [req[c] EXCEPT !.pc = "run", !.snap = plan, !.todo = Runnable(plan), !.mark = Len(doc.made)]
  BY <1>1, <1>2, BecomeDoes DEF Begin
<1>4. /\ req'[c].pc = "run" /\ req'[c].op = req[c].op /\ req'[c].plan = req[c].plan
      /\ req'[c].chat = req[c].chat /\ req'[c].snap = plan /\ req'[c].todo = Runnable(plan)
  BY <1>0, <1>3 DEF Requests
<1>5. /\ req[c].pc = "auto" /\ req'[c].pc = "run" /\ req'[c].op = req[c].op
      /\ req'[c].plan = req[c].plan /\ req'[c].chat = req[c].chat
      /\ req'[c].snap = plan /\ req'[c].todo = Runnable(plan)
      /\ plans' = [plans EXCEPT ![req[c].plan] = plan]
      /\ UNCHANGED <<chat, doc, rejected, left>>
  BY <1>2, <1>4
<1> QED  BY <1>5 DEF plan

LEMMA SaveDecisionWrites ==
  ASSUME IndInv, NEW c \in Clients, SaveDecision(c)
  PROVE  /\ plans' = [plans EXCEPT ![req[c].plan] = Decided(req[c].snap, req[c].op)]
         /\ \/ req[c].op = "approve" /\ rejected' = rejected
            \/ req[c].op = "reject" /\ rejected' = rejected \cup {req[c].plan}
<1>1. req[c].op \in {"approve", "reject"}
  BY Held DEF SaveDecision, At, Sound, Fits
<1> QED  BY <1>1 DEF SaveDecision

LEMMA AdvanceMoves ==
  ASSUME IndInv, NEW c \in Clients, Advance(c)
  PROVE  \/ chat' = chat
         \/ \E event : /\ event # "execution_started" /\ Legal(req[c].chat.stage, event)
                       /\ chat'.stage = After(req[c].chat.stage, event)
BY DEF Advance, DecisionEvent

LEMMA SaveEditWrites ==
  ASSUME IndInv, NEW c \in Clients, SaveEdit(c)
  PROVE  \E row \in Plan : Undone(row) /\ plans' = [plans EXCEPT ![req[c].plan] = row]
<1> DEFINE me == req[c]
<1>0. /\ me \in Requests /\ Sound(plans, approvals, me) /\ me.pc = "edit" /\ me.snap \in Plan
  BY Held DEF SaveEdit, At, Requests
<1>1. me.snap.ver < MaxVersion
  BY <1>0 DEF Sound
<1>2. PICK risky \in SUBSET StepIds :
        LET plan == Policy([me.snap EXCEPT !.risky = risky, !.ver = @ + 1]) IN
        plans' = [plans EXCEPT
                    ![me.plan] = IF plan.status = "approved"
                                 THEN [plan EXCEPT !.status = "waiting_approval"] ELSE plan]
  BY DEF SaveEdit
<1> DEFINE raw == [me.snap EXCEPT !.risky = risky, !.ver = @ + 1]
           plan == Policy(raw)
           row == IF plan.status = "approved"
                  THEN [plan EXCEPT !.status = "waiting_approval"] ELSE plan
<1>3. me.snap.ver + 1 \in 0 .. MaxVersion
  BY <1>0, <1>1, ConstantsAssumption DEF Plan
<1>4. raw \in Plan
  BY <1>0, <1>3 DEF Plan
<1>5. plans' = [plans EXCEPT ![me.plan] = row]
  BY <1>2
<1> HIDE DEF raw
<1>6. plan \in Plan /\ \A s \in StepIds : plan.steps[s] \in {"waiting_approval", "pending"}
  BY <1>4, PolicyType
<1> HIDE DEF plan
<1>7. row \in Plan /\ row.steps = plan.steps
  BY <1>6 DEF Plan, Statuses
<1> HIDE DEF row
<1> QED  BY <1>5, <1>6, <1>7 DEF Undone

LEMMA LoadExecuteDoes ==
  ASSUME IndInv, NEW c \in Clients, LoadExecute(c)
  PROVE  /\ req[c].pc = "load" /\ UNCHANGED <<plans, doc, rejected, left>>
         /\ \/ req'[c] = Idle /\ chat' = chat
            \/ /\ req'[c].pc = "start" /\ req'[c].op = req[c].op /\ req'[c].plan = req[c].plan
               /\ req'[c].snap = plans[req[c].plan] /\ req'[c].snap.status # "rejected"
               /\ \/ req'[c].chat = req[c].chat /\ chat' = chat
                  \/ req'[c].chat.stage = "approved" /\ chat' = req'[c].chat
<1> DEFINE me == req[c]
           plan == plans[me.plan]
           caught == [me.chat EXCEPT !.stage = "approved"]
           loaded == [me EXCEPT !.pc = "start", !.snap = plan]
           moved == [loaded EXCEPT !.chat = caught]
<1>0. me \in Requests /\ me.chat \in Chats
  BY Held DEF Requests
<1>1. me.pc = "load" /\ UNCHANGED <<plans, doc, rejected, left>>
  BY DEF LoadExecute, At, history
<1>2. \/ req'[c] = Idle /\ chat' = chat
      \/ plan.status # "rejected" /\ req'[c] = loaded /\ chat' = chat
      \/ plan.status # "rejected" /\ req'[c] = moved /\ chat' = caught
  BY BecomeDoes DEF LoadExecute, Me, Executable
<1>3. caught.stage = "approved"
  BY <1>0 DEF Chats
<1> HIDE DEF caught
<1>4. /\ loaded.pc = "start" /\ loaded.op = me.op /\ loaded.plan = me.plan /\ loaded.snap = plan
      /\ loaded.chat = me.chat
  BY <1>0 DEF Requests
<1>5. /\ moved.pc = "start" /\ moved.op = me.op /\ moved.plan = me.plan /\ moved.snap = plan
      /\ moved.chat = caught
  BY <1>0 DEF Requests
<1> HIDE DEF loaded, moved
<1> QED  BY <1>1, <1>2, <1>3, <1>4, <1>5

LEMMA StartRunDoes ==
  ASSUME IndInv, NEW c \in Clients, StartRun(c)
  PROVE  /\ req[c].pc = "start"
         /\ req'[c].pc \in {"capture", "run"} /\ req'[c].op = req[c].op
         /\ req'[c].plan = req[c].plan /\ req'[c].snap = req[c].snap
         /\ req'[c].todo = Runnable(req[c].snap)
         /\ \/ req'[c].chat = req[c].chat /\ chat' = chat
            \/ req'[c].chat.stage = "executing" /\ chat' = req'[c].chat
         /\ UNCHANGED <<plans, doc, rejected, left>>
<1> DEFINE me == req[c]
           pc == IF me.snap.status = "draft" THEN "capture" ELSE "run"
           started == [me.chat EXCEPT !.stage = "executing"]
           b == [me EXCEPT !.pc = pc, !.snap = me.snap, !.todo = Runnable(me.snap),
                           !.mark = Len(doc.made)]
           m == [b EXCEPT !.chat = started]
<1>0. me \in Requests /\ me.chat \in Chats
  BY Held DEF Requests
<1>1. me.pc = "start" /\ UNCHANGED <<plans, doc, rejected, left>>
  BY DEF StartRun, At
<1>2. \/ req'[c] = b /\ chat' = chat
      \/ req'[c] = m /\ chat' = started
  BY BecomeDoes DEF StartRun, Begin
<1>3. started.stage = "executing" /\ pc \in {"capture", "run"}
  BY <1>0 DEF Chats
<1> HIDE DEF started, pc
<1>4. /\ b.pc = pc /\ b.op = me.op /\ b.plan = me.plan /\ b.snap = me.snap
      /\ b.chat = me.chat /\ b.todo = Runnable(me.snap)
  BY <1>0 DEF Requests
<1>5. /\ m.pc = pc /\ m.op = me.op /\ m.plan = me.plan /\ m.snap = me.snap
      /\ m.chat = started /\ m.todo = Runnable(me.snap)
  BY <1>0 DEF Requests
<1> HIDE DEF b, m
<1> QED  BY <1>1, <1>2, <1>3, <1>4, <1>5

LEMMA DispatchDoes ==
  ASSUME IndInv, NEW c \in Clients, Dispatch(c)
  PROVE  /\ req[c].pc = "run" /\ req[c].todo # {} /\ UNCHANGED <<chat, plans, rejected, left>>
         /\ req'[c].op = req[c].op /\ req'[c].plan = req[c].plan /\ req'[c].chat = req[c].chat
         /\ \E o \in Outcomes, result \in {"completed", "failed"} :
              /\ result = IF o \in {"ok", "diverged"} THEN "completed" ELSE "failed"
              /\ req'[c].snap = [req[c].snap EXCEPT !.steps[Step(c)] = result]
              /\ doc' = IF o = "error" THEN doc ELSE Build(req[c].snap.kind, req[c].plan, Step(c))
              /\ strayed' = IF o \in {"lost", "diverged"}
                            THEN strayed \cup {<<req[c].plan, Step(c)>>} ELSE strayed
              /\ \/ /\ req'[c].pc = "persist" /\ req'[c].bad = (o # "ok")
                    /\ req'[c].todo = req[c].todo
                 \/ ~Loop /\ req'[c].pc = "run" /\ req'[c].todo = req[c].todo \ {Step(c)}
<1> DEFINE me == req[c]
           s == Step(c)
<1>0. me \in Requests /\ me.snap \in Plan
  BY Held DEF Requests
<1>1. me.pc = "run" /\ me.todo # {} /\ UNCHANGED <<chat, plans, rejected, left>>
  BY DEF Dispatch, Running, At
<1>2. PICK o \in Outcomes :
        LET result == IF o \in {"ok", "diverged"} THEN "completed" ELSE "failed"
            done == [me EXCEPT !.snap.steps[s] = result] IN
        /\ doc' = IF o = "error" THEN doc ELSE Build(me.snap.kind, me.plan, s)
        /\ Become(c, IF Loop THEN [done EXCEPT !.pc = "persist", !.bad = (o # "ok")]
                     ELSE [done EXCEPT !.todo = @ \ {s}])
        /\ strayed' = IF o \in {"lost", "diverged"} THEN strayed \cup {<<me.plan, s>>} ELSE strayed
  BY DEF Dispatch
<1> DEFINE result == IF o \in {"ok", "diverged"} THEN "completed" ELSE "failed"
           done == [me EXCEPT !.snap.steps[s] = result]
           snap == [me.snap EXCEPT !.steps[s] = result]
<1>3. done = [me EXCEPT !.snap = snap]
  BY <1>0 DEF Requests, Plan
<1>4. /\ doc' = IF o = "error" THEN doc ELSE Build(me.snap.kind, me.plan, s)
      /\ strayed' = IF o \in {"lost", "diverged"} THEN strayed \cup {<<me.plan, s>>} ELSE strayed
      /\ \/ req'[c] = [done EXCEPT !.pc = "persist", !.bad = (o # "ok")]
         \/ ~Loop /\ req'[c] = [done EXCEPT !.todo = @ \ {s}]
  <2>1. Become(c, IF Loop THEN [done EXCEPT !.pc = "persist", !.bad = (o # "ok")]
                  ELSE [done EXCEPT !.todo = @ \ {s}])
    BY <1>2
  <2> HIDE DEF done
  <2> QED  BY <1>2, <2>1, BecomeDoes
<1>5. result \in {"completed", "failed"}
  OBVIOUS
<1> HIDE DEF done, s, snap
<1>6. /\ done.op = me.op /\ done.plan = me.plan /\ done.chat = me.chat /\ done.snap = snap
      /\ done.todo = me.todo /\ done.pc = me.pc
      /\ DOMAIN done = DOMAIN me
  BY <1>0, <1>3 DEF Requests
<1>7. DOMAIN done = {"pc", "op", "plan", "chat", "snap", "todo", "tries", "bad", "mark"}
  BY <1>0, <1>6 DEF Requests
<1>8. /\ req'[c].op = me.op /\ req'[c].plan = me.plan /\ req'[c].chat = me.chat
      /\ req'[c].snap = snap
      /\ \/ req'[c].pc = "persist" /\ req'[c].bad = (o # "ok") /\ req'[c].todo = me.todo
         \/ ~Loop /\ req'[c].pc = "run" /\ req'[c].todo = me.todo \ {s}
  BY <1>1, <1>4, <1>6, <1>7
<1> QED  BY <1>1, <1>4, <1>5, <1>8 DEF snap, s

LEMMA ExhaustDoes ==
  ASSUME IndInv, NEW c \in Clients, Exhaust(c)
  PROVE  LET failed == [req[c].snap EXCEPT !.steps[Step(c)] = "failed"] IN
         /\ req[c].pc = "judge" /\ req'[c].pc = "revert" /\ req'[c].todo = {}
         /\ req'[c].op = req[c].op /\ req'[c].plan = req[c].plan /\ req'[c].chat = req[c].chat
         /\ req'[c].snap = failed
         /\ \/ plans' = plans /\ failed = req[c].snap
            \/ plans' = [plans EXCEPT ![req[c].plan] = [failed EXCEPT !.status = "running"]]
         /\ aborted' = aborted \cup {req[c].plan}
         /\ UNCHANGED <<chat, doc, rejected, left>>
<1> DEFINE failed == [req[c].snap EXCEPT !.steps[Step(c)] = "failed"]
<1>0. req[c] \in Requests
  BY Held
<1>1. /\ req[c].pc = "judge"
      /\ req'[c] = [req[c] EXCEPT !.pc = "revert", !.todo = {}, !.snap = failed]
      /\ \/ plans' = plans /\ failed = req[c].snap
         \/ plans' = [plans EXCEPT ![req[c].plan] = [failed EXCEPT !.status = "running"]]
      /\ aborted' = aborted \cup {req[c].plan}
      /\ UNCHANGED <<chat, doc, rejected, left>>
  BY BecomeDoes DEF Exhaust, At
<1> HIDE DEF failed
<1>2. /\ req'[c].pc = "revert" /\ req'[c].todo = {} /\ req'[c].op = req[c].op
      /\ req'[c].plan = req[c].plan /\ req'[c].chat = req[c].chat /\ req'[c].snap = failed
  BY <1>0, <1>1 DEF Requests
<1> QED  BY <1>1, <1>2 DEF failed

LEMMA FinalizeDoes ==
  ASSUME IndInv, NEW c \in Clients, Finalize(c)
  PROVE  /\ req[c].pc = "run" /\ req'[c].pc = "capture"
         /\ req'[c].op = req[c].op /\ req'[c].plan = req[c].plan /\ req'[c].chat = req[c].chat
         /\ \E status \in {"failed", "completed", "running"} :
              req'[c].snap = [req[c].snap EXCEPT !.status = status]
         /\ plans' = [plans EXCEPT ![req[c].plan] = req'[c].snap]
         /\ UNCHANGED <<chat, doc, rejected, left>>
<1> DEFINE status == FinalStatus(req[c].snap)
           ended == [req[c].snap EXCEPT !.status = status]
<1>0. req[c] \in Requests
  BY Held
<1>1. status \in {"failed", "completed", "running"}
  BY DEF FinalStatus
<1>2. /\ req[c].pc = "run" /\ req'[c] = [req[c] EXCEPT !.pc = "capture", !.snap = ended]
      /\ plans' = [plans EXCEPT ![req[c].plan] = ended]
      /\ UNCHANGED <<chat, doc, rejected, left>>
  BY BecomeDoes DEF Finalize, At, history
<1> HIDE DEF status
<1>3. /\ req'[c].pc = "capture" /\ req'[c].op = req[c].op
      /\ req'[c].plan = req[c].plan /\ req'[c].chat = req[c].chat /\ req'[c].snap = ended
  BY <1>0, <1>2 DEF Requests
<1> QED  BY <1>1, <1>2, <1>3

\* A timeline that was reverted is the beginning of what it was.
LEMMA RevertedIs ==
  ASSUME doc \in Docs, NEW target \in Nat, NEW d \in Reverted(target)
  PROVE  /\ DOMAIN d.made \subseteq DOMAIN doc.made
         /\ \A i \in DOMAIN d.made : d.made[i] = doc.made[i]
<1>1. Len(doc.made) \in Nat /\ doc.made \in Seq(PlanIds \X StepIds)
      /\ DOMAIN doc.made = 1 .. Len(doc.made)
  BY LenProperties DEF Docs
<1>2. Min({target, Len(doc.made)}) \in Nat
  BY <1>1, MinIn
<1>3. PICK n \in Min({target, Len(doc.made)}) .. Len(doc.made) :
        d = [doc EXCEPT !.made = SubSeq(@, 1, n)]
  BY DEF Reverted
<1>4. n \in 0 .. Len(doc.made)
  BY <1>1, <1>2
<1>5. d.made = SubSeq(doc.made, 1, n)
  BY <1>3 DEF Docs
<1>6. /\ DOMAIN SubSeq(doc.made, 1, n) = 1 .. n
      /\ \A i \in 1 .. n : SubSeq(doc.made, 1, n)[i] = doc.made[i]
  BY <1>1, <1>4, SubSeqProperties
<1> QED  BY <1>1, <1>4, <1>5, <1>6
-----------------------------------------------------------------------------
(***************************************************************************)
(* Rejections                                                              *)
(***************************************************************************)
LEMMA KeepsRejected ==
  ASSUME IndInv, NEW c \in Clients, RejectedInv(c), rejected' = rejected,
         \/ plans' = plans
         \/ req[c].plan \notin rejected /\ \E row : plans' = [plans EXCEPT ![req[c].plan] = row],
         \/ req'[c].pc \notin Named
         \/ req'[c].plan \notin rejected
         \/ req[c].pc \in Named /\ req'[c].plan = req[c].plan /\ req'[c].op = req[c].op
  PROVE  RejectedInv(c)'
<1>1. plans \in Rows /\ rejected \subseteq PlanIds
  BY Held
<1>2. \A p \in rejected : plans'[p] = plans[p]
  BY <1>1 DEF Rows
<1> QED  BY <1>1, <1>2 DEF RejectedInv

LEMMA RejectedStep ==
  ASSUME NEW c, Clients = {c}, IndInv, RejectedInv(c), [Next]_vars
  PROVE  RejectedInv(c)'
<1> DEFINE me == req[c]
<1>0. /\ c \in Clients /\ me \in Requests /\ Sound(plans, approvals, me)
      /\ plans \in Rows /\ rejected \subseteq PlanIds
  BY Held
<1>1. /\ \A p \in rejected : plans[p].status = "rejected"
      /\ me.pc \in Named /\ me.op # "reject" => me.plan \notin rejected
  BY DEF RejectedInv
<1>2. /\ me.pc \in {"auto", "card", "edit"} \cup RunPcs => me.op # "reject" /\ me.pc \in Named
      /\ Idle.pc \notin Named
      /\ "turn" \notin Named /\ "opened" \notin Named /\ "timeline" \notin Named
  BY <1>0 DEF Sound, Fits, RunPcs, Named, Pcs, Idle
<1>3. /\ {"link", "ask", "card", "title", "reload", "decide", "advance", "load", "start", "run",
          "persist", "judge", "revert", "capture", "outcome"} \subseteq Named
  BY DEF Named, Pcs
<1>4. ASSUME TurnStep(c) PROVE RejectedInv(c)'
  <2>1. CASE ProposePrimary(c) \/ ProposeEdit(c)
    <3>1. PICK p \in PlanIds, plan \in Plan :
            /\ plans[p].status = "none" /\ plans' = [plans EXCEPT ![p] = plan]
            /\ req'[c].plan = p /\ rejected' = rejected
      BY <1>0, <2>1, ProposeDoes
    <3>2. p \notin rejected
      BY <1>1, <3>1
    <3> QED  BY <1>0, <1>1, <3>1, <3>2 DEF RejectedInv, Rows
  <2>2. CASE OpenTurn(c)
    BY <1>0, <1>2, <2>2, OpenTurnDoes, KeepsRejected
  <2>3. CASE Clarify(c)
    BY <1>0, <1>2, <2>3, ClarifyDoes, KeepsRejected
  <2>4. CASE LinkPlan(c)
    BY <1>0, <1>2, <1>3, <2>4, LinkPlanDoes, KeepsRejected
  <2>5. CASE ReadTimeline(c)
    BY <1>0, <1>2, <2>5, ReadTimelineDoes, KeepsRejected
  <2>6. CASE AskEdit(c)
    BY <1>0, <1>3, <2>6, AskEditDoes, KeepsRejected
  <2>7. CASE AutoApprove(c)
    BY <1>0, <1>1, <1>2, <2>7, AutoApproveDoes, KeepsRejected
  <2>8. CASE SaveCard(c)
    <3>1. \E row : plans' = [plans EXCEPT ![me.plan] = row]
      BY <2>8 DEF SaveCard
    <3> QED  BY <1>0, <1>1, <1>2, <2>8, <3>1, SaveCardDoes, KeepsRejected
  <2>9. CASE SaveTitle(c)
    BY <1>0, <1>2, <2>9, SaveTitleDoes, KeepsRejected
  <2> QED  BY <1>4, <2>1, <2>2, <2>3, <2>4, <2>5, <2>6, <2>7, <2>8, <2>9 DEF TurnStep
<1>5. ASSUME CardStep(c) PROVE RejectedInv(c)'
  <2>1. CASE Reload(c)
    BY <1>0, <1>3, <2>1, ReloadDoes, KeepsRejected
  <2>2. CASE SaveDecision(c)
    <3>1. me.plan \in PlanIds /\ me.pc = "decide" /\ me.snap \in Plan
      BY <1>0, <1>3, <2>2, SaveDecisionDoes DEF Sound, Known, Requests
    <3>2. CASE me.op = "approve" /\ rejected' = rejected
      BY <1>0, <1>1, <1>3, <2>2, <3>1, <3>2, SaveDecisionDoes, SaveDecisionWrites, KeepsRejected
    <3>3. CASE me.op = "reject" /\ rejected' = rejected \cup {me.plan}
      <4>1. Decided(me.snap, me.op).status = "rejected"
        BY <3>1, <3>3 DEF Decided, Plan
      <4>2. plans' = [plans EXCEPT ![me.plan] = Decided(me.snap, me.op)]
        BY <1>0, <2>2, SaveDecisionWrites
      <4>3. \A p \in rejected' : plans'[p].status = "rejected"
        BY <1>0, <1>1, <3>1, <3>3, <4>1, <4>2 DEF Rows
      <4> QED  BY <1>0, <2>2, <3>3, <4>3, SaveDecisionDoes DEF RejectedInv
    <3> QED  BY <1>0, <2>2, <3>2, <3>3, SaveDecisionWrites
  <2>3. CASE Advance(c)
    BY <1>0, <1>2, <2>3, AdvanceDoes, KeepsRejected
  <2>4. CASE SaveEdit(c)
    BY <1>0, <1>1, <1>2, <2>4, SaveEditDoes, SaveEditWrites, KeepsRejected
  <2>5. CASE LoadExecute(c)
    <3>1. me.pc = "load" => me.op # "reject" /\ me.pc \in Named
      BY <1>0 DEF Sound, Fits, Named, Pcs
    <3> QED  BY <1>0, <1>2, <2>5, <3>1, LoadExecuteDoes, KeepsRejected
  <2>6. CASE StartRun(c)
    BY <1>0, <1>3, <2>6, StartRunDoes, KeepsRejected
  <2> QED  BY <1>5, <2>1, <2>2, <2>3, <2>4, <2>5, <2>6 DEF CardStep
<1>6. ASSUME RunStep(c) PROVE RejectedInv(c)'
  <2>0. me.pc \in RunPcs => me.plan \notin rejected /\ me.pc \in Named
    BY <1>1, <1>2
  <2>1. CASE Dispatch(c)
    BY <1>0, <1>3, <2>1, DispatchDoes, KeepsRejected
  <2>2. CASE Persist(c)
    <3>1. \E row : plans' = [plans EXCEPT ![me.plan] = row]
      BY <2>2 DEF Persist
    <3> QED  BY <1>0, <2>0, <2>2, <3>1, PersistDoes, KeepsRejected DEF RunPcs
  <2>3. CASE Correct(c)
    BY <1>0, <1>3, <2>3, CorrectDoes, KeepsRejected
  <2>4. CASE Exhaust(c)
    BY <1>0, <2>0, <2>4, ExhaustDoes, KeepsRejected DEF RunPcs
  <2>5. CASE Revert(c)
    BY <1>0, <1>3, <2>5, RevertDoes, KeepsRejected
  <2>6. CASE Finalize(c)
    BY <1>0, <2>0, <2>6, FinalizeDoes, KeepsRejected DEF RunPcs
  <2>7. CASE Capture(c)
    <3>1. plans' = plans \/ \E row : plans' = [plans EXCEPT ![me.plan] = row]
      BY <2>7 DEF Capture
    <3> QED  BY <1>0, <2>0, <2>7, <3>1, CaptureDoes, KeepsRejected DEF RunPcs
  <2>8. CASE Outcome(c)
    BY <1>0, <1>2, <2>8, OutcomeDoes, KeepsRejected
  <2>9. CASE EditOutcome(c)
    BY <1>0, <1>3, <2>9, EditOutcomeDoes, KeepsRejected
  <2> QED  BY <1>6, <2>1, <2>2, <2>3, <2>4, <2>5, <2>6, <2>7, <2>8, <2>9 DEF RunStep
<1>7. ASSUME NEW p \in PlanIds,
             \/ \E decision \in {"approve", "reject"} : StartDecision(c, p, decision)
             \/ StartEdit(c, p) \/ StartExecute(c, p) \/ Undo(c, p)
      PROVE  RejectedInv(c)'
  <2>1. ASSUME NEW decision \in {"approve", "reject"}, StartDecision(c, p, decision)
        PROVE  RejectedInv(c)'
    <3>1. /\ plans' = plans /\ rejected' = rejected /\ req'[c].plan = p /\ req'[c].op = decision
          /\ Approvable(plans[p], decision)
      BY <1>0, <2>1, StartDecisionDoes
    <3>2. decision = "reject" \/ p \notin rejected
      BY <1>1, <3>1 DEF Approvable
    <3> QED  BY <1>1, <3>1, <3>2 DEF RejectedInv
  <2>2. CASE StartEdit(c, p)
    <3>1. p \notin rejected /\ plans' = plans /\ rejected' = rejected /\ req'[c].plan = p
      BY <1>0, <1>1, <2>2, StartEditDoes
    <3> QED  BY <1>0, <3>1, KeepsRejected
  <2>3. CASE StartExecute(c, p)
    <3>1. p \notin rejected /\ plans' = plans /\ rejected' = rejected /\ req'[c].plan = p
      BY <1>0, <1>1, <2>3, StartExecuteDoes DEF Executable
    <3> QED  BY <1>0, <3>1, KeepsRejected
  <2>4. CASE Undo(c, p)
    BY <1>1, <2>4 DEF Undo, history, RejectedInv
  <2> QED  BY <1>7, <2>1, <2>2, <2>3, <2>4
<1>8. CASE StartTurn(c)
  BY <1>0, <1>2, <1>8, StartTurnDoes, KeepsRejected
<1>9. CASE Raises(c)
  <2>1. plans' = plans \/ \E row : plans' = [plans EXCEPT ![me.plan] = row]
    BY <1>9 DEF Raises
  <2> QED  BY <1>0, <1>1, <1>2, <1>9, <2>1, RaisesDoes, KeepsRejected DEF RunPcs
<1>10. CASE Crash
  BY <1>0, <1>1, <1>2, <1>10 DEF Crash, history, RejectedInv
<1>11. CASE UNCHANGED vars
  BY <1>1, <1>11 DEF vars, RejectedInv
<1> QED  BY <1>4, <1>5, <1>6, <1>7, <1>8, <1>9, <1>10, <1>11 DEF Next

\* With one client at a time, nothing of a plan whose rejection was saved is
\* sent to the host (service.ensure_plan_executable, ensure_plan_approvable).
THEOREM RejectedNeverRunsHolds ==
  ASSUME NEW c, Clients = {c}
  PROVE  Spec => []RejectedNeverRuns
<1>1. Init => RejectedInv(c)
  BY DEF Init, RejectedInv, Idle, Named
<1>2. IndInv /\ RejectedInv(c) /\ [Next]_vars => RejectedInv(c)'
  BY RejectedStep
<1>3. IndInv /\ RejectedInv(c) => RejectedNeverRuns
  <2> SUFFICES ASSUME IndInv, RejectedInv(c), Running(c) PROVE req[c].plan \notin rejected
    BY DEF RejectedNeverRuns
  <2>1. req[c].pc = "run" /\ Fits(req[c].pc, req[c].op)
    BY Held DEF Running, At, Sound
  <2> QED  BY <2>1 DEF RejectedInv, Fits, RunPcs, Named, Pcs
<1> QED  BY <1>1, <1>2, <1>3, Invariance, PTL DEF Spec
-----------------------------------------------------------------------------
(***************************************************************************)
(* The executing stage                                                     *)
(***************************************************************************)
\* Only the start of a run leads to executing, and the outcome of one leaves it.
LEMMA AfterStages ==
  ASSUME NEW stage, NEW event, Legal(stage, event)
  PROVE  /\ event # "execution_started" => After(stage, event) # "executing"
<1> DEFINE t == CHOOSE u \in Transitions : u[1] = stage /\ u[2] = event
<1>1. t \in Transitions /\ t[2] = event
  BY DEF Legal
<1>2. \A u \in Transitions : u[3] = "executing" => u[2] = "execution_started"
  BY DEF Transitions
<1> HIDE DEF t
<1>3. t[3] = "executing" => event = "execution_started"
  BY <1>1, <1>2
<1> QED  BY <1>3 DEF After, t

\* What keeps the invariant: the new stage of the chat, and of the copy, is not
\* executing, or both are those of a run.
LEMMA KeepsExecuting ==
  ASSUME IndInv, NEW c \in Clients, ExecutingInv(c), left' = left,
         chat'.stage # "executing" \/ chat' = req'[c].chat \/ (chat' = chat /\ req'[c].chat = req[c].chat),
         \/ req'[c].chat.stage # "executing"
         \/ req'[c].op = "execute" /\ req'[c].pc \in RunPcs
  PROVE  ExecutingInv(c)'
BY DEF ExecutingInv

LEMMA ExecutingStep ==
  ASSUME NEW c, Clients = {c}, MaxCrashes = 0, MaxRaises = 0,
         IndInv, ExecutingInv(c), [Next]_vars
  PROVE  ExecutingInv(c)'
<1> DEFINE me == req[c]
<1>0. /\ c \in Clients /\ me \in Requests /\ Sound(plans, approvals, me) /\ me.chat \in Chats
  BY Held DEF Requests
<1>1. /\ left.crashes = 0 /\ left.raises = 0
      /\ left \in [{"requests", "crashes", "raises"} -> Int]
      /\ chat.stage = "executing" => me.chat.stage = "executing"
      /\ me.chat.stage = "executing" => me.op = "execute" /\ me.pc \in RunPcs
  BY DEF ExecutingInv
<1>2. Idle.chat.stage = "discovery"
  BY DEF Idle
<1>3. me.chat.stage = "executing" =>
        me.pc \in {"run", "persist", "judge", "revert", "capture", "outcome"} /\ me.op # "turn"
  BY <1>1 DEF RunPcs
<1>4. ASSUME TurnStep(c) PROVE ExecutingInv(c)'
  <2>0. me.pc \in {"opened", "timeline", "link", "ask", "auto", "card", "title", "turn"}
    BY <1>4 DEF TurnStep, OpenTurn, Clarify, ProposePrimary, LinkPlan, ReadTimeline, ProposeEdit,
                AskEdit, AutoApprove, SaveCard, SaveTitle, At
  <2>1. me.chat.stage # "executing" /\ chat.stage # "executing"
    BY <1>1, <1>3, <2>0
  <2>2. CASE ProposePrimary(c) \/ ProposeEdit(c)
    BY <1>0, <2>1, <2>2, ProposeDoes, KeepsExecuting
  <2>3. CASE OpenTurn(c)
    BY <1>0, <2>1, <2>3, OpenTurnDoes, KeepsExecuting
  <2>4. CASE Clarify(c)
    BY <1>0, <1>2, <2>4, ClarifyDoes, KeepsExecuting
  <2>5. CASE LinkPlan(c)
    BY <1>0, <1>2, <2>1, <2>5, LinkPlanDoes, KeepsExecuting
  <2>6. CASE ReadTimeline(c)
    BY <1>0, <2>1, <2>6, ReadTimelineDoes, KeepsExecuting
  <2>7. CASE AskEdit(c)
    <3>1. HasModel(me.chat.stage)
      BY <1>0, <2>7, AskEditDoes DEF Sound
    <3>2. Legal(me.chat.stage, "edit_high_risk_requested")
      BY <3>1, EditIsLegal
    <3>3. After(me.chat.stage, "edit_high_risk_requested") # "executing"
      BY <3>2, AfterStages
    <3> QED  BY <1>0, <2>1, <2>7, <3>3, AskEditDoes, KeepsExecuting
  <2>8. CASE AutoApprove(c)
    BY <1>0, <2>1, <2>8, AutoApproveDoes, KeepsExecuting
  <2>9. CASE SaveCard(c)
    BY <1>0, <2>1, <2>9, SaveCardDoes, KeepsExecuting
  <2>10. CASE SaveTitle(c)
    BY <1>0, <1>2, <2>1, <2>10, SaveTitleDoes, KeepsExecuting
  <2> QED  BY <1>4, <2>2, <2>3, <2>4, <2>5, <2>6, <2>7, <2>8, <2>9, <2>10 DEF TurnStep
<1>5. ASSUME CardStep(c) PROVE ExecutingInv(c)'
  <2>0. me.pc \in {"reload", "decide", "advance", "edit", "load", "start"}
    BY <1>5 DEF CardStep, Reload, SaveDecision, Advance, SaveEdit, LoadExecute, StartRun, At
  <2>1. me.chat.stage # "executing" /\ chat.stage # "executing"
    BY <1>1, <1>3, <2>0
  <2>2. CASE Reload(c)
    BY <1>0, <2>1, <2>2, ReloadDoes, KeepsExecuting
  <2>3. CASE SaveDecision(c)
    BY <1>0, <2>1, <2>3, SaveDecisionDoes, KeepsExecuting
  <2>4. CASE Advance(c)
    <3>1. chat'.stage # "executing"
      BY <1>0, <2>1, <2>4, AdvanceMoves, AfterStages
    <3> QED  BY <1>0, <1>2, <2>4, <3>1, AdvanceDoes, KeepsExecuting
  <2>5. CASE SaveEdit(c)
    BY <1>0, <1>2, <2>1, <2>5, SaveEditDoes, KeepsExecuting
  <2>6. CASE LoadExecute(c)
    BY <1>0, <1>2, <2>1, <2>6, LoadExecuteDoes, KeepsExecuting
  <2>7. CASE StartRun(c)
    <3>1. me.op = "execute"
      BY <1>0, <2>7, StartRunDoes DEF Sound, Fits
    <3> QED  BY <1>0, <2>1, <2>7, <3>1, StartRunDoes, KeepsExecuting DEF RunPcs
  <2> QED  BY <1>5, <2>2, <2>3, <2>4, <2>5, <2>6, <2>7 DEF CardStep
<1>6. ASSUME RunStep(c) PROVE ExecutingInv(c)'
  <2>1. CASE Dispatch(c)
    BY <1>0, <1>1, <2>1, DispatchDoes, KeepsExecuting DEF RunPcs
  <2>2. CASE Persist(c)
    BY <1>0, <1>1, <2>2, PersistDoes, KeepsExecuting DEF RunPcs
  <2>3. CASE Correct(c)
    BY <1>0, <1>1, <2>3, CorrectDoes, KeepsExecuting DEF RunPcs
  <2>4. CASE Exhaust(c)
    BY <1>0, <1>1, <2>4, ExhaustDoes, KeepsExecuting DEF RunPcs
  <2>5. CASE Revert(c)
    BY <1>0, <1>1, <2>5, RevertDoes, KeepsExecuting DEF RunPcs
  <2>6. CASE Finalize(c)
    BY <1>0, <1>1, <2>6, FinalizeDoes, KeepsExecuting DEF RunPcs
  <2>7. CASE Capture(c)
    BY <1>0, <1>1, <2>7, CaptureDoes, KeepsExecuting DEF RunPcs
  <2>8. CASE Outcome(c)
    <3> DEFINE event == IF Me(c).status = "failed" THEN "execution_failed" ELSE "execution_completed"
               stage == IF me.chat.stage = "executing" THEN After(me.chat.stage, event)
                        ELSE me.chat.stage
               plan == IF me.snap.kind = "primary" THEN me.plan ELSE me.chat.plan
    <3>1. stage # "executing"
      <4>1. CASE me.chat.stage = "executing"
        <5>1. Legal(me.chat.stage, event) /\ event # "execution_started"
          BY <4>1, EditIsLegal
        <5> QED  BY <4>1, <5>1, AfterStages
      <4>2. CASE me.chat.stage # "executing"
        BY <4>2
      <4> QED  BY <4>1, <4>2
    <3>2. LET landed == [stage |-> stage, plan |-> plan] IN
          chat' = IF landed = me.chat THEN chat ELSE landed
      BY <2>8 DEF Outcome
    <3> HIDE DEF stage, plan
    <3>3. chat'.stage # "executing"
      <4>1. CASE me.chat = [stage |-> stage, plan |-> plan]
        BY <1>1, <3>1, <3>2, <4>1
      <4>2. CASE me.chat # [stage |-> stage, plan |-> plan]
        BY <3>1, <3>2, <4>2
      <4> QED  BY <4>1, <4>2
    <3> QED  BY <1>0, <1>2, <2>8, <3>3, OutcomeDoes, KeepsExecuting
  <2>9. CASE EditOutcome(c)
    <3>1. me.chat.stage # "executing" /\ chat.stage # "executing" /\ HasModel(me.chat.stage)
      BY <1>0, <1>1, <1>3, <2>9, EditOutcomeDoes DEF Sound, RunPcs
    <3>2. After(me.chat.stage, "edit_auto_executed") # "executing"
      BY <3>1, EditIsLegal, AfterStages
    <3> QED  BY <1>0, <2>9, <3>1, <3>2, EditOutcomeDoes, KeepsExecuting
  <2> QED  BY <1>6, <2>1, <2>2, <2>3, <2>4, <2>5, <2>6, <2>7, <2>8, <2>9 DEF RunStep
<1>7. ASSUME NEW p \in PlanIds,
             \/ \E decision \in {"approve", "reject"} : StartDecision(c, p, decision)
             \/ StartEdit(c, p) \/ StartExecute(c, p)
      PROVE  ExecutingInv(c)'
  <2>1. me.pc = "idle" /\ left' = [left EXCEPT !["requests"] = @ - 1]
        /\ chat' = chat /\ (req'[c].chat = chat \/ req'[c].chat.stage = "discovery")
    BY <1>0, <1>7, StartDecisionDoes, StartEditDoes, StartExecuteDoes
  <2>2. chat.stage # "executing"
    BY <1>1, <1>3, <2>1
  <2> QED  BY <1>1, <2>1, <2>2 DEF ExecutingInv
<1>8. ASSUME NEW p \in PlanIds, Undo(c, p) PROVE ExecutingInv(c)'
  <2>1. chat' = chat /\ req' = req /\ left' = [left EXCEPT !["requests"] = @ - 1]
    BY <1>8 DEF Undo, Arrives, Spends
  <2> QED  BY <1>1, <2>1 DEF ExecutingInv
<1>9. ~Raises(c) /\ ~Crash
  BY <1>1 DEF Raises, Crash, Spends
<1>10. CASE UNCHANGED vars
  BY <1>1, <1>10 DEF vars, ExecutingInv
<1>11. StartTurn(c) => ExecutingInv(c)'
  <2> SUFFICES ASSUME StartTurn(c) PROVE ExecutingInv(c)'
    OBVIOUS
  <2>1. me.pc = "idle" /\ left' = [left EXCEPT !["requests"] = @ - 1]
        /\ chat' = chat /\ req'[c].chat = chat
    BY <1>0, StartTurnDoes
  <2>2. chat.stage # "executing"
    BY <1>1, <1>3, <2>1
  <2> QED  BY <1>1, <2>1, <2>2 DEF ExecutingInv
<1> QED  BY <1>4, <1>5, <1>6, <1>7, <1>8, <1>9, <1>10, <1>11 DEF Next

\* Without failures, and with one client at a time, no run that ended leaves
\* the chat executing, however it ended (execute_plan's last write).
THEOREM NeverLeftExecutingHolds ==
  ASSUME NEW c, Clients = {c}, MaxCrashes = 0, MaxRaises = 0
  PROVE  Spec => []NeverLeftExecuting
<1>1. Init => ExecutingInv(c)
  <2> SUFFICES ASSUME Init PROVE ExecutingInv(c)
    OBVIOUS
  <2>1. left = [requests |-> MaxRequests, crashes |-> 0, raises |-> 0] /\ MaxRequests \in Int
    BY ConstantsAssumption DEF Init
  <2>2. chat.stage = "discovery" /\ req[c].chat.stage = "discovery"
    BY DEF Init, Idle
  <2> QED  BY <2>1, <2>2 DEF ExecutingInv
<1>2. IndInv /\ ExecutingInv(c) /\ [Next]_vars => ExecutingInv(c)'
  BY ExecutingStep
<1>3. ExecutingInv(c) => NeverLeftExecuting
  BY DEF NeverLeftExecuting, Quiet, ExecutingInv, Idle
<1> QED  BY <1>1, <1>2, <1>3, Invariance, PTL DEF Spec
-----------------------------------------------------------------------------
(***************************************************************************)
(* What is built                                                           *)
(***************************************************************************)
\* What is recorded as done stays so, in the row or in the copy of the run.
Kept(c) ==
  \A p \in PlanIds, s \in StepIds :
    Done(plans, req[c], p)[s] = "completed" => Done(plans', req'[c], p)[s] = "completed"

\* A step that adds nothing to the document.
LEMMA KeepsBuilt ==
  ASSUME IndInv, NEW c \in Clients, BuiltInv(c), Counted', Kept(c),
         DOMAIN doc'.made \subseteq DOMAIN doc.made,
         \A i \in DOMAIN doc'.made : doc'.made[i] = doc.made[i],
         Untouched', Copies(c)', Ahead(c)'
  PROVE  BuiltInv(c)'
<1>1. \A i \in DOMAIN doc.made : doc.made[i][1] \in PlanIds /\ doc.made[i][2] \in StepIds
  BY Held, ElementOfSeq, LenProperties DEF Docs
<1>2. Distinct(doc'.made)
  BY DEF BuiltInv, Distinct
<1>3. Recorded(doc'.made, plans', req'[c])
  BY <1>1 DEF BuiltInv, Recorded, Kept
<1> QED  BY <1>2, <1>3 DEF BuiltInv

LEMMA KeptQuiet ==
  ASSUME IndInv, NEW c \in Clients, req[c].pc \notin Live, req'[c].pc \notin Live,
         \/ plans' = plans
         \/ \E p \in PlanIds, row \in Plan :
              /\ plans' = [plans EXCEPT ![p] = row]
              /\ \A s \in StepIds : plans[p].steps[s] = "completed" => row.steps[s] = "completed"
  PROVE  Kept(c)
<1>1. plans \in Rows
  BY Held
<1> QED  BY <1>1 DEF Kept, Done, Rows

\* A run begins with the row as its copy, and without what is done already.
Begins(c) ==
  /\ req'[c].pc = "run" /\ req'[c].snap = plans'[req'[c].plan]
  /\ req'[c].todo = Runnable(req'[c].snap)
\* A step outside of a run, or the first of one.
Holds(c) ==
  /\ Kept(c) /\ Untouched' /\ Copies(c)' /\ doc' = doc
  /\ req'[c].pc \in Live => Begins(c)

LEMMA HoldsBuilt ==
  ASSUME IndInv, NEW c \in Clients, BuiltInv(c), Counted', Holds(c)
  PROVE  BuiltInv(c)'
<1>1. Ahead(c)'
  BY DEF Holds, Begins, Ahead, Live, Runnable
<1> QED  BY <1>1, KeepsBuilt DEF Holds

\* A step of a request that is in no run and writes no row.
LEMMA QuietHolds ==
  ASSUME IndInv, NEW c \in Clients, Untouched, UNCHANGED <<plans, doc>>,
         req[c].pc \notin Live, req'[c].pc \notin Live, Copies(c)'
  PROVE  Holds(c)
<1>1. Kept(c)
  BY KeptQuiet
<1>2. Untouched'
  BY DEF Untouched
<1> QED  BY <1>1, <1>2 DEF Holds

\* The end of a request, or its first steps: there is no copy to speak of.
LEMMA BareHolds ==
  ASSUME IndInv, NEW c \in Clients, Untouched, UNCHANGED <<plans, doc>>,
         req[c].pc \notin Live,
         req'[c].pc \in {"idle", "turn", "opened", "timeline", "reload", "load", "title", "advance"}
  PROVE  Holds(c)
<1>1. Copies(c)' /\ req'[c].pc \notin Live
  BY DEF Copies, Loaded, Named, Pcs, Live, RunPcs
<1> QED  BY <1>1, QuietHolds

\* A row written by a request that is in no run.
LEMMA RowHolds ==
  ASSUME IndInv, NEW c \in Clients, Untouched, doc' = doc,
         req[c].pc \notin Live, req'[c].pc \notin Live, Copies(c)',
         NEW p \in PlanIds, NEW row \in Plan, plans' = [plans EXCEPT ![p] = row],
         \A s \in StepIds : plans[p].steps[s] = "completed" => row.steps[s] = "completed",
         row.status \in {"none", "draft", "waiting_approval"} => Undone(row)
  PROVE  Holds(c)
<1>1. Kept(c)
  BY KeptQuiet
<1>2. Untouched'
  BY Held DEF Untouched, Rows
<1> QED  BY <1>1, <1>2 DEF Holds

LEMMA CountedKeeps ==
  ASSUME Counted, left' = left \/ left' = [left EXCEPT !["requests"] = @ - 1]
  PROVE  Counted'
BY DEF Counted

LEMMA TurnHolds ==
  ASSUME IndInv, NEW c \in Clients, Untouched, Copies(c), TurnStep(c)
  PROVE  Holds(c) /\ left' = left
<1> DEFINE me == req[c]
<1>0. /\ me \in Requests /\ Sound(plans, approvals, me) /\ plans \in Rows /\ me.snap \in Plan
      /\ Untouched /\ Copies(c)
  BY Held DEF Requests
<1>1. Idle.pc = "idle"
  BY DEF Idle
<1>2. CASE ProposePrimary(c) \/ ProposeEdit(c)
  <2>1. PICK p \in PlanIds, plan \in Plan :
          /\ plans[p].status = "none" /\ plans' = [plans EXCEPT ![p] = plan]
          /\ Undone(plan) /\ req'[c].plan = p /\ req'[c].snap = plan
          /\ \/ req'[c].pc = "link"
             \/ req'[c].pc \in {"ask", "auto"} /\ plan.kind = "edit"
    BY <1>2, ProposeDoes
  <2>2. me.pc \in {"opened", "timeline"} /\ UNCHANGED <<chat, doc, rejected, left>>
    BY <1>2, ProposeDoes
  <2>3. \A s \in StepIds : plans[p].steps[s] # "completed"
    BY <1>0, <2>1 DEF Untouched, Undone
  <2>4. Copies(c)'
    BY <1>0, <2>1 DEF Copies, RunPcs, Rows
  <2>5. req'[c].pc \notin Live /\ me.pc \notin Live
    BY <2>1, <2>2 DEF Live
  <2> QED  BY <1>1, <2>1, <2>2, <2>3, <2>4, <2>5, RowHolds
<1>3. CASE OpenTurn(c)
  BY <1>1, <1>3, OpenTurnDoes, BareHolds DEF Live
<1>4. CASE Clarify(c)
  BY <1>1, <1>4, ClarifyDoes, BareHolds DEF Live
<1>5. CASE LinkPlan(c)
  <2>1. CASE req'[c] = Idle
    BY <1>1, <1>5, <2>1, LinkPlanDoes, BareHolds DEF Live
  <2>2. CASE req'[c].pc = "card" /\ req'[c].plan = me.plan /\ req'[c].snap = me.snap
    <3>1. me.pc = "link" /\ plans' = plans /\ left' = left /\ doc' = doc
      BY <1>5, LinkPlanDoes
    <3>2. Copies(c)'
      BY <1>0, <2>2, <3>1 DEF Copies, RunPcs, Loaded, Named, Pcs, Live
    <3> QED  BY <1>1, <2>2, <3>1, <3>2, QuietHolds DEF Live
  <2> QED  BY <1>5, <2>1, <2>2, LinkPlanDoes
<1>6. CASE ReadTimeline(c)
  BY <1>1, <1>6, ReadTimelineDoes, BareHolds DEF Live
<1>7. CASE AskEdit(c)
  <2>1. /\ me.pc = "ask" /\ UNCHANGED <<plans, doc, left>>
        /\ req'[c].pc = "card" /\ req'[c].plan = me.plan /\ req'[c].snap = me.snap
    BY <1>7, AskEditDoes
  <2>2. Copies(c)'
    BY <1>0, <2>1 DEF Copies, RunPcs, Loaded, Named, Pcs, Live
  <2> QED  BY <1>1, <2>1, <2>2, QuietHolds DEF Live
<1>8. CASE SaveCard(c)
  <2> DEFINE plan == IF me.snap.kind = "primary"
                     THEN [me.snap EXCEPT !.status = "waiting_approval"] ELSE me.snap
  <2>1. /\ me.pc = "card" /\ UNCHANGED <<doc, left>> /\ req'[c].pc = "title"
        /\ plans' = [plans EXCEPT ![me.plan] = plan]
    BY <1>8, SaveCardDoes DEF SaveCard
  <2>2. me.snap = plans[me.plan] /\ me.plan \in PlanIds
        /\ (me.snap.kind = "primary" => Undone(me.snap))
    BY <1>0, <2>1 DEF Copies, Loaded, Named, Pcs, Live, Sound, Known
  <2>3. plan \in Plan /\ plan.steps = me.snap.steps
        /\ (me.snap.kind # "primary" => plan = plans[me.plan])
    BY <1>0, <2>2 DEF Plan, Statuses
  <2>4. plan.status \in {"none", "draft", "waiting_approval"} => Undone(plan)
    <3>1. CASE me.snap.kind = "primary"
      BY <2>2, <2>3, <3>1 DEF Undone
    <3>2. CASE me.snap.kind # "primary"
      BY <1>0, <2>2, <2>3, <3>2 DEF Untouched
    <3> QED  BY <3>1, <3>2
  <2>5. Copies(c)' /\ req'[c].pc \notin Live /\ me.pc \notin Live
    BY <2>1 DEF Copies, RunPcs, Loaded, Named, Pcs, Live
  <2> HIDE DEF plan
  <2> QED  BY <1>1, <2>1, <2>2, <2>3, <2>4, <2>5, RowHolds
<1>9. CASE SaveTitle(c)
  BY <1>1, <1>9, SaveTitleDoes, BareHolds DEF Live
<1>10. CASE AutoApprove(c)
  <2> DEFINE plan == Decided(me.snap, "approve")
  <2>1. /\ me.pc = "auto" /\ req'[c].pc = "run" /\ req'[c].op = me.op
        /\ req'[c].plan = me.plan /\ req'[c].snap = plan /\ req'[c].todo = Runnable(plan)
        /\ plans' = [plans EXCEPT ![me.plan] = plan] /\ UNCHANGED <<doc, left>>
    BY <1>10, AutoApproveDoes
  <2>2. me.snap = plans[me.plan] /\ me.plan \in PlanIds /\ me.snap.kind = "edit"
    BY <1>0, <2>1 DEF Copies, Loaded, Named, Pcs, Live, Sound, Known
  <2>3. /\ plan \in Plan /\ plan.kind = "edit" /\ plan.status = "approved"
        /\ \A s \in StepIds : me.snap.steps[s] = "completed" => plan.steps[s] = "completed"
    BY <1>0, <2>2, DecidedType DEF Decided, Plan
  <2> HIDE DEF plan
  <2>4. Kept(c)
    BY <1>0, <2>1, <2>2, <2>3 DEF Kept, Done, Live, Rows
  <2>5. Untouched'
    BY <1>0, <2>1, <2>2, <2>3 DEF Untouched, Rows
  <2>6. Copies(c)' /\ Begins(c)
    BY <1>0, <2>1, <2>2, <2>3 DEF Copies, Begins, RunPcs, Loaded, Named, Pcs, Live, Rows
  <2> QED  BY <2>1, <2>4, <2>5, <2>6 DEF Holds
<1> QED
  BY <1>2, <1>3, <1>4, <1>5, <1>6, <1>7, <1>8, <1>9, <1>10 DEF TurnStep

LEMMA CardHolds ==
  ASSUME IndInv, NEW c \in Clients, Untouched, Copies(c), CardStep(c)
  PROVE  Holds(c) /\ left' = left
<1> DEFINE me == req[c]
<1>0. /\ me \in Requests /\ Sound(plans, approvals, me) /\ plans \in Rows /\ me.snap \in Plan
      /\ Untouched /\ Copies(c)
  BY Held DEF Requests
<1>1. Idle.pc = "idle"
  BY DEF Idle
<1>2. CASE Reload(c)
  <2>1. /\ me.pc = "reload" /\ UNCHANGED <<plans, doc, left>> /\ req'[c].pc = "decide"
        /\ req'[c].plan = me.plan /\ req'[c].snap = plans[me.plan]
    BY <1>2, ReloadDoes
  <2>2. Copies(c)'
    BY <2>1 DEF Copies, RunPcs, Loaded, Named, Pcs, Live
  <2> QED  BY <1>1, <2>1, <2>2, QuietHolds DEF Live
<1>3. CASE SaveDecision(c)
  <2> DEFINE plan == Decided(me.snap, me.op)
  <2>1. /\ me.pc = "decide" /\ req'[c].pc = "advance" /\ UNCHANGED <<doc, left>>
        /\ plans' = [plans EXCEPT ![me.plan] = plan]
    BY <1>3, SaveDecisionDoes, SaveDecisionWrites
  <2>2. me.snap = plans[me.plan] /\ me.plan \in PlanIds
    BY <1>0, <2>1 DEF Copies, Loaded, Named, Pcs, Live, Sound, Known
  <2>3. /\ plan \in Plan /\ plan.status \in {"approved", "rejected"}
        /\ \A s \in StepIds : me.snap.steps[s] = "completed" => plan.steps[s] = "completed"
    <3>1. plan \in Plan
      BY <1>0, DecidedType
    <3>2. plan.status \in {"approved", "rejected"}
      BY <1>0 DEF Decided, Plan
    <3>3. \A s \in StepIds : me.snap.steps[s] = "completed" => plan.steps[s] = "completed"
      BY <1>0 DEF Decided, Plan
    <3> HIDE DEF plan
    <3> QED  BY <3>1, <3>2, <3>3
  <2>4. Copies(c)' /\ req'[c].pc \notin Live /\ me.pc \notin Live
    BY <2>1 DEF Copies, RunPcs, Loaded, Named, Pcs, Live
  <2> HIDE DEF plan
  <2> QED  BY <1>1, <2>1, <2>2, <2>3, <2>4, RowHolds
<1>4. CASE Advance(c)
  BY <1>1, <1>4, AdvanceDoes, BareHolds DEF Live
<1>5. CASE SaveEdit(c)
  <2>1. /\ me.pc = "edit" /\ req'[c] = Idle /\ UNCHANGED <<doc, left>>
    BY <1>5, SaveEditDoes
  <2>2. PICK row \in Plan : Undone(row) /\ plans' = [plans EXCEPT ![me.plan] = row]
    BY <1>5, SaveEditWrites
  <2>3. /\ me.snap = plans[me.plan] /\ me.plan \in PlanIds
        /\ me.snap.status \in {"draft", "waiting_approval"}
    BY <1>0, <2>1 DEF Copies, Loaded, Named, Pcs, Live, Sound, Known
  <2>4. \A s \in StepIds : plans[me.plan].steps[s] # "completed"
    BY <1>0, <2>3 DEF Untouched, Undone
  <2>5. Copies(c)' /\ req'[c].pc \notin Live /\ me.pc \notin Live
    BY <1>1, <2>1 DEF Copies, RunPcs, Loaded, Named, Pcs, Live
  <2> QED  BY <1>1, <2>1, <2>2, <2>3, <2>4, <2>5, RowHolds
<1>6. CASE LoadExecute(c)
  <2>1. CASE req'[c] = Idle
    BY <1>1, <1>6, <2>1, LoadExecuteDoes, BareHolds DEF Live
  <2>2. CASE req'[c] # Idle
    <3>1. /\ me.pc = "load" /\ UNCHANGED <<plans, doc, left>> /\ req'[c].pc = "start"
          /\ req'[c].plan = me.plan /\ req'[c].snap = plans[me.plan]
      BY <1>6, <2>2, LoadExecuteDoes
    <3>2. Copies(c)'
      BY <3>1 DEF Copies, RunPcs, Loaded, Named, Pcs, Live
    <3> QED  BY <1>1, <3>1, <3>2, QuietHolds DEF Live
  <2> QED  BY <2>1, <2>2
<1>7. CASE StartRun(c)
  <2>1. /\ me.pc = "start" /\ UNCHANGED <<plans, doc, left>>
        /\ req'[c].pc \in {"capture", "run"} /\ req'[c].op = me.op
        /\ req'[c].plan = me.plan /\ req'[c].snap = me.snap
        /\ req'[c].todo = Runnable(me.snap)
    BY <1>7, StartRunDoes
  <2>2. me.snap = plans[me.plan] /\ me.plan \in PlanIds /\ me.op = "execute"
    BY <1>0, <2>1 DEF Copies, Loaded, Named, Pcs, Live, Sound, Known, Fits
  <2>3. Kept(c)
    BY <2>1, <2>2 DEF Kept, Done, Live
  <2>4. Copies(c)' /\ (req'[c].pc \in Live => Begins(c))
    BY <2>1, <2>2 DEF Copies, Begins, RunPcs, Loaded, Named, Pcs, Live
  <2>5. Untouched'
    BY <1>0, <2>1 DEF Untouched
  <2> QED  BY <2>1, <2>3, <2>4, <2>5 DEF Holds
<1> QED  BY <1>2, <1>3, <1>4, <1>5, <1>6, <1>7 DEF CardStep

LEMMA ArriveHolds ==
  ASSUME IndInv, NEW c \in Clients, Untouched,
         \/ StartTurn(c)
         \/ \E p \in PlanIds :
              \/ \E decision \in {"approve", "reject"} : StartDecision(c, p, decision)
              \/ StartEdit(c, p) \/ StartExecute(c, p)
  PROVE  Holds(c) /\ left' = [left EXCEPT !["requests"] = @ - 1]
<1>1. CASE StartTurn(c)
  BY <1>1, StartTurnDoes, BareHolds DEF Live
<1>2. ASSUME NEW p \in PlanIds, NEW decision \in {"approve", "reject"},
             StartDecision(c, p, decision)
      PROVE  Holds(c) /\ left' = [left EXCEPT !["requests"] = @ - 1]
  BY <1>2, StartDecisionDoes, BareHolds DEF Live
<1>3. ASSUME NEW p \in PlanIds, StartEdit(c, p)
      PROVE  Holds(c) /\ left' = [left EXCEPT !["requests"] = @ - 1]
  <2>1. /\ req[c].pc = "idle" /\ UNCHANGED <<plans, doc>> /\ req'[c].pc = "edit"
        /\ req'[c].plan = p /\ req'[c].snap = plans[p]
        /\ plans[p].status \in {"draft", "waiting_approval"}
        /\ left' = [left EXCEPT !["requests"] = @ - 1]
    BY <1>3, StartEditDoes
  <2>2. Copies(c)'
    BY <2>1 DEF Copies, RunPcs, Loaded, Named, Pcs, Live
  <2> QED  BY <2>1, <2>2, QuietHolds DEF Live
<1>4. ASSUME NEW p \in PlanIds, StartExecute(c, p)
      PROVE  Holds(c) /\ left' = [left EXCEPT !["requests"] = @ - 1]
  BY <1>4, StartExecuteDoes, BareHolds DEF Live
<1> QED  BY <1>1, <1>2, <1>3, <1>4

\* The end of a run: its outcome is saved, then read again.
LEMMA EndHolds ==
  ASSUME IndInv, NEW c \in Clients, Untouched, Copies(c),
         Finalize(c) \/ Capture(c) \/ Outcome(c) \/ EditOutcome(c)
  PROVE  Holds(c) /\ left' = left /\ req'[c].pc \notin Live
<1> DEFINE me == req[c]
<1>0. /\ me \in Requests /\ Sound(plans, approvals, me) /\ plans \in Rows /\ me.snap \in Plan
  BY Held DEF Requests
<1>1. Idle.pc = "idle"
  BY DEF Idle
<1>2. me.pc \in RunPcs => me.plan \in PlanIds
  BY <1>0 DEF Sound, RunPcs, Named, Pcs, Known
<1>3. CASE Finalize(c)
  <2>1. /\ me.pc = "run" /\ req'[c].pc = "capture" /\ req'[c].op = me.op
        /\ req'[c].plan = me.plan /\ UNCHANGED <<doc, left>>
        /\ plans' = [plans EXCEPT ![me.plan] = req'[c].snap]
    BY <1>3, FinalizeDoes
  <2>2. PICK status \in {"failed", "completed", "running"} :
          req'[c].snap = [me.snap EXCEPT !.status = status]
    BY <1>3, FinalizeDoes
  <2> DEFINE ended == req'[c].snap
  <2>3. /\ ended.status = status /\ ended.kind = me.snap.kind /\ ended.steps = me.snap.steps
        /\ me.plan \in PlanIds
    BY <1>0, <1>2, <2>1, <2>2 DEF Plan, RunPcs
  <2> HIDE DEF ended
  <2>4. Kept(c) /\ Untouched' /\ plans'[me.plan] = ended
    BY <1>0, <2>1, <2>3 DEF Kept, Done, Live, Untouched, Rows, ended
  <2>5. Copies(c)'
    BY <1>0, <2>1, <2>3, <2>4 DEF Copies, RunPcs, Loaded, Named, Pcs, Live, ended
  <2> QED  BY <2>1, <2>4, <2>5 DEF Holds, Live
<1>4. CASE Capture(c)
  <2>1. /\ me.pc = "capture" /\ req'[c].pc = "outcome" /\ req'[c].op = me.op
        /\ req'[c].plan = me.plan /\ req'[c].snap = me.snap /\ UNCHANGED <<doc, left>>
        /\ plans' \in {plans, [plans EXCEPT ![me.plan] = me.snap]}
    BY <1>4, CaptureDoes DEF Capture
  <2>2. me.snap = plans[me.plan] /\ plans' = plans
    BY <1>0, <2>1 DEF Copies, Loaded, Named, Pcs, Live, Rows
  <2>3. Copies(c)'
    BY <1>0, <2>1, <2>2 DEF Copies, RunPcs, Loaded, Named, Pcs, Live
  <2> QED  BY <2>1, <2>2, <2>3, QuietHolds DEF Live
<1>5. CASE Outcome(c)
  BY <1>1, <1>5, OutcomeDoes, BareHolds DEF Live
<1>6. CASE EditOutcome(c)
  <2>1. /\ me.pc = "outcome" /\ me.op = "turn" /\ req'[c].pc = "card" /\ req'[c].plan = me.plan
        /\ req'[c].snap = plans[me.plan] /\ UNCHANGED <<plans, doc, left>>
    BY <1>6, EditOutcomeDoes
  <2>2. plans[me.plan].kind = "edit"
    BY <1>0, <2>1 DEF Copies, Sound, RunPcs, Loaded, Named, Pcs
  <2>3. Copies(c)'
    BY <2>1, <2>2 DEF Copies, RunPcs, Loaded, Named, Pcs, Live
  <2> QED  BY <2>1, <2>3, QuietHolds DEF Live
<1> QED  BY <1>3, <1>4, <1>5, <1>6

\* A step within a run writes nothing but the row of the run, as running.
LEMMA WithinRun ==
  ASSUME IndInv, NEW c \in Clients, Untouched, Copies(c),
         req[c].pc \in Live, req'[c].pc \in Live, req'[c].op = req[c].op,
         req'[c].plan = req[c].plan, req'[c].snap.kind = req[c].snap.kind,
         \/ plans' = plans
         \/ \E row : plans' = [plans EXCEPT ![req[c].plan] = row] /\ row.status = "running"
  PROVE  Untouched' /\ Copies(c)'
<1>1. plans \in Rows
  BY Held
<1>2. Untouched'
  BY <1>1 DEF Untouched, Rows
<1>3. Copies(c)'
  BY DEF Copies, RunPcs, Loaded, Named, Pcs, Live
<1> QED  BY <1>2, <1>3

\* A call puts its step into the document, where it was not.
LEMMA DispatchBuilt ==
  ASSUME IndInv, NEW c \in Clients, BuiltInv(c), Outcomes \subseteq {"ok", "error"}, Dispatch(c)
  PROVE  BuiltInv(c)'
<1> DEFINE me == req[c]
           s == Step(c)
           p == me.plan
<1>0. /\ me \in Requests /\ Sound(plans, approvals, me) /\ plans \in Rows /\ me.snap \in Plan
      /\ doc \in Docs /\ doc.made \in Seq(PlanIds \X StepIds)
      /\ Counted /\ Untouched /\ Copies(c) /\ Ahead(c)
      /\ Distinct(doc.made) /\ Recorded(doc.made, plans, req[c])
  BY Held DEF Requests, BuiltInv, Docs
<1>1. /\ me.pc = "run" /\ me.todo # {} /\ UNCHANGED <<chat, plans, rejected, left>>
      /\ req'[c].op = me.op /\ req'[c].plan = p
  BY DispatchDoes
<1>2. PICK o \in Outcomes, result \in {"completed", "failed"} :
        /\ result = IF o \in {"ok", "diverged"} THEN "completed" ELSE "failed"
        /\ req'[c].snap = [me.snap EXCEPT !.steps[s] = result]
        /\ doc' = IF o = "error" THEN doc ELSE Build(me.snap.kind, p, s)
        /\ \/ /\ req'[c].pc = "persist" /\ req'[c].bad = (o # "ok")
              /\ req'[c].todo = me.todo
           \/ req'[c].pc = "run" /\ req'[c].todo = me.todo \ {s}
  BY DispatchDoes
<1>3. s \in me.todo /\ s \in StepIds /\ p \in PlanIds /\ me.todo \in SUBSET StepIds
  BY <1>0, <1>1, StepIn DEF Sound, Named, Pcs, Known, Requests
<1>4. (o = "ok" /\ result = "completed") \/ (o = "error" /\ result = "failed")
  <2>1. o = "ok" \/ o = "error"
    OBVIOUS
  <2>2. result = IF o \in {"ok", "diverged"} THEN "completed" ELSE "failed"
    BY <1>2
  <2>3. CASE o = "ok"
    BY <2>2, <2>3
  <2>4. CASE o = "error"
    BY <2>2, <2>4
  <2> QED  BY <2>1, <2>3, <2>4
<1>5. \A t \in me.todo : me.snap.steps[t] # "completed"
  BY <1>0, <1>1 DEF Ahead
<1>6. req'[c].todo = me.todo => Step(c)' = s
  BY DEF Step
<1> DEFINE snap == req'[c].snap
<1> HIDE DEF s
<1>7. /\ snap \in Plan /\ snap.kind = me.snap.kind /\ snap.steps[s] = result
      /\ \A t \in StepIds \ {s} : snap.steps[t] = me.snap.steps[t]
  BY <1>0, <1>2, <1>3, WithResult
<1>8. Kept(c)
  BY <1>1, <1>2, <1>3, <1>5, <1>7 DEF Kept, Done, Live
<1>9. Counted'
  BY <1>0, <1>1, CountedKeeps
<1>10. Untouched' /\ Copies(c)'
  BY <1>0, <1>1, <1>2, <1>7, WithinRun DEF Live
<1>11. Ahead(c)'
  <2>1. CASE req'[c].pc = "persist" /\ req'[c].bad = (o # "ok") /\ req'[c].todo = me.todo
    BY <1>3, <1>4, <1>5, <1>6, <1>7, <2>1 DEF Ahead
  <2>2. CASE req'[c].pc = "run" /\ req'[c].todo = me.todo \ {s}
    BY <1>3, <1>5, <1>7, <2>2 DEF Ahead
  <2> QED  BY <1>2, <2>1, <2>2
<1>12. CASE o = "error"
  <2>1. doc' = doc
    BY <1>2, <1>12
  <2> QED  BY <1>8, <1>9, <1>10, <1>11, <2>1, KeepsBuilt
<1>13. CASE o = "ok" /\ me.snap.kind = "primary" /\ s = 1
  <2>1. doc'.made = <<>>
    BY <1>2, <1>13 DEF Build
  <2>2. Distinct(doc'.made) /\ Recorded(doc'.made, plans', req'[c])
    BY <2>1 DEF Distinct, Recorded
  <2> QED  BY <1>9, <1>10, <1>11, <2>2 DEF BuiltInv
<1>14. CASE o = "ok" /\ ~(me.snap.kind = "primary" /\ s = 1)
  <2> DEFINE n == Len(doc.made)
             made == Append(doc.made, <<p, s>>)
  <2>1. doc'.made = made
    BY <1>0, <1>2, <1>14 DEF Build, Docs
  <2>2. n \in Nat /\ DOMAIN doc.made = 1 .. n
        /\ \A i \in 1 .. n : doc.made[i][1] \in PlanIds /\ doc.made[i][2] \in StepIds
    BY <1>0, ElementOfSeq, LenProperties
  <2>3. /\ DOMAIN made = 1 .. (n + 1) /\ made[n + 1] = <<p, s>>
        /\ \A i \in 1 .. n : made[i] = doc.made[i]
    BY <1>0, <1>3, <2>2, AppendProperties
  <2>4. \A i \in 1 .. n : doc.made[i] # <<p, s>>
    <3> SUFFICES ASSUME NEW i \in 1 .. n, doc.made[i] = <<p, s>> PROVE FALSE
      OBVIOUS
    <3>1. Done(plans, me, p)[s] = "completed"
      BY <1>0, <2>2 DEF Recorded
    <3> QED  BY <1>1, <1>3, <1>5, <3>1 DEF Done, Live
  <2> HIDE DEF made
  <2>5. \A i \in 1 .. (n + 1) : i = n + 1 \/ i \in 1 .. n
    BY <2>2
  <2>6. Distinct(made)
    BY <1>0, <2>2, <2>3, <2>4, <2>5 DEF Distinct
  <2>7. Done(plans', req'[c], p)[s] = "completed"
    BY <1>1, <1>2, <1>4, <1>7, <1>14 DEF Done, Live
  <2>8. Recorded(made, plans', req'[c])
    <3> SUFFICES ASSUME NEW i \in 1 .. (n + 1)
                 PROVE  Done(plans', req'[c], made[i][1])[made[i][2]] = "completed"
      BY <2>3 DEF Recorded
    <3>1. CASE i = n + 1
      BY <2>3, <2>7, <3>1
    <3>2. CASE i \in 1 .. n
      BY <1>0, <1>8, <2>2, <2>3, <3>2 DEF Recorded, Kept
    <3> QED  BY <2>5, <3>1, <3>2
  <2> QED  BY <1>9, <1>10, <1>11, <2>1, <2>6, <2>8 DEF BuiltInv
<1> QED  BY <1>4, <1>12, <1>13, <1>14

LEMMA RunBuilt ==
  ASSUME IndInv, NEW c \in Clients, BuiltInv(c), Outcomes \subseteq {"ok", "error"}, RunStep(c)
  PROVE  BuiltInv(c)'
<1> DEFINE me == req[c]
<1>0. /\ me \in Requests /\ Sound(plans, approvals, me) /\ plans \in Rows /\ me.snap \in Plan
      /\ Counted /\ Untouched /\ Copies(c) /\ Ahead(c) /\ doc \in Docs
  BY Held DEF Requests, BuiltInv
<1>1. left' = left => Counted'
  BY <1>0, CountedKeeps
<1>2. me.pc \in RunPcs => me.plan \in PlanIds
  BY <1>0 DEF Sound, RunPcs, Named, Pcs, Known
<1>3. CASE Dispatch(c)
  BY <1>3, DispatchBuilt
<1>4. CASE Persist(c)
  <2>1. /\ me.pc = "persist" /\ UNCHANGED <<doc, left>>
        /\ req'[c].op = me.op /\ req'[c].plan = me.plan /\ req'[c].snap = me.snap
        /\ \/ req'[c].pc = "judge" /\ me.bad /\ req'[c].todo = me.todo
           \/ req'[c].pc = "run" /\ ~me.bad /\ req'[c].todo = me.todo \ {Step(c)}
    BY <1>4, PersistDoes
  <2> DEFINE row == [me.snap EXCEPT !.status = "running"]
  <2>2. plans' = [plans EXCEPT ![me.plan] = row] /\ row.status = "running" /\ me.plan \in PlanIds
    BY <1>0, <1>2, <1>4, <2>1 DEF Persist, Plan, RunPcs
  <2> HIDE DEF row
  <2>3. Kept(c)
    BY <1>0, <2>1, <2>2 DEF Kept, Done, Live, Rows
  <2>4. Untouched' /\ Copies(c)'
    BY <1>0, <2>1, <2>2, WithinRun DEF Live
  <2>5. Ahead(c)'
    <3>1. req'[c].todo = me.todo => Step(c)' = Step(c)
      BY DEF Step
    <3> QED  BY <1>0, <2>1, <3>1 DEF Ahead
  <2> QED  BY <1>1, <2>1, <2>3, <2>4, <2>5, KeepsBuilt
<1>5. CASE Correct(c)
  <2>1. /\ me.pc = "judge" /\ UNCHANGED <<plans, doc, left>> /\ req'[c].pc = "run"
        /\ req'[c].op = me.op /\ req'[c].plan = me.plan /\ req'[c].snap = me.snap
        /\ req'[c].todo = me.todo
    BY <1>5, CorrectDoes
  <2>2. Kept(c) /\ Ahead(c)'
    BY <1>0, <2>1 DEF Kept, Done, Live, Ahead
  <2>3. Untouched' /\ Copies(c)'
    BY <1>0, <2>1, WithinRun DEF Live
  <2> QED  BY <1>1, <2>1, <2>2, <2>3, KeepsBuilt
<1>6. CASE Exhaust(c)
  <2> DEFINE failed == [me.snap EXCEPT !.steps[Step(c)] = "failed"]
             row == [failed EXCEPT !.status = "running"]
  <2>1. /\ me.pc = "judge" /\ req'[c].pc = "revert" /\ req'[c].op = me.op
        /\ req'[c].plan = me.plan /\ req'[c].snap = failed /\ UNCHANGED <<doc, left>>
        /\ plans' = plans \/ plans' = [plans EXCEPT ![me.plan] = row]
    BY <1>6, ExhaustDoes
  <2>2. me.todo # {} /\ me.plan \in PlanIds /\ me.snap.steps[Step(c)] = "failed"
    BY <1>0, <1>2, <2>1 DEF Sound, Ahead, RunPcs
  <2>3. Step(c) \in StepIds
    BY <1>0, <2>2, StepIn
  <2>4. /\ failed \in Plan /\ failed.kind = me.snap.kind
        /\ \A t \in StepIds : failed.steps[t] = me.snap.steps[t]
    BY <1>0, <2>2, <2>3, WithResult
  <2> HIDE DEF failed
  <2>5. row.status = "running"
    BY <2>4 DEF Plan
  <2> HIDE DEF row
  <2>6. Kept(c) /\ Ahead(c)'
    BY <1>0, <2>1, <2>2, <2>4, <2>5 DEF Kept, Done, Live, Ahead, Rows
  <2>7. Untouched' /\ Copies(c)'
    BY <1>0, <2>1, <2>4, <2>5, WithinRun DEF Live
  <2> QED  BY <1>1, <2>1, <2>6, <2>7, KeepsBuilt
<1>7. CASE Revert(c)
  <2>1. /\ me.pc = "revert" /\ UNCHANGED <<plans, left>> /\ req'[c].pc = "run"
        /\ req'[c].op = me.op /\ req'[c].plan = me.plan /\ req'[c].snap = me.snap
        /\ req'[c].todo = {}
    BY <1>0, <1>7, RevertDoes DEF Sound
  <2>2. Kept(c) /\ Ahead(c)'
    BY <1>0, <2>1 DEF Kept, Done, Live, Ahead
  <2>3. Untouched' /\ Copies(c)'
    BY <1>0, <2>1, WithinRun DEF Live
  <2>4. /\ DOMAIN doc'.made \subseteq DOMAIN doc.made
        /\ \A i \in DOMAIN doc'.made : doc'.made[i] = doc.made[i]
    BY <1>0, <1>7, RevertedIs DEF Revert, Requests
  <2> QED  BY <1>1, <2>1, <2>2, <2>3, <2>4, KeepsBuilt
<1>8. CASE Finalize(c) \/ Capture(c) \/ Outcome(c) \/ EditOutcome(c)
  BY <1>0, <1>1, <1>8, EndHolds, HoldsBuilt
<1> QED  BY <1>3, <1>4, <1>5, <1>6, <1>7, <1>8 DEF RunStep

LEMMA BuiltStep ==
  ASSUME NEW c, Clients = {c}, MaxCrashes = 0, Loop \/ MaxRaises = 0,
         Outcomes \subseteq {"ok", "error"}, IndInv, BuiltInv(c), [Next]_vars
  PROVE  BuiltInv(c)'
<1> DEFINE me == req[c]
<1>0. /\ c \in Clients /\ me \in Requests /\ Sound(plans, approvals, me) /\ plans \in Rows
      /\ me.snap \in Plan /\ Counted /\ Untouched /\ Copies(c) /\ doc \in Docs
  BY Held DEF Requests, BuiltInv
<1>1. Idle.pc = "idle"
  BY DEF Idle
<1>2. ASSUME StartTurn(c)
               \/ \E p \in PlanIds :
                    \/ \E decision \in {"approve", "reject"} : StartDecision(c, p, decision)
                    \/ StartEdit(c, p) \/ StartExecute(c, p)
      PROVE  BuiltInv(c)'
  BY <1>0, <1>2, ArriveHolds, CountedKeeps, HoldsBuilt
<1>6. ASSUME NEW p \in PlanIds, Undo(c, p) PROVE BuiltInv(c)'
  <2>1. /\ plans' = plans /\ req' = req /\ left' = [left EXCEPT !["requests"] = @ - 1]
        /\ plans[p].mark \in Nat /\ doc' \in Reverted(plans[p].mark)
    BY <1>0, <1>6 DEF Undo, Arrives, Spends, history, Rows, Plan
  <2>2. /\ DOMAIN doc'.made \subseteq DOMAIN doc.made
        /\ \A i \in DOMAIN doc'.made : doc'.made[i] = doc.made[i]
    BY <1>0, <2>1, RevertedIs
  <2>3. Kept(c) /\ Untouched' /\ Copies(c)' /\ Ahead(c)'
    BY <2>1 DEF Kept, BuiltInv, Untouched, Copies, Ahead, Step
  <2> QED  BY <1>0, <2>1, <2>2, <2>3, CountedKeeps, KeepsBuilt
<1>7. CASE Raises(c)
  <2>1. /\ me.pc \in {"run", "persist", "judge", "revert"} /\ req'[c] = Idle /\ left.raises > 0
        /\ left' = [left EXCEPT !["raises"] = @ - 1] /\ doc' = doc
    BY <1>0, <1>7, RaisesDoes
  <2>2. Loop /\ Counted'
    BY <1>0, <2>1 DEF Counted
  <2> DEFINE row == [me.snap EXCEPT !.status = "failed"]
  <2>3. /\ plans' = [plans EXCEPT ![me.plan] = row] /\ row.status = "failed"
        /\ row.steps = me.snap.steps /\ me.plan \in PlanIds
    BY <1>0, <1>7, <2>1, <2>2 DEF Raises, Plan, Sound, Named, Pcs, Known
  <2> HIDE DEF row
  <2>4. Kept(c) /\ Untouched'
    BY <1>0, <1>1, <2>1, <2>3 DEF Kept, Done, Live, Untouched, Rows
  <2>5. Copies(c)' /\ Ahead(c)'
    BY <1>1, <2>1 DEF Copies, Ahead, RunPcs, Loaded, Named, Pcs, Live
  <2> QED  BY <1>0, <2>1, <2>2, <2>4, <2>5, KeepsBuilt
<1>8. ~Crash
  BY <1>0 DEF Crash, Spends, Counted
<1>9. CASE UNCHANGED vars
  BY <1>9 DEF vars, BuiltInv, Counted, Untouched, Copies, Ahead, Step
<1>10. CASE RunStep(c)
  BY <1>0, <1>10, RunBuilt
<1>11. ASSUME TurnStep(c) \/ CardStep(c) PROVE BuiltInv(c)'
  <2>1. Holds(c) /\ left' = left
    BY <1>0, <1>11, TurnHolds, CardHolds
  <2> QED  BY <1>0, <2>1, CountedKeeps, HoldsBuilt
<1> QED  BY <1>2, <1>6, <1>7, <1>8, <1>9, <1>10, <1>11 DEF Next

\* With one client at a time, a host that answers every call, and no death of
\* the process, a retry builds no step a second time: neither runs that failed
\* halfway nor exceptions that escape the loop do harm (what the executor skips
\* and the loop saves is what the document holds).
THEOREM BuiltOnceHolds ==
  ASSUME NEW c, Clients = {c}, MaxCrashes = 0, Loop \/ MaxRaises = 0,
         Outcomes \subseteq {"ok", "error"}
  PROVE  Spec => []BuiltOnce
<1>1. Init => BuiltInv(c)
  <2> SUFFICES ASSUME Init PROVE BuiltInv(c)
    OBVIOUS
  <2>1. left = [requests |-> MaxRequests, crashes |-> 0, raises |-> MaxRaises]
        /\ MaxRequests \in Int /\ MaxRaises \in Int
    BY ConstantsAssumption DEF Init
  <2>2. doc.made = <<>> /\ req[c] = Idle /\ plans = [p \in PlanIds |-> Absent]
    BY DEF Init
  <2>3. Idle.pc = "idle" /\ Undone(Absent)
    BY DEF Idle, Absent, Undone
  <2>4. Counted
    BY <2>1 DEF Counted
  <2>5. Distinct(doc.made) /\ Recorded(doc.made, plans, req[c])
    BY <2>2 DEF Distinct, Recorded
  <2>6. Untouched /\ Copies(c) /\ Ahead(c)
    BY <2>2, <2>3 DEF Untouched, Copies, Ahead, RunPcs, Loaded, Named, Pcs, Live
  <2> QED  BY <2>4, <2>5, <2>6 DEF BuiltInv
<1>2. IndInv /\ BuiltInv(c) /\ [Next]_vars => BuiltInv(c)'
  BY BuiltStep
<1>3. BuiltInv(c) => BuiltOnce
  <2> SUFFICES ASSUME BuiltInv(c), NEW p \in PlanIds, NEW s \in StepIds PROVE Times(p, s) <= 1
    BY DEF BuiltOnce
  <2> DEFINE there == {i \in DOMAIN doc.made : doc.made[i] = <<p, s>>}
  <2>1. there = {} \/ \E i : there = {i}
    BY DEF BuiltInv, Distinct
  <2>2. Cardinality(there) <= 1
    <3> HIDE DEF there
    <3>1. CASE there = {}
      BY <3>1, FS_EmptySet
    <3>2. ASSUME NEW i, there = {i} PROVE Cardinality(there) <= 1
      <4>1. Cardinality({i}) = 1
        BY FS_Singleton
      <4> QED  BY <3>2, <4>1
    <3> QED  BY <2>1, <3>1, <3>2
  <2> QED  BY <2>2 DEF Times
<1> QED  BY <1>1, <1>2, <1>3, Invariance, PTL DEF Spec
-----------------------------------------------------------------------------
(***************************************************************************)
(* What a run leaves behind                                                *)
(***************************************************************************)
InMade(made, b) == \E i \in DOMAIN made : made[i] = b
\* The steps in the document that neither the row nor the run knows of.
Unrecorded(made, ps, r, st) ==
  {b \in (PlanIds \X StepIds) \ st : InMade(made, b) /\ Done(ps, r, b[1])[b[2]] # "completed"}

Spent == left \in [{"requests", "crashes", "raises"} -> Int] /\ left.crashes <= MaxCrashes
Within(c) == Cardinality(Unrecorded(doc.made, plans, req[c], strayed)) <= MaxCrashes - left.crashes

\* The copy of a run and its row differ in the call that is not saved yet.
Aligned(c) ==
  /\ req[c].pc \in {"run", "judge", "revert"} => req[c].snap.steps = plans[req[c].plan].steps
  /\ req[c].pc = "persist" =>
       \A s \in StepIds \ {Step(c)} : req[c].snap.steps[s] = plans[req[c].plan].steps[s]

\* What a run will send to the host again is not completed, unless it diverged.
Pending(c) ==
  IF req[c].pc = "persist" /\ ~req[c].bad THEN req[c].todo \ {Step(c)} ELSE req[c].todo
Fresh(c) ==
  req[c].pc \in {"run", "persist", "judge"} =>
    \A s \in Pending(c) : req[c].snap.steps[s] = "completed" => <<req[c].plan, s>> \in strayed

\* A run the loop gave up ends, and as failed; then its plan stays failed until
\* it is executed again: it can neither be decided on nor be proposed anew.
NoDeath == left.crashes = MaxCrashes
Ending(r) == r.todo = {} /\ \E s \in StepIds : r.snap.steps[s] = "failed"
Given(r) == r.pc \in {"link", "ask", "auto"} \/ (r.pc = "card" /\ r.snap.kind = "primary")
Reported(c) ==
  NoDeath =>
    /\ \A p \in aborted : IF req[c].pc \in Live /\ req[c].plan = p THEN Ending(req[c])
                          ELSE plans[p].status = "failed"
    /\ Given(req[c]) => req[c].plan \notin aborted
    /\ req[c].pc \in {"reload", "decide"} => plans[req[c].plan].status # "failed"

AccountInv(c) ==
  /\ Untouched /\ Copies(c) /\ Spent /\ Within(c) /\ Aligned(c) /\ Fresh(c) /\ Reported(c)

LEMMA UnrecordedFinite ==
  ASSUME NEW made, NEW ps, NEW r, NEW st
  PROVE  IsFiniteSet(Unrecorded(made, ps, r, st))
<1>1. IsFiniteSet(PlanIds) /\ IsFiniteSet(StepIds)
  BY FS_Interval, ConstantsAssumption DEF PlanIds, StepIds
<1>2. IsFiniteSet(PlanIds \X StepIds)
  BY <1>1, FS_Product
<1>3. Unrecorded(made, ps, r, st) \subseteq PlanIds \X StepIds
  BY DEF Unrecorded
<1> QED  BY <1>2, <1>3, FS_Subset

LEMMA SpentKeeps ==
  ASSUME Spent,
         \/ left' = left
         \/ \E what \in {"requests", "raises"} : left' = [left EXCEPT ![what] = @ - 1]
  PROVE  Spent' /\ left'.crashes = left.crashes
BY DEF Spent

\* A step that builds nothing and forgets nothing, but of what strayed.
LEMMA KeepsWithin ==
  ASSUME NEW c, Spent, Within(c), left'.crashes = left.crashes, strayed \subseteq strayed',
         \A b \in (PlanIds \X StepIds) \ strayed' :
           InMade(doc'.made, b) /\ Done(plans', req'[c], b[1])[b[2]] # "completed"
             => InMade(doc.made, b) /\ Done(plans, req[c], b[1])[b[2]] # "completed"
  PROVE  Within(c)'
<1> DEFINE U == Unrecorded(doc.made, plans, req[c], strayed)
           V == Unrecorded(doc'.made, plans', req'[c], strayed')
<1>1. V \subseteq U
  BY DEF Unrecorded
<1>2. IsFiniteSet(U) /\ IsFiniteSet(V)
  BY UnrecordedFinite
<1> HIDE DEF U, V
<1>3. Cardinality(V) <= Cardinality(U) /\ Cardinality(U) \in Nat /\ Cardinality(V) \in Nat
  BY <1>1, <1>2, FS_Subset, FS_CardinalityType
<1>4. Cardinality(U) <= MaxCrashes - left.crashes
  BY DEF Within, U
<1>5. left.crashes \in Int /\ MaxCrashes \in Nat
  BY ConstantsAssumption DEF Spent
<1>6. Cardinality(V) <= MaxCrashes - left'.crashes
  BY <1>3, <1>4, <1>5
<1> QED  BY <1>6 DEF Within, V

LEMMA HoldsAccount ==
  ASSUME IndInv, NEW c \in Clients, AccountInv(c), Holds(c), Spent',
         left'.crashes = left.crashes, strayed' = strayed, Reported(c)'
  PROVE  AccountInv(c)'
<1>1. Untouched' /\ Copies(c)' /\ Kept(c) /\ doc' = doc /\ (req'[c].pc \in Live => Begins(c))
  BY DEF Holds
<1>2. Within(c)'
  <2>1. \A b \in PlanIds \X StepIds :
          /\ b[1] \in PlanIds /\ b[2] \in StepIds
          /\ InMade(doc'.made, b) => InMade(doc.made, b)
    BY <1>1
  <2> QED  BY <1>1, <2>1, KeepsWithin DEF AccountInv, Kept
<1>3. Aligned(c)' /\ Fresh(c)'
  BY <1>1 DEF Aligned, Fresh, Pending, Live, Begins, Runnable
<1> QED  BY <1>1, <1>2, <1>3 DEF AccountInv
-----------------------------------------------------------------------------
LEMMA QuietReported ==
  ASSUME IndInv, NEW c \in Clients, Reported(c), left'.crashes = left.crashes, aborted' = aborted,
         req[c].pc \notin Live, req'[c].pc \notin Live,
         \/ plans' = plans
         \/ \E p \in PlanIds, row \in Plan :
              plans' = [plans EXCEPT ![p] = row] /\ (NoDeath => p \notin aborted),
         NoDeath => /\ Given(req'[c]) => req'[c].plan \notin aborted
                    /\ req'[c].pc \in {"reload", "decide"} => plans'[req'[c].plan].status # "failed"
  PROVE  Reported(c)'
<1>1. plans \in Rows /\ aborted \subseteq PlanIds
  BY Held
<1>2. NoDeath' => NoDeath
  BY DEF NoDeath
<1>3. NoDeath => \A p \in aborted : plans'[p].status = "failed"
  BY <1>1 DEF Reported, Rows
<1> QED  BY <1>2, <1>3 DEF Reported

\* A request that has no copy the report depends on.
LEMMA BareReported ==
  ASSUME IndInv, NEW c \in Clients, Reported(c), left'.crashes = left.crashes, aborted' = aborted,
         req[c].pc \notin Live, plans' = plans,
         req'[c].pc \in {"idle", "turn", "opened", "timeline", "load", "start", "edit", "title",
                         "advance", "outcome"}
  PROVE  Reported(c)'
<1>1. req'[c].pc \notin Live /\ ~Given(req'[c]) /\ req'[c].pc \notin {"reload", "decide"}
  BY DEF Live, Given
<1> QED  BY <1>1, QuietReported

\* A run begins: its plan is given another chance.
LEMMA BeginReported ==
  ASSUME IndInv, NEW c \in Clients, Reported(c), left'.crashes = left.crashes,
         aborted' = aborted \ {req[c].plan}, req[c].pc \notin Live,
         req'[c].pc \in {"run", "capture"}, req'[c].plan = req[c].plan,
         plans' = plans \/ \E row : plans' = [plans EXCEPT ![req[c].plan] = row]
  PROVE  Reported(c)'
<1>1. plans \in Rows /\ aborted \subseteq PlanIds
  BY Held
<1>2. NoDeath' => NoDeath
  BY DEF NoDeath
<1>3. NoDeath => \A p \in aborted' : p # req'[c].plan /\ plans'[p].status = "failed"
  BY <1>1 DEF Reported, Rows
<1>4. ~Given(req'[c]) /\ req'[c].pc \notin {"reload", "decide"}
  BY DEF Given
<1> QED  BY <1>2, <1>3, <1>4 DEF Reported

\* A run goes on: its plan was not given up.
LEMMA GoesOnReported ==
  ASSUME IndInv, NEW c \in Clients, Reported(c), left'.crashes = left.crashes, aborted' = aborted,
         req[c].pc \in Live, req[c].todo # {}, req'[c].pc \in Live,
         req'[c].plan = req[c].plan,
         plans' = plans \/ \E row : plans' = [plans EXCEPT ![req[c].plan] = row]
  PROVE  Reported(c)'
<1>1. plans \in Rows /\ aborted \subseteq PlanIds
  BY Held
<1>2. NoDeath' => NoDeath
  BY DEF NoDeath
<1>3. NoDeath => \A p \in aborted : p # req'[c].plan /\ plans'[p].status = "failed"
  BY <1>1 DEF Reported, Rows, Ending
<1>4. ~Given(req'[c]) /\ req'[c].pc \notin {"reload", "decide"}
  BY DEF Given, Live
<1> QED  BY <1>2, <1>3, <1>4 DEF Reported

\* Who writes the history a run is accounted by.
LEMMA HistoryKeeps ==
  ASSUME NEW c
  PROVE  /\ TurnStep(c) => strayed' = strayed /\ (aborted' = aborted \/ AutoApprove(c))
         /\ CardStep(c) => strayed' = strayed /\ (aborted' = aborted \/ StartRun(c))
         /\ RunStep(c) => /\ (strayed' = strayed \/ Dispatch(c))
                         /\ (aborted' = aborted \/ Exhaust(c))
<1> DEFINE kept == aborted' = aborted /\ strayed' = strayed
<1>1. ASSUME ProposePrimary(c) \/ ProposeEdit(c) PROVE kept
  <2>1. PICK pc, kind, risky, mark : CreatePlan(c, pc, kind, risky, mark)
    BY <1>1 DEF ProposePrimary, ProposeEdit
  <2> QED  BY <2>1 DEF CreatePlan, history
<1>2. ASSUME OpenTurn(c) \/ Clarify(c) \/ LinkPlan(c) \/ ReadTimeline(c) \/ AskEdit(c)
             \/ SaveCard(c) \/ SaveTitle(c)
      PROVE  kept
  BY <1>2 DEF OpenTurn, Clarify, LinkPlan, ReadTimeline, AskEdit, SaveCard, SaveTitle, history
<1>3. ASSUME Reload(c) \/ SaveDecision(c) \/ Advance(c) \/ SaveEdit(c) \/ LoadExecute(c)
      PROVE  kept
  BY <1>3 DEF Reload, SaveDecision, Advance, SaveEdit, LoadExecute, history
<1>4. ASSUME Persist(c) \/ Correct(c) \/ Revert(c) \/ Finalize(c) \/ Capture(c) \/ Outcome(c)
             \/ EditOutcome(c)
      PROVE  kept
  BY <1>4 DEF Persist, Correct, Revert, Finalize, Capture, Outcome, EditOutcome, history
<1>5. AutoApprove(c) => strayed' = strayed
  BY DEF AutoApprove
<1>6. StartRun(c) => strayed' = strayed
  BY DEF StartRun
<1>7. Exhaust(c) => strayed' = strayed
  BY DEF Exhaust
<1>8. Dispatch(c) => aborted' = aborted
  BY DEF Dispatch
<1> QED  BY <1>1, <1>2, <1>3, <1>4, <1>5, <1>6, <1>7, <1>8 DEF TurnStep, CardStep, RunStep

LEMMA TurnReported ==
  ASSUME IndInv, NEW c \in Clients, Copies(c), Spent, Reported(c), TurnStep(c), left' = left
  PROVE  Reported(c)'
<1> DEFINE me == req[c]
<1>0. /\ me \in Requests /\ Sound(plans, approvals, me) /\ plans \in Rows /\ me.snap \in Plan
  BY Held DEF Requests
<1>1. Idle.pc = "idle" /\ left'.crashes = left.crashes
  BY DEF Idle
<1>2. aborted' = aborted \/ AutoApprove(c)
  BY HistoryKeeps
<1>3. CASE ProposePrimary(c) \/ ProposeEdit(c)
  <2>1. PICK p \in PlanIds, plan \in Plan :
          /\ plans[p].status = "none" /\ plans' = [plans EXCEPT ![p] = plan]
          /\ Undone(plan) /\ req'[c].plan = p /\ req'[c].snap = plan
          /\ \/ req'[c].pc = "link"
             \/ req'[c].pc \in {"ask", "auto"} /\ plan.kind = "edit"
    BY <1>3, ProposeDoes
  <2>2. me.pc \in {"opened", "timeline"}
    BY <1>3, ProposeDoes
  <2>3. NoDeath => p \notin aborted
    BY <2>1, <2>2 DEF Reported, Live
  <2>4. aborted' = aborted
    BY <1>2, <2>2 DEF AutoApprove, At
  <2> QED  BY <1>1, <2>1, <2>2, <2>3, <2>4, QuietReported DEF Live
<1>4. CASE OpenTurn(c)
  <2>1. me.pc = "turn" /\ aborted' = aborted
    BY <1>2, <1>4 DEF OpenTurn, AutoApprove, At
  <2> QED  BY <1>1, <1>4, <2>1, OpenTurnDoes, BareReported DEF Live
<1>5. CASE Clarify(c)
  <2>1. me.pc = "opened" /\ aborted' = aborted
    BY <1>2, <1>5 DEF Clarify, AutoApprove, At
  <2> QED  BY <1>1, <1>5, <2>1, ClarifyDoes, BareReported DEF Live
<1>6. CASE LinkPlan(c)
  <2>1. me.pc = "link" /\ aborted' = aborted /\ plans' = plans
    BY <1>2, <1>6 DEF LinkPlan, AutoApprove, At
  <2>2. CASE req'[c] = Idle
    BY <1>1, <2>1, <2>2, BareReported DEF Live
  <2>3. CASE req'[c].pc = "card" /\ req'[c].plan = me.plan
    <3>1. NoDeath => me.plan \notin aborted
      BY <2>1 DEF Reported, Given
    <3> QED  BY <1>1, <2>1, <2>3, <3>1, QuietReported DEF Live
  <2> QED  BY <1>6, <2>2, <2>3, LinkPlanDoes
<1>7. CASE ReadTimeline(c)
  <2>1. me.pc = "opened" /\ aborted' = aborted
    BY <1>2, <1>7 DEF ReadTimeline, AutoApprove, At
  <2> QED  BY <1>1, <1>7, <2>1, ReadTimelineDoes, BareReported DEF Live
<1>8. CASE AskEdit(c)
  <2>1. me.pc = "ask" /\ aborted' = aborted
    BY <1>2, <1>8 DEF AskEdit, AutoApprove, At
  <2>2. req'[c].pc = "card" /\ req'[c].plan = me.plan /\ plans' = plans
    BY <1>8, AskEditDoes
  <2>3. NoDeath => me.plan \notin aborted
    BY <2>1 DEF Reported, Given
  <2> QED  BY <1>1, <2>1, <2>2, <2>3, QuietReported DEF Live
<1>9. CASE SaveCard(c)
  <2> DEFINE plan == IF me.snap.kind = "primary"
                     THEN [me.snap EXCEPT !.status = "waiting_approval"] ELSE me.snap
  <2>1. /\ me.pc = "card" /\ req'[c].pc = "title" /\ plans' = [plans EXCEPT ![me.plan] = plan]
    BY <1>9, SaveCardDoes DEF SaveCard
  <2>2. me.snap = plans[me.plan] /\ me.plan \in PlanIds /\ aborted' = aborted
    BY <1>0, <1>2, <2>1 DEF Copies, Loaded, Named, Pcs, Live, Sound, Known, AutoApprove, At
  <2>3. plan \in Plan /\ (me.snap.kind # "primary" => plan = plans[me.plan])
    BY <1>0, <2>2 DEF Plan, Statuses
  <2> HIDE DEF plan
  <2>4. CASE me.snap.kind = "primary"
    <3>1. NoDeath => me.plan \notin aborted
      BY <2>1, <2>4 DEF Reported, Given
    <3> QED  BY <1>1, <2>1, <2>2, <2>3, <3>1, QuietReported DEF Live, Given
  <2>5. CASE me.snap.kind # "primary"
    <3>1. plans' = plans
      BY <1>0, <2>1, <2>3, <2>5 DEF Rows
    <3> QED  BY <1>1, <2>1, <2>2, <3>1, BareReported DEF Live
  <2> QED  BY <2>4, <2>5
<1>10. CASE SaveTitle(c)
  <2>1. me.pc = "title" /\ aborted' = aborted
    BY <1>2, <1>10 DEF SaveTitle, AutoApprove, At
  <2> QED  BY <1>1, <1>10, <2>1, SaveTitleDoes, BareReported DEF Live
<1>11. CASE AutoApprove(c)
  <2>1. /\ me.pc = "auto" /\ req'[c].pc = "run" /\ req'[c].plan = me.plan
        /\ plans' = [plans EXCEPT ![me.plan] = Decided(me.snap, "approve")]
    BY <1>11, AutoApproveDoes
  <2>2. aborted' = aborted \ {me.plan}
    BY <1>11 DEF AutoApprove
  <2> QED  BY <1>1, <2>1, <2>2, BeginReported DEF Live
<1> QED
  BY <1>3, <1>4, <1>5, <1>6, <1>7, <1>8, <1>9, <1>10, <1>11 DEF TurnStep

LEMMA CardReported ==
  ASSUME IndInv, NEW c \in Clients, Copies(c), Spent, Reported(c), CardStep(c), left' = left
  PROVE  Reported(c)'
<1> DEFINE me == req[c]
<1>0. /\ me \in Requests /\ Sound(plans, approvals, me) /\ plans \in Rows /\ me.snap \in Plan
  BY Held DEF Requests
<1>1. Idle.pc = "idle" /\ left'.crashes = left.crashes
  BY DEF Idle
<1>2. aborted' = aborted \/ StartRun(c)
  BY HistoryKeeps
<1>3. CASE Reload(c)
  <2>1. /\ me.pc = "reload" /\ plans' = plans /\ req'[c].pc = "decide" /\ req'[c].plan = me.plan
    BY <1>3, ReloadDoes
  <2>2. aborted' = aborted /\ (NoDeath => plans[me.plan].status # "failed")
    BY <1>2, <2>1 DEF StartRun, At, Reported
  <2> QED  BY <1>1, <2>1, <2>2, QuietReported DEF Live, Given
<1>4. CASE SaveDecision(c)
  <2> DEFINE plan == Decided(me.snap, me.op)
  <2>1. /\ me.pc = "decide" /\ req'[c].pc = "advance" /\ plans' = [plans EXCEPT ![me.plan] = plan]
    BY <1>4, SaveDecisionDoes, SaveDecisionWrites
  <2>2. plan \in Plan /\ me.plan \in PlanIds /\ aborted' = aborted
    BY <1>0, <1>2, <2>1, DecidedType DEF Sound, Named, Pcs, Known, StartRun, At
  <2>3. NoDeath => me.plan \notin aborted
    BY <2>1 DEF Reported, Live
  <2> HIDE DEF plan
  <2> QED  BY <1>1, <2>1, <2>2, <2>3, QuietReported DEF Live, Given
<1>5. CASE Advance(c)
  <2>1. me.pc = "advance" /\ aborted' = aborted
    BY <1>2, <1>5 DEF Advance, StartRun, At
  <2> QED  BY <1>1, <1>5, <2>1, AdvanceDoes, BareReported DEF Live
<1>6. CASE SaveEdit(c)
  <2>1. me.pc = "edit" /\ req'[c] = Idle
    BY <1>6, SaveEditDoes
  <2>2. PICK row \in Plan : plans' = [plans EXCEPT ![me.plan] = row]
    BY <1>6, SaveEditWrites
  <2>3. /\ me.snap = plans[me.plan] /\ me.plan \in PlanIds
        /\ me.snap.status \in {"draft", "waiting_approval"}
    BY <1>0, <2>1 DEF Copies, Loaded, Named, Pcs, Live, Sound, Known
  <2>4. (NoDeath => me.plan \notin aborted) /\ aborted' = aborted
    BY <1>2, <2>1, <2>3 DEF Reported, Live, StartRun, At
  <2> QED  BY <1>1, <2>1, <2>2, <2>3, <2>4, QuietReported DEF Live, Given
<1>7. CASE LoadExecute(c)
  <2>1. me.pc = "load" /\ plans' = plans /\ req'[c].pc \in {"idle", "start"}
    BY <1>1, <1>7, LoadExecuteDoes
  <2>2. aborted' = aborted
    BY <1>2, <2>1 DEF StartRun, At
  <2> QED  BY <1>1, <2>1, <2>2, BareReported DEF Live
<1>8. CASE StartRun(c)
  <2>1. /\ me.pc = "start" /\ plans' = plans /\ req'[c].pc \in {"capture", "run"}
        /\ req'[c].plan = me.plan
    BY <1>8, StartRunDoes
  <2>2. aborted' = aborted \ {me.plan}
    BY <1>8 DEF StartRun
  <2> QED  BY <1>1, <2>1, <2>2, BeginReported DEF Live
<1> QED  BY <1>3, <1>4, <1>5, <1>6, <1>7, <1>8 DEF CardStep

\* The call of a run and the saving of its progress.
LEMMA DispatchAccount ==
  ASSUME Loop, IndInv, NEW c \in Clients, AccountInv(c), Dispatch(c)
  PROVE  AccountInv(c)'
<1> DEFINE me == req[c]
           p == me.plan
           s == Step(c)
<1>0. /\ me \in Requests /\ Sound(plans, approvals, me) /\ plans \in Rows /\ me.snap \in Plan
      /\ doc \in Docs /\ Untouched /\ Copies(c) /\ Spent /\ Within(c) /\ Aligned(c) /\ Fresh(c)
      /\ Reported(c)
  BY Held DEF Requests, AccountInv
<1>1. /\ me.pc = "run" /\ me.todo # {} /\ plans' = plans /\ left' = left
      /\ req'[c].op = me.op /\ req'[c].plan = p
  BY DispatchDoes
<1>2. PICK o \in Outcomes, result \in {"completed", "failed"} :
        /\ result = IF o \in {"ok", "diverged"} THEN "completed" ELSE "failed"
        /\ req'[c].snap = [me.snap EXCEPT !.steps[s] = result]
        /\ doc' = IF o = "error" THEN doc ELSE Build(me.snap.kind, p, s)
        /\ strayed' = IF o \in {"lost", "diverged"} THEN strayed \cup {<<p, s>>} ELSE strayed
        /\ req'[c].pc = "persist" /\ req'[c].bad = (o # "ok") /\ req'[c].todo = me.todo
  BY DispatchDoes
<1>3. s \in me.todo /\ s \in StepIds /\ p \in PlanIds /\ me.todo \in SUBSET StepIds
  BY <1>0, <1>1, StepIn DEF Sound, Named, Pcs, Known, Requests
<1>4. Step(c)' = s
  BY <1>2 DEF Step
<1>5. /\ o \in {"ok", "error", "lost", "diverged"} /\ strayed \subseteq strayed'
      /\ o \in {"lost", "diverged"} => <<p, s>> \in strayed'
  BY <1>2, ConstantsAssumption
<1>6. \A t \in me.todo : me.snap.steps[t] = "completed" => <<p, t>> \in strayed
  BY <1>0, <1>1 DEF Fresh, Pending
<1> DEFINE snap == req'[c].snap
<1> HIDE DEF s
<1>7. /\ snap \in Plan /\ snap.kind = me.snap.kind /\ snap.steps[s] = result
      /\ \A t \in StepIds \ {s} : snap.steps[t] = me.snap.steps[t]
  BY <1>0, <1>2, <1>3, WithResult
<1>8. Untouched' /\ Copies(c)'
  BY <1>0, <1>1, <1>2, <1>7, WithinRun DEF Live
<1>9. Spent' /\ left'.crashes = left.crashes
  BY <1>0, <1>1, SpentKeeps
<1>10. Reported(c)'
  <2>1. aborted' = aborted
    BY DEF Dispatch
  <2> QED  BY <1>0, <1>1, <1>2, <1>9, <2>1, GoesOnReported DEF Live
<1>11. Aligned(c)'
  BY <1>0, <1>1, <1>2, <1>4, <1>7 DEF Aligned
<1>12. Fresh(c)'
  <2> SUFFICES ASSUME NEW t \in Pending(c)', snap.steps[t] = "completed"
               PROVE  <<p, t>> \in strayed'
    BY <1>1 DEF Fresh
  <2>1. t \in me.todo /\ (t = s => o # "ok")
    BY <1>2, <1>4 DEF Pending
  <2>2. CASE t = s
    <3>1. result = "completed" /\ o # "ok"
      BY <1>7, <2>1, <2>2
    <3>2. o = "diverged"
      BY <1>2, <1>5, <3>1
    <3> QED  BY <1>5, <2>2, <3>2
  <2>3. CASE t # s
    BY <1>3, <1>5, <1>6, <1>7, <2>1, <2>3
  <2> QED  BY <2>2, <2>3
<1>13. Within(c)'
  <2> DEFINE known(b) == Done(plans, me, b[1])[b[2]] = "completed"
             known1(b) == Done(plans', req'[c], b[1])[b[2]] = "completed"
  <2>1. \A b \in (PlanIds \X StepIds) \ strayed' : known(b) => known1(b)
    <3> SUFFICES ASSUME NEW q \in PlanIds, NEW t \in StepIds, <<q, t>> \notin strayed',
                        Done(plans, me, q)[t] = "completed"
                 PROVE  Done(plans', req'[c], q)[t] = "completed"
      OBVIOUS
    <3>1. CASE q # p
      BY <1>1, <3>1 DEF Done
    <3>2. CASE q = p
      <4>1. me.snap.steps[t] = "completed"
        BY <1>1, <3>2 DEF Done, Live
      <4>2. t # s
        BY <1>3, <1>5, <1>6, <3>2, <4>1
      <4> QED  BY <1>1, <1>2, <1>7, <3>2, <4>1, <4>2 DEF Done, Live
    <3> QED  BY <3>1, <3>2
  <2>2. CASE doc' = doc \/ doc'.made = <<>>
    <3>1. \A b : InMade(doc'.made, b) => InMade(doc.made, b)
      BY <2>2 DEF InMade
    <3>2. \A b \in (PlanIds \X StepIds) \ strayed' :
            InMade(doc'.made, b) /\ ~known1(b) => InMade(doc.made, b) /\ ~known(b)
      BY <2>1, <3>1
    <3> QED  BY <1>0, <1>5, <1>9, <3>2, KeepsWithin
  <2>3. CASE doc'.made = Append(doc.made, <<p, s>>) /\ o # "error"
    <3>1. \A b : InMade(doc'.made, b) => b = <<p, s>> \/ InMade(doc.made, b)
      <4>1. Len(doc.made) \in Nat /\ DOMAIN doc.made = 1 .. Len(doc.made)
        BY <1>0, LenProperties DEF Docs
      <4>2. /\ DOMAIN doc'.made = 1 .. (Len(doc.made) + 1)
            /\ doc'.made[Len(doc.made) + 1] = <<p, s>>
            /\ \A i \in 1 .. Len(doc.made) : doc'.made[i] = doc.made[i]
        BY <1>0, <1>3, <2>3, <4>1, AppendProperties DEF Docs
      <4>3. \A i \in 1 .. (Len(doc.made) + 1) : i = Len(doc.made) + 1 \/ i \in 1 .. Len(doc.made)
        BY <4>1
      <4> QED  BY <4>1, <4>2, <4>3 DEF InMade
    <3>2. <<p, s>> \in strayed' \/ Done(plans', req'[c], p)[s] = "completed"
      BY <1>1, <1>2, <1>5, <1>7, <2>3 DEF Done, Live
    <3>3. \A b \in (PlanIds \X StepIds) \ strayed' :
            InMade(doc'.made, b) /\ ~known1(b) => InMade(doc.made, b) /\ ~known(b)
      BY <2>1, <3>1, <3>2
    <3> QED  BY <1>0, <1>5, <1>9, <3>3, KeepsWithin
  <2>4. doc' = doc \/ doc'.made = <<>> \/ (doc'.made = Append(doc.made, <<p, s>>) /\ o # "error")
    BY <1>0, <1>2 DEF Build, Docs
  <2> QED  BY <2>2, <2>3, <2>4
<1> QED  BY <1>8, <1>9, <1>10, <1>11, <1>12, <1>13 DEF AccountInv

\* A step within a run that calls no host: the document only loses, and what
\* the copy and the row record stays, but of what strayed.
LEMMA RunAccount ==
  ASSUME Loop, IndInv, NEW c \in Clients, AccountInv(c), RunStep(c)
  PROVE  AccountInv(c)'
<1> DEFINE me == req[c]
<1>0. /\ me \in Requests /\ Sound(plans, approvals, me) /\ plans \in Rows /\ me.snap \in Plan
      /\ doc \in Docs /\ Untouched /\ Copies(c) /\ Spent /\ Within(c) /\ Aligned(c) /\ Fresh(c)
      /\ Reported(c)
  BY Held DEF Requests, AccountInv
<1>1. left' = left => Spent' /\ left'.crashes = left.crashes
  BY <1>0, SpentKeeps
<1>2. me.pc \in RunPcs => me.plan \in PlanIds
  BY <1>0 DEF Sound, RunPcs, Named, Pcs, Known
<1>3. (strayed' = strayed \/ Dispatch(c)) /\ (aborted' = aborted \/ Exhaust(c))
  BY HistoryKeeps
<1>4. \A b \in PlanIds \X StepIds : b[1] \in PlanIds /\ b[2] \in StepIds
  OBVIOUS
<1>5. CASE Dispatch(c)
  BY <1>5, DispatchAccount
<1>6. CASE Persist(c)
  <2>1. /\ me.pc = "persist" /\ UNCHANGED <<doc, left>>
        /\ req'[c].op = me.op /\ req'[c].plan = me.plan /\ req'[c].snap = me.snap
        /\ \/ req'[c].pc = "judge" /\ me.bad /\ req'[c].todo = me.todo
           \/ req'[c].pc = "run" /\ ~me.bad /\ req'[c].todo = me.todo \ {Step(c)}
    BY <1>6, PersistDoes
  <2> DEFINE row == [me.snap EXCEPT !.status = "running"]
  <2>2. /\ plans' = [plans EXCEPT ![me.plan] = row] /\ row.status = "running"
        /\ row.steps = me.snap.steps /\ me.plan \in PlanIds /\ me.todo # {}
    BY <1>0, <1>2, <1>6, <2>1 DEF Persist, Plan, RunPcs, Sound
  <2> HIDE DEF row
  <2>3. strayed' = strayed /\ aborted' = aborted
    BY <1>3, <2>1 DEF Dispatch, Running, Exhaust, At
  <2>4. Kept(c)
    BY <1>0, <2>1, <2>2 DEF Kept, Done, Live, Rows
  <2>5. Untouched' /\ Copies(c)'
    BY <1>0, <2>1, <2>2, WithinRun DEF Live
  <2>6. Aligned(c)'
    BY <1>0, <2>1, <2>2 DEF Aligned, Rows
  <2>7. Fresh(c)'
    BY <1>0, <2>1, <2>3 DEF Fresh, Pending
  <2>8. Reported(c)'
    BY <1>0, <1>1, <2>1, <2>2, <2>3, GoesOnReported DEF Live
  <2>9. Within(c)'
    BY <1>0, <1>1, <1>4, <2>1, <2>3, <2>4, KeepsWithin DEF Kept
  <2> QED  BY <1>1, <2>1, <2>5, <2>6, <2>7, <2>8, <2>9 DEF AccountInv
<1>7. CASE Correct(c)
  <2>1. /\ me.pc = "judge" /\ UNCHANGED <<plans, doc, left>> /\ req'[c].pc = "run"
        /\ req'[c].op = me.op /\ req'[c].plan = me.plan /\ req'[c].snap = me.snap
        /\ req'[c].todo = me.todo
    BY <1>7, CorrectDoes
  <2>2. strayed' = strayed /\ aborted' = aborted /\ me.todo # {}
    <3>1. me.todo # {}
      BY <1>0, <2>1 DEF Sound
    <3> QED  BY <1>7, <3>1 DEF Correct, history
  <2>3. Kept(c)
    BY <1>0, <2>1 DEF Kept, Done, Live
  <2>4. Untouched' /\ Copies(c)'
    BY <1>0, <2>1, WithinRun DEF Live
  <2>5. Aligned(c)' /\ Fresh(c)'
    BY <1>0, <2>1, <2>2 DEF Aligned, Fresh, Pending
  <2>6. Reported(c)'
    BY <1>0, <1>1, <2>1, <2>2, GoesOnReported DEF Live
  <2>7. Within(c)'
    BY <1>0, <1>1, <1>4, <2>1, <2>2, <2>3, KeepsWithin DEF Kept
  <2> QED  BY <1>1, <2>1, <2>4, <2>5, <2>6, <2>7 DEF AccountInv
<1>8. CASE Exhaust(c)
  <2> DEFINE s == Step(c)
             failed == [me.snap EXCEPT !.steps[s] = "failed"]
             row == [failed EXCEPT !.status = "running"]
  <2>1. /\ me.pc = "judge" /\ req'[c].pc = "revert" /\ req'[c].op = me.op /\ req'[c].todo = {}
        /\ req'[c].plan = me.plan /\ req'[c].snap = failed /\ UNCHANGED <<doc, left>>
        /\ (plans' = plans /\ failed = me.snap) \/ plans' = [plans EXCEPT ![me.plan] = row]
        /\ aborted' = aborted \cup {me.plan}
    BY <1>8, ExhaustDoes
  <2>2. me.todo # {} /\ me.plan \in PlanIds /\ strayed' = strayed
    BY <1>0, <1>2, <1>3, <2>1 DEF Sound, RunPcs, Dispatch, Running, At
  <2>3. s \in StepIds /\ s \in me.todo
    BY <1>0, <2>2, StepIn
  <2>4. me.snap.steps[s] = "completed" => <<me.plan, s>> \in strayed
    BY <1>0, <2>1, <2>3 DEF Fresh, Pending
  <2> HIDE DEF s
  <2>5. /\ failed \in Plan /\ failed.kind = me.snap.kind /\ failed.steps[s] = "failed"
        /\ \A t \in StepIds \ {s} : failed.steps[t] = me.snap.steps[t]
    BY <1>0, <2>3, WithResult
  <2> HIDE DEF failed
  <2>6. row.status = "running" /\ row.steps = failed.steps
    BY <2>5 DEF Plan
  <2> HIDE DEF row
  <2>7. Untouched' /\ Copies(c)'
    BY <1>0, <2>1, <2>5, <2>6, WithinRun DEF Live
  <2>8. Aligned(c)' /\ Fresh(c)'
    BY <1>0, <2>1, <2>2, <2>6 DEF Aligned, Fresh, Rows
  <2>9. Reported(c)'
    <3>1. NoDeath' => NoDeath
      BY <2>1 DEF NoDeath
    <3>2. Ending(req'[c])
      BY <2>1, <2>3, <2>5 DEF Ending
    <3>3. NoDeath => \A p \in aborted \ {me.plan} : plans'[p].status = "failed"
      <4>1. aborted \subseteq PlanIds
        BY Held
      <4> QED  BY <1>0, <2>1, <4>1 DEF Reported, Rows
    <3> QED  BY <2>1, <3>1, <3>2, <3>3 DEF Reported, Given, Live
  <2>10. \A p \in PlanIds, t \in StepIds :
           <<p, t>> \notin strayed /\ Done(plans, me, p)[t] = "completed"
             => Done(plans', req'[c], p)[t] = "completed"
    BY <1>0, <2>1, <2>2, <2>4, <2>5, <2>6 DEF Done, Live, Rows
  <2>11. Within(c)'
    BY <1>0, <1>1, <1>4, <2>1, <2>2, <2>10, KeepsWithin
  <2> QED  BY <1>1, <2>1, <2>7, <2>8, <2>9, <2>11 DEF AccountInv
<1>9. CASE Revert(c)
  <2>1. /\ me.pc = "revert" /\ UNCHANGED <<plans, left>> /\ req'[c].pc = "run"
        /\ req'[c].op = me.op /\ req'[c].plan = me.plan /\ req'[c].snap = me.snap
        /\ req'[c].todo = {} /\ me.todo = {}
    BY <1>0, <1>9, RevertDoes DEF Sound
  <2>2. strayed' = strayed /\ aborted' = aborted
    BY <1>3, <2>1 DEF Dispatch, Running, Exhaust, At
  <2>3. Kept(c)
    BY <1>0, <2>1 DEF Kept, Done, Live
  <2>4. Untouched' /\ Copies(c)'
    BY <1>0, <2>1, WithinRun DEF Live
  <2>5. Aligned(c)' /\ Fresh(c)'
    BY <1>0, <2>1 DEF Aligned, Fresh, Pending
  <2>6. Reported(c)'
    BY <1>0, <2>1, <2>2 DEF Reported, NoDeath, Ending, Given, Live
  <2>7. \A b : InMade(doc'.made, b) => InMade(doc.made, b)
    <3>1. /\ DOMAIN doc'.made \subseteq DOMAIN doc.made
          /\ \A i \in DOMAIN doc'.made : doc'.made[i] = doc.made[i]
      BY <1>0, <1>9, RevertedIs DEF Revert, Requests
    <3> QED  BY <3>1 DEF InMade
  <2>8. Within(c)'
    BY <1>0, <1>1, <1>4, <2>1, <2>2, <2>3, <2>7, KeepsWithin DEF Kept
  <2> QED  BY <1>1, <2>1, <2>4, <2>5, <2>6, <2>8 DEF AccountInv
<1>10. CASE Finalize(c) \/ Capture(c) \/ Outcome(c) \/ EditOutcome(c)
  <2>1. Holds(c) /\ left' = left /\ req'[c].pc \notin Live
    BY <1>0, <1>10, EndHolds
  <2>2. /\ me.pc \in {"run", "capture", "outcome"} /\ strayed' = strayed /\ aborted' = aborted
        /\ me.pc = "run" => me.todo = {}
    <3>1. me.pc \in {"run", "capture", "outcome"} /\ (me.pc = "run" => me.todo = {})
      BY <1>10 DEF Finalize, Capture, Outcome, EditOutcome, At
    <3> QED  BY <1>3, <3>1 DEF Dispatch, Running, Exhaust, At
  <2>3. Reported(c)'
    <3>1. CASE Finalize(c)
      <4>1. /\ me.pc = "run" /\ req'[c].pc = "capture" /\ req'[c].plan = me.plan
            /\ me.plan \in PlanIds
            /\ plans' = [plans EXCEPT ![me.plan] = req'[c].snap]
        BY <1>2, <3>1, FinalizeDoes DEF RunPcs
      <4>2. plans' = [plans EXCEPT ![me.plan] = [me.snap EXCEPT !.status = FinalStatus(me.snap)]]
        BY <3>1 DEF Finalize
      <4>3. Ending(me) => FinalStatus(me.snap) = "failed"
        BY DEF Ending, FinalStatus
      <4>4. plans'[me.plan].status = FinalStatus(me.snap)
        BY <1>0, <4>1, <4>2 DEF Rows, Plan
      <4>5. NoDeath' => NoDeath
        BY <2>1 DEF NoDeath
      <4>6. NoDeath => \A p \in aborted : plans'[p].status = "failed"
        <5> SUFFICES ASSUME NoDeath, NEW p \in aborted PROVE plans'[p].status = "failed"
          OBVIOUS
        <5>1. CASE p = me.plan
          BY <1>0, <4>1, <4>3, <4>4, <5>1 DEF Reported, Live
        <5>2. CASE p # me.plan
          BY <1>0, <4>1, <5>2, Held DEF Reported, Rows
        <5> QED  BY <5>1, <5>2
      <4> QED  BY <2>1, <2>2, <4>1, <4>5, <4>6 DEF Reported, Given
    <3>2. CASE Capture(c)
      <4>1. /\ me.pc = "capture" /\ req'[c].pc = "outcome"
            /\ plans' \in {plans, [plans EXCEPT ![me.plan] = me.snap]}
        BY <3>2, CaptureDoes DEF Capture
      <4>2. plans' = plans
        BY <1>0, <4>1 DEF Copies, Loaded, Named, Pcs, Live, Rows
      <4> QED  BY <1>0, <1>1, <2>1, <2>2, <4>1, <4>2, BareReported DEF Live
    <3>3. CASE Outcome(c)
      <4>1. me.pc = "outcome" /\ req'[c].pc = "idle" /\ plans' = plans
        BY <3>3, OutcomeDoes DEF Idle
      <4> QED  BY <1>0, <1>1, <2>1, <2>2, <4>1, BareReported DEF Live
    <3>4. CASE EditOutcome(c)
      <4>1. /\ me.pc = "outcome" /\ me.op = "turn" /\ req'[c].pc = "card"
            /\ req'[c].snap = plans[me.plan] /\ plans' = plans
        BY <3>4, EditOutcomeDoes
      <4>2. plans[me.plan].kind = "edit"
        BY <1>0, <4>1 DEF Copies, Sound, RunPcs, Loaded, Named, Pcs
      <4> QED  BY <1>0, <1>1, <2>1, <2>2, <4>1, <4>2, QuietReported DEF Live, Given
    <3> QED  BY <1>10, <3>1, <3>2, <3>3, <3>4
  <2> QED  BY <1>1, <2>1, <2>2, <2>3, HoldsAccount
<1> QED  BY <1>5, <1>6, <1>7, <1>8, <1>9, <1>10 DEF RunStep

\* A death hides the call whose result the run had not saved yet, and no other.
LEMMA CrashAccount ==
  ASSUME IndInv, NEW c \in Clients, AccountInv(c), Crash
  PROVE  AccountInv(c)'
<1> DEFINE me == req[c]
           x == <<me.plan, Step(c)>>
           U == Unrecorded(doc.made, plans, me, strayed)
           V == Unrecorded(doc'.made, plans', req'[c], strayed')
<1>0. /\ Untouched /\ Copies(c) /\ Spent /\ Within(c) /\ Aligned(c) /\ me \in Requests
      /\ me.snap \in Plan /\ Sound(plans, approvals, me)
  BY Held DEF AccountInv, Requests
<1>1. /\ left' = [left EXCEPT !["crashes"] = @ - 1] /\ req'[c] = Idle
      /\ UNCHANGED <<plans, doc, strayed, aborted>> /\ Idle.pc = "idle"
  BY DEF Crash, Spends, history, Idle
<1>2. /\ left.crashes \in Int /\ MaxCrashes \in Nat /\ left'.crashes = left.crashes - 1
      /\ left.crashes <= MaxCrashes
  BY <1>0, <1>1, ConstantsAssumption DEF Spent
<1>3. Spent' /\ ~NoDeath'
  BY <1>0, <1>1, <1>2 DEF Spent, NoDeath
<1>4. Untouched' /\ Copies(c)' /\ Aligned(c)' /\ Fresh(c)' /\ Reported(c)'
  BY <1>0, <1>1, <1>3
     DEF Untouched, Copies, Aligned, Fresh, Reported, RunPcs, Loaded, Named, Pcs, Live
<1>5. V \subseteq U \cup {x}
  <2> SUFFICES ASSUME NEW p \in PlanIds, NEW s \in StepIds, <<p, s>> \in V, <<p, s>> \notin U
               PROVE  <<p, s>> = x
    BY DEF Unrecorded
  <2>1. /\ <<p, s>> \notin strayed /\ InMade(doc.made, <<p, s>>)
        /\ plans[p].steps[s] # "completed"
    BY <1>1 DEF Unrecorded, Done, Live
  <2>2. Done(plans, me, p)[s] = "completed"
    BY <2>1 DEF Unrecorded
  <2>3. me.pc \in Live /\ me.plan = p /\ me.snap.steps[s] = "completed"
    BY <2>1, <2>2 DEF Done
  <2>4. me.pc = "persist" /\ s = Step(c)
    BY <1>0, <2>1, <2>3 DEF Aligned, Live
  <2> QED  BY <2>3, <2>4
<1>6. IsFiniteSet(U) /\ IsFiniteSet(V)
  BY UnrecordedFinite
<1>7. Cardinality(U) <= MaxCrashes - left.crashes
  BY <1>0 DEF Within
<1> HIDE DEF U, V, x
<1>8. Cardinality(V) <= Cardinality(U) + 1 /\ Cardinality(U) \in Nat /\ Cardinality(V) \in Nat
  <2>1. /\ IsFiniteSet(U \cup {x})
        /\ Cardinality(U \cup {x}) = IF x \in U THEN Cardinality(U) ELSE Cardinality(U) + 1
    BY <1>6, FS_AddElement
  <2>2. Cardinality(V) <= Cardinality(U \cup {x})
    BY <1>5, <2>1, FS_Subset
  <2>3. Cardinality(U) \in Nat /\ Cardinality(V) \in Nat
    BY <1>6, FS_CardinalityType
  <2> QED  BY <2>1, <2>2, <2>3
<1>9. Cardinality(V) <= MaxCrashes - left'.crashes
  BY <1>2, <1>7, <1>8
<1>10. Within(c)'
  BY <1>9 DEF Within, V
<1> QED  BY <1>3, <1>4, <1>10 DEF AccountInv

LEMMA AccountStep ==
  ASSUME NEW c, Clients = {c}, Loop, IndInv, AccountInv(c), [Next]_vars
  PROVE  AccountInv(c)'
<1> DEFINE me == req[c]
<1>0. /\ c \in Clients /\ me \in Requests /\ Sound(plans, approvals, me) /\ plans \in Rows
      /\ me.snap \in Plan /\ doc \in Docs /\ aborted \subseteq PlanIds
      /\ Untouched /\ Copies(c) /\ Spent /\ Within(c) /\ Aligned(c) /\ Fresh(c) /\ Reported(c)
  BY Held DEF Requests, AccountInv
<1>1. Idle.pc = "idle"
  BY DEF Idle
<1>2. \A b \in PlanIds \X StepIds : b[1] \in PlanIds /\ b[2] \in StepIds
  OBVIOUS
<1>3. ASSUME StartTurn(c)
               \/ \E p \in PlanIds :
                    \/ \E decision \in {"approve", "reject"} : StartDecision(c, p, decision)
                    \/ StartEdit(c, p) \/ StartExecute(c, p)
      PROVE  AccountInv(c)'
  <2>1. Holds(c) /\ left' = [left EXCEPT !["requests"] = @ - 1]
    BY <1>0, <1>3, ArriveHolds
  <2>2. Spent' /\ left'.crashes = left.crashes
    BY <1>0, <2>1, SpentKeeps
  <2>3. aborted' = aborted /\ strayed' = strayed
    BY <1>3 DEF StartTurn, StartDecision, StartEdit, StartExecute, history
  <2>4. Reported(c)'
    <3>1. CASE StartTurn(c)
      BY <1>0, <2>2, <2>3, <3>1, StartTurnDoes, BareReported DEF Live
    <3>2. ASSUME NEW p \in PlanIds, NEW decision \in {"approve", "reject"},
                 StartDecision(c, p, decision)
          PROVE  Reported(c)'
      <4>1. /\ me.pc = "idle" /\ req'[c].pc = "reload" /\ req'[c].plan = p
            /\ Approvable(plans[p], decision) /\ plans' = plans
        BY <1>0, <3>2, StartDecisionDoes
      <4>2. plans[p].status # "failed"
        BY <4>1 DEF Approvable
      <4> QED  BY <1>0, <2>2, <2>3, <4>1, <4>2, QuietReported DEF Live, Given
    <3>3. ASSUME NEW p \in PlanIds, StartEdit(c, p) PROVE Reported(c)'
      BY <1>0, <2>2, <2>3, <3>3, StartEditDoes, BareReported DEF Live
    <3>4. ASSUME NEW p \in PlanIds, StartExecute(c, p) PROVE Reported(c)'
      BY <1>0, <2>2, <2>3, <3>4, StartExecuteDoes, BareReported DEF Live
    <3> QED  BY <1>3, <3>1, <3>2, <3>3, <3>4
  <2> QED  BY <1>0, <2>1, <2>2, <2>3, <2>4, HoldsAccount
<1>4. ASSUME NEW p \in PlanIds, Undo(c, p) PROVE AccountInv(c)'
  <2>1. /\ plans' = plans /\ req' = req /\ left' = [left EXCEPT !["requests"] = @ - 1]
        /\ plans[p].mark \in Nat /\ doc' \in Reverted(plans[p].mark)
        /\ strayed' = strayed /\ aborted' = aborted
    BY <1>0, <1>4 DEF Undo, Arrives, Spends, history, Rows, Plan
  <2>2. /\ DOMAIN doc'.made \subseteq DOMAIN doc.made
        /\ \A i \in DOMAIN doc'.made : doc'.made[i] = doc.made[i]
    BY <1>0, <2>1, RevertedIs
  <2>3. \A b : InMade(doc'.made, b) => InMade(doc.made, b)
    BY <2>2 DEF InMade
  <2>4. Spent' /\ left'.crashes = left.crashes
    BY <1>0, <2>1, SpentKeeps
  <2>5. Untouched' /\ Copies(c)' /\ Aligned(c)' /\ Fresh(c)' /\ Reported(c)'
    BY <1>0, <2>1, <2>4
       DEF Untouched, Copies, Aligned, Fresh, Pending, Reported, NoDeath, Step
  <2>6. Within(c)'
    BY <1>0, <2>1, <2>3, <2>4, KeepsWithin
  <2> QED  BY <2>4, <2>5, <2>6 DEF AccountInv
<1>5. CASE Raises(c)
  <2>1. /\ me.pc \in {"run", "persist", "judge", "revert"} /\ req'[c] = Idle
        /\ left' = [left EXCEPT !["raises"] = @ - 1] /\ doc' = doc
    BY <1>0, <1>5, RaisesDoes
  <2>2. Spent' /\ left'.crashes = left.crashes
    BY <1>0, <2>1, SpentKeeps
  <2> DEFINE row == [me.snap EXCEPT !.status = "failed"]
  <2>3. /\ plans' = [plans EXCEPT ![me.plan] = row] /\ row.status = "failed"
        /\ row.steps = me.snap.steps /\ me.plan \in PlanIds
        /\ strayed' = strayed /\ aborted' = aborted
    BY <1>0, <1>5, <2>1 DEF Raises, Plan, Sound, Named, Pcs, Known, history
  <2> HIDE DEF row
  <2>4. Kept(c) /\ Untouched'
    BY <1>0, <1>1, <2>1, <2>3 DEF Kept, Done, Live, Untouched, Rows
  <2>5. Copies(c)' /\ doc' = doc /\ req'[c].pc \notin Live
    BY <1>1, <2>1 DEF Copies, RunPcs, Loaded, Named, Pcs, Live
  <2>6. Reported(c)'
    <3>1. NoDeath' => NoDeath
      BY <2>2 DEF NoDeath
    <3>2. NoDeath => \A p \in aborted : plans'[p].status = "failed"
      BY <1>0, <2>3 DEF Reported, Rows
    <3> QED  BY <1>1, <2>1, <2>3, <2>5, <3>1, <3>2 DEF Reported, Given
  <2> QED  BY <1>0, <2>2, <2>3, <2>4, <2>5, <2>6, HoldsAccount DEF Holds
<1>6. CASE Crash
  BY <1>0, <1>6, CrashAccount
<1>7. CASE UNCHANGED vars
  <2>1. UNCHANGED <<plans, doc, req, left, aborted, strayed>>
    BY <1>7 DEF vars
  <2>2. Within(c)'
    BY <1>0, <2>1 DEF Within
  <2>3. Untouched' /\ Copies(c)' /\ Spent' /\ Aligned(c)' /\ Fresh(c)' /\ Reported(c)'
    BY <1>0, <2>1 DEF Untouched, Copies, Spent, Aligned, Fresh, Pending, Reported, NoDeath, Step
  <2> QED  BY <2>2, <2>3 DEF AccountInv
<1>8. CASE RunStep(c)
  BY <1>0, <1>8, RunAccount
<1>9. ASSUME TurnStep(c) \/ CardStep(c) PROVE AccountInv(c)'
  <2>1. Holds(c) /\ left' = left
    BY <1>0, <1>9, TurnHolds, CardHolds
  <2>2. Spent' /\ left'.crashes = left.crashes /\ strayed' = strayed
    BY <1>0, <1>9, <2>1, SpentKeeps, HistoryKeeps
  <2>3. Reported(c)'
    BY <1>0, <1>9, <2>1, TurnReported, CardReported
  <2> QED  BY <1>0, <2>1, <2>2, <2>3, HoldsAccount
<1> QED  BY <1>3, <1>4, <1>5, <1>6, <1>7, <1>8, <1>9 DEF Next

\* With one client at a time, what a plan records after a run of the agentic
\* loop is what was done, whatever the host answers and wherever the process
\* dies: a run the loop gave up ends as failed (the diverged step is marked
\* again, the exception handler saves the row, and nothing but a new execution
\* overwrites it), and a death hides at most the one call whose result the loop
\* had not saved (_persist_progress follows every call).
THEOREM RunsAreAccountedHolds ==
  ASSUME NEW c, Clients = {c}, Loop
  PROVE  Spec => []RunsAreAccounted
<1>1. Init => AccountInv(c)
  <2> SUFFICES ASSUME Init PROVE AccountInv(c)
    OBVIOUS
  <2>1. left = [requests |-> MaxRequests, crashes |-> MaxCrashes, raises |-> MaxRaises]
        /\ MaxRequests \in Int /\ MaxRaises \in Int /\ MaxCrashes \in Nat
    BY ConstantsAssumption DEF Init
  <2>2. /\ doc.made = <<>> /\ req[c] = Idle /\ plans = [p \in PlanIds |-> Absent]
        /\ aborted = {}
    BY DEF Init
  <2>3. Idle.pc = "idle" /\ Undone(Absent)
    BY DEF Idle, Absent, Undone
  <2>4. Spent /\ left.crashes = MaxCrashes
    BY <2>1 DEF Spent
  <2>5. Within(c)
    <3>1. Unrecorded(doc.made, plans, req[c], strayed) = {}
      BY <2>2 DEF Unrecorded, InMade
    <3>2. Cardinality(Unrecorded(doc.made, plans, req[c], strayed)) = 0
      BY <3>1, FS_EmptySet
    <3> QED  BY <2>1, <2>4, <3>2 DEF Within
  <2>6. Untouched /\ Copies(c) /\ Aligned(c) /\ Fresh(c) /\ Reported(c)
    BY <2>2, <2>3
       DEF Untouched, Copies, Aligned, Fresh, Reported, Given, RunPcs, Loaded, Named, Pcs, Live
  <2> QED  BY <2>4, <2>5, <2>6 DEF AccountInv
<1>2. IndInv /\ AccountInv(c) /\ [Next]_vars => AccountInv(c)'
  BY AccountStep
<1>3. AccountInv(c) => RunsAreAccounted
  <2> SUFFICES ASSUME AccountInv(c), Quiet PROVE AbortIsReported /\ OneUnrecordedPerCrash
    BY DEF RunsAreAccounted, AbortIsReported, OneUnrecordedPerCrash
  <2>1. req[c].pc \notin Live
    BY DEF Quiet, Idle, Live
  <2>2. AbortIsReported
    BY <2>1 DEF AbortIsReported, AccountInv, Reported, NoDeath
  <2>3. OneUnrecordedPerCrash
    <3> DEFINE U == Unrecorded(doc.made, plans, req[c], strayed)
               V == {b \in (PlanIds \X StepIds) \ strayed :
                       Times(b[1], b[2]) > 0 /\ plans[b[1]].steps[b[2]] # "completed"}
    <3>1. \A p \in PlanIds, s \in StepIds : Times(p, s) > 0 => InMade(doc.made, <<p, s>>)
      <4> SUFFICES ASSUME NEW p \in PlanIds, NEW s \in StepIds, ~InMade(doc.made, <<p, s>>)
                   PROVE  Times(p, s) = 0
        OBVIOUS
      <4>1. {i \in DOMAIN doc.made : doc.made[i] = <<p, s>>} = {}
        BY DEF InMade
      <4>2. Cardinality({i \in DOMAIN doc.made : doc.made[i] = <<p, s>>}) = 0
        BY <4>1, FS_EmptySet
      <4> QED  BY <4>2 DEF Times
    <3>2. V \subseteq U
      <4> SUFFICES ASSUME NEW p \in PlanIds, NEW s \in StepIds, <<p, s>> \in V
                   PROVE  <<p, s>> \in U
        OBVIOUS
      <4> QED  BY <2>1, <3>1 DEF Unrecorded, Done
    <3>3. IsFiniteSet(U)
      BY UnrecordedFinite
    <3>4. Cardinality(U) <= MaxCrashes - left.crashes
      BY DEF AccountInv, Within
    <3>5. left.crashes \in Int /\ MaxCrashes \in Nat
      BY ConstantsAssumption DEF AccountInv, Spent
    <3>6. Cardinality(V) <= MaxCrashes - left.crashes
      <4> HIDE DEF U, V
      <4>1. /\ IsFiniteSet(V) /\ Cardinality(V) <= Cardinality(U)
            /\ Cardinality(U) \in Nat /\ Cardinality(V) \in Nat
        BY <3>2, <3>3, FS_Subset, FS_CardinalityType
      <4> QED  BY <3>4, <3>5, <4>1
    <3> QED  BY <3>6 DEF OneUnrecordedPerCrash
  <2> QED  BY <2>2, <2>3
<1> QED  BY <1>1, <1>2, <1>3, Invariance, PTL DEF Spec
=============================================================================
