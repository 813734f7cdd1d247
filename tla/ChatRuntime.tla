---------------------------- MODULE ChatRuntime ----------------------------
(***************************************************************************)
(* What a chat turn decides before it calls a provider, as functions of    *)
(* what it read from the store: the agents (api/routes/chat.py), the       *)
(* projects they may touch (chat_scope.py), the knowledge bases and the    *)
(* snippets of the vector search (chat_context.py), the model              *)
(* (llm_gateway/model_registry.py), the gates of the cost governor and the *)
(* permissions of tools (tools/runtime.py, security/permissions.py).       *)
(***************************************************************************)
EXTENDS Integers, FiniteSets, Sequences, SequencesExt, FiniteSetsExt, TLC

CONSTANTS
  MaxContextDocuments,    \* MAX_CONTEXT_DOCUMENTS
  MaxKnowledgeBases,      \* MAX_CONTEXT_KNOWLEDGE_BASE_IDS
  MaxContextProjects,     \* MAX_CONTEXT_PROJECTS
  None                    \* Python's None

\* next((x for x in s if Test(x)), default)
FirstOr(s, Test(_), default) ==
  LET hits == SelectSeq(s, Test) IN IF hits = <<>> THEN default ELSE Head(hits)

-----------------------------------------------------------------------------
(***************************************************************************)
(* Agents: [id, orchestrator, enabled, judite, projects, bases]            *)
(***************************************************************************)
AgentById(agents, id) == FirstOr(agents, LAMBDA a : a.id = id, None)

\* (mutant of PrimaryAgent) whoever was selected leads.
PrimaryAgent_Selected(agents, selected) ==
  IF selected # None THEN selected ELSE IF agents = <<>> THEN None ELSE Head(agents)

PrimaryAgent(agents, selected) ==
  LET fallback == IF selected # None THEN selected
                  ELSE FirstOr(agents, LAMBDA a : a.judite,
                               IF agents = <<>> THEN None ELSE Head(agents))
      able == SelectSeq(agents, LAMBDA a : a.enabled /\ a.orchestrator)
  IN IF selected \in Range(able) THEN selected
     ELSE FirstOr(able, LAMBDA a : a.judite, IF able = <<>> THEN fallback ELSE Head(able))

\* (mutant of SelectAgents) whoever is requested supports.
SelectAgents_Blind(agents, selectedId, requested, multi) ==
  LET primary == PrimaryAgent(agents, AgentById(agents, selectedId))
  IN [primary |-> primary, target |-> None,
      support |-> SelectSeq([n \in DOMAIN requested |-> AgentById(agents, requested[n])],
                            LAMBDA a : a # None /\ a # primary)]

\* select_orchestration_agents
SelectAgents(agents, selectedId, requested, multi) ==
  LET selected == AgentById(agents, selectedId)
      primary == PrimaryAgent(agents, selected)
      target == IF selected # None /\ primary # None /\ selected # primary THEN selected ELSE None
      ids == (IF target # None /\ target.enabled THEN <<target.id>> ELSE <<>>)
             \o (IF multi THEN requested ELSE <<>>)
      Add(support, id) ==
        LET a == AgentById(agents, id)
        IN IF a = None \/ a = primary \/ a \in Range(support) THEN support
           ELSE IF a.enabled THEN Append(support, a) ELSE support
  IN [primary |-> primary, target |-> target, support |-> FoldLeft(Add, <<>>, ids)]

\* The runtime: the agents of a turn, those there are.
RuntimeAgents(chosen) ==
  SelectSeq(<<chosen.primary, chosen.target>> \o chosen.support, LAMBDA a : a # None)

-----------------------------------------------------------------------------
(***************************************************************************)
(* Projects                                                                *)
(***************************************************************************)
Unique(s) ==
  LET Add(acc, x) == IF x \in Range(acc) THEN acc ELSE Append(acc, x) IN FoldLeft(Add, <<>>, s)
Cut(s, n) == SubSeq(s, 1, Min({n, Len(s)}))

NormalizeProjects(ids, fallback, known) ==
  LET kept == Unique(SelectSeq(ids, LAMBDA p : p \in known))
  IN IF kept = <<>> THEN <<fallback>> ELSE Cut(kept, MaxContextProjects)

\* An agent without projects has the general one; so has a turn without agents.
AllowedProjects(chosen, general) ==
  LET Of(a) == IF a = None \/ a.projects = {} THEN {general} ELSE a.projects
  IN Of(chosen.primary) \cup Of(chosen.target) \cup UNION {Of(a) : a \in Range(chosen.support)}

\* stream_chat: the active project, and what _validate_active_project_scope says.
ActiveProject(requested, sessionProject, known, general) ==
  LET asked == IF requested # None THEN requested
               ELSE IF sessionProject # None THEN sessionProject ELSE general
  IN IF known # {} /\ asked \notin known THEN general ELSE asked

\* (mutant of ContextProject) the project of the session rather than the active one.
ContextProject_Session(active, sessionProject, known, general, allowed) ==
  IF sessionProject \in allowed THEN sessionProject ELSE general

\* The one project whose context the turn uses.
ContextProject(active, sessionProject, known, general, allowed) ==
  LET fallback == IF sessionProject = None THEN general ELSE sessionProject
      ids == SelectSeq(NormalizeProjects(<<active>>, fallback, known), LAMBDA p : p \in allowed)
  IN IF ids # <<>> THEN Head(ids)
     ELSE IF general \in allowed THEN general ELSE CHOOSE p \in allowed : TRUE

-----------------------------------------------------------------------------
(***************************************************************************)
(* Knowledge bases: bases[b] = [enabled, docs, chunks]                     *)
(***************************************************************************)
NormalizeBases(ids, bases) ==
  Cut(Unique(SelectSeq(ids, LAMBDA b : b \in DOMAIN bases /\ bases[b].enabled)), MaxKnowledgeBases)

\* _allowed_knowledge_base_ids_for_runtime: of the project, then of the agents.
AllowedBases(projectBases, chosen, bases) ==
  NormalizeBases(projectBases \o FlattenSeq([n \in DOMAIN RuntimeAgents(chosen) |->
                                               RuntimeAgents(chosen)[n].bases]), bases)

\* (mutant of RuntimeBases) what is named is what is searched.
RuntimeBases_Named(projectBases, chosen, bases, asked, remembered) ==
  NormalizeBases(IF asked # <<>> THEN asked ELSE remembered, bases)

\* _knowledge_base_ids_for_runtime: what the request or else the session names
\* only narrows what is allowed.
RuntimeBases(projectBases, chosen, bases, asked, remembered) ==
  LET allowed == AllowedBases(projectBases, chosen, bases)
      named == IF asked # <<>> THEN asked ELSE remembered
  IN IF named = <<>> THEN allowed
     ELSE SelectSeq(NormalizeBases(named, bases), LAMBDA b : b \in Range(allowed))

\* (mutant of Memberships) the base of the highest priority only.
Memberships_Best(items, doc, bases) ==
  Cut(SortSeq(SelectSeq(items, LAMBDA i : i.enabled /\ i.doc = doc /\ i.base \in DOMAIN bases
                                          /\ bases[i.base].enabled),
              LAMBDA a, b : a.priority > b.priority), 1)

\* One result of the vector search takes a slot of the first base, by priority,
\* that has one left for its document.
\* results: [doc, folder, blank, score]; items: [base, doc, priority, enabled]
Memberships(items, doc, bases) ==
  SortSeq(SelectSeq(items, LAMBDA i : i.enabled /\ i.doc = doc /\ i.base \in DOMAIN bases
                                      /\ bases[i.base].enabled),
          LAMBDA a, b : a.priority > b.priority)

\* (mutant of HasSlot) the limit of chunks is per base, not per document.
HasSlot_Docs(taken, bases, b, doc) ==
  LET docs == {taken[n].doc : n \in {n \in DOMAIN taken : taken[n].base = b}}
  IN doc \in docs \/ Cardinality(docs) < bases[b].docs

HasSlot(taken, bases, b, doc) ==
  LET own == {n \in DOMAIN taken : taken[n].base = b}
      docs == {taken[n].doc : n \in own}
  IN /\ doc \in docs \/ Cardinality(docs) < bases[b].docs
     /\ Cardinality({n \in own : taken[n].doc = doc}) < bases[b].chunks

\* _search_knowledge_base_context after the search; scores in thousandths.
SelectSnippets(results, items, bases, indexed, pinned, folders) ==
  LET Take(taken, r) ==
        LET open == SelectSeq(Memberships(items, r.doc, bases),
                              LAMBDA i : HasSlot(taken, bases, i.base, r.doc))
        IN IF \/ Len(taken) >= MaxContextDocuments
              \/ r.doc \notin indexed \/ (folders # {} /\ r.folder \notin folders)
              \/ open = <<>> \/ r.blank
           THEN taken
           ELSE Append(taken, [doc |-> r.doc, base |-> Head(open).base, folder |-> r.folder,
                               score |-> r.score + 15 * Head(open).priority
                                         + (IF r.doc \in pinned THEN 30 ELSE 0)])
  IN SortSeq(FoldLeft(Take, <<>>, results), LAMBDA a, b : a.score > b.score)

-----------------------------------------------------------------------------
(***************************************************************************)
(* Models: [id, provider, sends, enabled, default, abilities, cost], where *)
(* sends is the provider's own id of the model and cost[k], of the input   *)
(* and the output, is unset, zero or paid.  An agent may bring all three:  *)
(* [model, provider, sends, cost].                                         *)
(***************************************************************************)
EnabledModels(models) == SelectSeq(models, LAMBDA m : m.enabled)
DefaultModel(models) ==
  FirstOr(EnabledModels(models), LAMBDA m : m.default,
          IF EnabledModels(models) = <<>> THEN None ELSE Head(EnabledModels(models)))
GetModel(models, id) == FirstOr(EnabledModels(models), LAMBDA m : m.id = id, DefaultModel(models))

\* (mutant of GetForAgent) an agent without a price has none.
GetForAgent_OwnCost(models, agent, fallback) ==
  LET base == GetModel(models, IF agent # None /\ agent.model # None THEN agent.model ELSE fallback)
  IN IF agent = None \/ base = None THEN base
     ELSE [base EXCEPT !.provider = agent.provider, !.cost = agent.cost]

\* get_for_agent: the row the agent names, else that of the session, else the
\* default one - under the agent's own id, provider and prices, whatever row it is.
GetForAgent(models, agent, fallback) ==
  LET base == GetModel(models, IF agent # None /\ agent.model # None THEN agent.model ELSE fallback)
      Own(value, ofBase, unset) == IF value = unset THEN ofBase ELSE value
  IN IF agent = None \/ base = None THEN base
     ELSE [base EXCEPT !.id = Own(agent.model, @, None), !.provider = agent.provider,
                       !.sends = Own(agent.sends, @, None),
                       !.cost = [k \in DOMAIN @ |-> Own(agent.cost[k], @[k], "unset")]]

\* get_image_model and get_deep_research_model
ModelWith(models, ability, provider) ==
  LET able == SelectSeq(EnabledModels(models), LAMBDA m : ability \in m.abilities)
  IN FirstOr(able, LAMBDA m : m.provider = provider,
             IF able = <<>> THEN DefaultModel(models) ELSE Head(able))

\* The model of a turn: of the agent, of an image request (refused when it
\* cannot make images), or of a deep research.
TurnModel(models, agent, sessionModel, mode, research, imageModel) ==
  LET own == GetForAgent(models, agent, sessionModel)
      image == IF imageModel # None THEN GetModel(models, imageModel)
               ELSE ModelWith(models, "image", own.provider)
  IN IF own = None THEN None
     ELSE IF mode = "image" THEN (IF "image" \in image.abilities THEN image ELSE None)
     ELSE IF research THEN ModelWith(models, "research", "openai") ELSE own

\* has_configured_pricing
Priced(model) == \A k \in DOMAIN model.cost : model.cost[k] = "paid"

\* (mutant of BlockReason) the month's spending is not added.
BlockReason_Single(model, mode, research, summary, spend, estimate, budget, blocking) ==
  IF (mode = "image" \/ research \/ summary) /\ ~Priced(model) THEN "pricing_required"
  ELSE IF blocking /\ estimate > budget THEN "budget" ELSE None

\* The gates before the call, in the order of their messages.
BlockReason(model, mode, research, summary, spend, estimate, budget, blocking) ==
  IF research /\ ~Priced(model) THEN "deep_research_pricing_required"
  ELSE IF mode = "image" /\ ~Priced(model) THEN "image_generation_pricing_required"
  ELSE IF summary /\ ~Priced(model) THEN "reasoning_summary_pricing_required"
  ELSE IF summary /\ model.provider # "openai" THEN "reasoning_summary_provider_unsupported"
  ELSE IF blocking /\ spend + estimate > budget
       THEN IF estimate > budget THEN "estimated_request_above_monthly_budget"
            ELSE "estimated_monthly_budget_exceeded"
  ELSE None

-----------------------------------------------------------------------------
(***************************************************************************)
(* Tools: [id, enabled, dangerous]; an agent's tools and permissions       *)
(***************************************************************************)
\* (mutant of Permission) a permission of its own overrides the list of tools.
Permission_Own(tool, allowed, permissions, dangerousDefault) ==
  IF tool.id \in DOMAIN permissions THEN permissions[tool.id]
  ELSE IF ~tool.enabled \/ (allowed # {} /\ tool.id \notin allowed) THEN "deny"
  ELSE IF tool.dangerous THEN dangerousDefault ELSE "allow"

Permission(tool, allowed, permissions, dangerousDefault) ==
  IF ~tool.enabled \/ (allowed # {} /\ tool.id \notin allowed) THEN "deny"
  ELSE IF tool.id \in DOMAIN permissions THEN permissions[tool.id]
  ELSE IF tool.dangerous THEN dangerousDefault ELSE "allow"

\* execute_tool_request: behind the gate only rag.search has a runtime.
ExecuteTool(tool, allowed, permissions, dangerousDefault, approved) ==
  LET mode == Permission(tool, allowed, permissions, dangerousDefault)
  IN IF mode = "deny" THEN "denied"
     ELSE IF mode = "ask" /\ ~approved THEN "approval_required"
     ELSE IF tool.id = "rag.search" THEN "completed" ELSE "error"
=============================================================================
