----------------------------- MODULE ChatTopics -----------------------------
(***************************************************************************)
(* The pure parts of a chat turn, of the providers and of the imports over *)
(* bounded inputs, with what each answer is for.                           *)
(***************************************************************************)
EXTENDS Topics

Runtime == INSTANCE ChatRuntime WITH
  MaxContextDocuments <- 3, MaxKnowledgeBases <- 2, MaxContextProjects <- 2
Stream == INSTANCE ProviderStream WITH MaxPolls <- 2
Export == INSTANCE ExportFiles

-----------------------------------------------------------------------------
(***************************************************************************)
(* Agents, projects and knowledge bases of a turn                          *)
(***************************************************************************)
\* Three agents: JUDITE, another orchestrator, a specialist; each on or off.
Agent(id, orchestrator, enabled) ==
  [id |-> id, orchestrator |-> orchestrator, enabled |-> enabled, judite |-> id = "judite",
   projects |-> IF id = "judite" THEN {} ELSE {"p"},
   bases |-> IF id = "cad" THEN <<"b1", "b2", "b1">> ELSE <<"b3">>]
AgentCases ==
  [agents : {<<Agent("cad", FALSE, a), Agent("judite", b, c), Agent("boss", TRUE, d)>> :
               a \in BOOLEAN, b \in BOOLEAN, c \in BOOLEAN, d \in BOOLEAN} \cup {<<>>},
   selected : {"cad", "judite", "boss", None}, multi : BOOLEAN,
   requested : UpTo(2, {"cad", "judite", "boss", "unknown"})]

Able(agents) == {a \in Range(agents) : a.enabled /\ a.orchestrator}

\* chat.py: "este agente e o orquestrador obrigatorio do fluxo": every turn goes
\* through an enabled orchestrator if there is one, and an enabled agent that
\* the user chose is not lost on the way.
OrchestratorLeads ==
  Answered("agents") =>
    /\ Able(in.agents) # {} => out.primary \in Able(in.agents)
    /\ \A a \in Range(in.agents) :
         a.id = in.selected /\ a.enabled => a \in {out.primary} \cup Range(out.support)

\* The supporting agents are enabled, distinct, and never the primary one.
SupportIsSound ==
  Answered("agents") =>
    /\ IsInjective(out.support)
    /\ \A a \in Range(out.support) : a.enabled /\ a # out.primary

\* A turn of a session in a project: the agents as SelectAgents chose them.
Chosen(agents, selected) == Runtime!SelectAgents(agents, selected, <<"boss">>, TRUE)
ScopeCases ==
  [chosen : {Chosen(c.agents, c.selected) : c \in [agents : {a.agents : a \in AgentCases},
                                                   selected : {"cad", "judite", None}]},
   requested : {"general", "p", "deleted", None}, session : {"general", "p", "deleted"},
   known : {{"general", "p"}, {"general"}, {}}, asked : UpTo(2, {"b1", "b2", "gone"}),
   remembered : UpTo(1, {"b2", "b3"})]
Bases == "b1" :> [enabled |-> TRUE, docs |-> 1, chunks |-> 2]
         @@ "b2" :> [enabled |-> TRUE, docs |-> 2, chunks |-> 1]
         @@ "b3" :> [enabled |-> FALSE, docs |-> 2, chunks |-> 2]
         @@ "b4" :> [enabled |-> TRUE, docs |-> 1, chunks |-> 1]

Scope(c) ==
  LET allowed == Runtime!AllowedProjects(c.chosen, "general")
      active == Runtime!ActiveProject(c.requested, c.session, c.known, "general")
  IN [active |-> active, allowed |-> allowed,
      context |-> Runtime!ContextProject(active, c.session, c.known, "general", allowed),
      bases |-> Runtime!RuntimeBases(<<"b4">>, c.chosen, Bases, c.asked, c.remembered)]

\* A turn that passed the check of its active project takes its context from
\* that project and no other, unless the store lists no project at all.
ContextIsActiveProject ==
  Answered("scope") /\ out.active \in out.allowed =>
    /\ out.context \in out.allowed
    /\ in.known # {} => out.context = out.active

\* What a request or a session names never widens the knowledge bases that the
\* project and the agents of the turn give it.
BasesNeverWiden ==
  Answered("scope") =>
    LET own == {"b4"} \cup UNION {Range(a.bases) : a \in Range(Runtime!RuntimeAgents(in.chosen))}
    IN /\ Range(out.bases) \subseteq {b \in own : Bases[b].enabled}
       /\ IsInjective(out.bases) /\ Len(out.bases) <= 2
       /\ in.asked # <<>> => Range(out.bases) \subseteq Range(in.asked)

-----------------------------------------------------------------------------
(***************************************************************************)
(* The snippets of the vector search                                       *)
(***************************************************************************)
Hit(doc, folder, blank) == [doc |-> doc, folder |-> folder, blank |-> blank, score |-> 700]
Hits == {Hit("d1", "f", FALSE), Hit("d2", "f", FALSE), Hit("d2", "g", TRUE),
         Hit("d3", "g", FALSE), Hit("stale", "f", FALSE)}
Link(base, doc, priority, enabled) ==
  [base |-> base, doc |-> doc, priority |-> priority, enabled |-> enabled]
SearchCases ==
  [results : UpTo(4, Hits), folders : {{}, {"f"}},
   items : {<<Link("b1", "d1", 0, TRUE), Link("b2", "d1", 2, TRUE), Link("b1", "d2", 0, TRUE),
              Link("b1", "stale", 0, TRUE)>>,
            <<Link("b2", "d1", 0, TRUE), Link("b2", "d2", 0, TRUE), Link("b2", "d3", 0, FALSE),
              Link("b1", "d3", 1, TRUE), Link("b4", "d1", 0, TRUE)>>}]
Snippets(c) == Runtime!SelectSnippets(c.results, c.items, Bases, {"d1", "d2", "d3"}, {"d2"}, c.folders)

Taken(b) == {n \in DOMAIN out : out[n].base = b}
\* No base contributes more documents, and no document more chunks of a base,
\* than it allows; and every snippet is of a completed document (the stale one is
\* not) that an enabled item links to the base.
SnippetLimits ==
  Answered("search") =>
    /\ \A b \in DOMAIN Bases :
         /\ Cardinality({out[n].doc : n \in Taken(b)}) <= Bases[b].docs
         /\ \A n \in Taken(b) :
              Cardinality({k \in Taken(b) : out[k].doc = out[n].doc}) <= Bases[b].chunks
    /\ \A n \in DOMAIN out :
         /\ out[n].doc # "stale"
         /\ in.folders # {} => out[n].folder \in in.folders
         /\ \E i \in Range(in.items) : i.enabled /\ i.doc = out[n].doc /\ i.base = out[n].base

\* A usable result is left out only when the answer is full or every base that
\* links its document is.
NoSlotWasted ==
  Answered("search") /\ Len(out) < 3 =>
    \A r \in Range(in.results) :
      LET used == Cardinality({n \in DOMAIN out : out[n].doc = r.doc})
          usable == Cardinality({n \in DOMAIN in.results :
                      in.results[n].doc = r.doc /\ ~in.results[n].blank
                      /\ (in.folders = {} \/ in.results[n].folder \in in.folders)})
      IN used < usable /\ r.doc # "stale" =>
           \A i \in Range(in.items) : i.enabled /\ i.doc = r.doc =>
             \/ Cardinality({n \in Taken(i.base) : out[n].doc = r.doc}) = Bases[i.base].chunks
             \/ Cardinality({out[n].doc : n \in Taken(i.base)}) = Bases[i.base].docs

-----------------------------------------------------------------------------
(***************************************************************************)
(* Model, cost and permission gates                                        *)
(***************************************************************************)
Cost(input, output) == [input |-> input, output |-> output]
Model(id, provider, enabled, default, abilities, cost) ==
  [id |-> id, provider |-> provider, sends |-> id, enabled |-> enabled, default |-> default,
   abilities |-> abilities, cost |-> cost]
AgentLLM(model, provider, sends, cost) ==
  [model |-> model, provider |-> provider, sends |-> sends, cost |-> cost]
GateCases ==
  {c @@ l :
     c \in [models : {<<Model("gpt", "openai", a, d, {}, Cost("paid", "paid")),
                        Model("draw", "openai", b, FALSE, {"image"}, Cost("paid", p)),
                        Model("gem", "google", c, ~d, {"image", "research"}, Cost("paid", p))>> :
                        a \in BOOLEAN, b \in BOOLEAN, c \in BOOLEAN, d \in BOOLEAN,
                        p \in {"paid", "zero"}},
            agent : {None} \cup {AgentLLM(m, v, IF x = Cost("unset", "unset") THEN None ELSE "own", x) :
                                   m \in {"gem", "gone", None}, v \in {"openai", "google"},
                                   x \in {Cost("unset", "unset"), Cost("unset", "zero"),
                                          Cost("paid", "paid")}},
            session : {"gem", None}, mode : {"text", "image"}, research : BOOLEAN,
            image : {"draw", "gpt", None}, summary : BOOLEAN],
     l \in {[spend |-> 0, estimate |-> 1], [spend |-> 2, estimate |-> 1], [spend |-> 2, estimate |-> 4]}}
Gate(c) ==
  LET model == Runtime!TurnModel(c.models, c.agent, c.session, c.mode, c.research, c.image)
  IN [model |-> model,
      reason |-> IF model = None THEN "no model"
                 ELSE Runtime!BlockReason(model, c.mode, c.research, c.summary, c.spend, c.estimate,
                                          3, TRUE)]

\* Whether the call is made with the agent's own settings over row m.
OverlaidBy(agent, m, model) ==
  /\ model.provider = agent.provider
  /\ model.sends \in {agent.sends, m.sends} /\ (agent.sends # None => model.sends = agent.sends)
  /\ \A k \in DOMAIN m.cost :
       model.cost[k] = IF agent.cost[k] = "unset" THEN m.cost[k] ELSE agent.cost[k]

\* A call that is let through has an enabled row behind it, for an image one that
\* makes images.  An image or a research is that row's; a text call may be the agent's
\* own provider, model and prices over it, also when the row the agent names is
\* disabled or gone (README, section 6).  Its cost is known when the mode needs
\* it - of what is called - and within the budget with what the month has spent.
PassedGateIsPayable ==
  Answered("gate") /\ out.reason = None =>
    /\ \E m \in Range(in.models) :
         /\ m.enabled /\ m.abilities = out.model.abilities
         /\ IF in.mode = "image" \/ in.research \/ in.agent = None THEN out.model = m
            ELSE OverlaidBy(in.agent, m, out.model)
    /\ in.mode = "image" => "image" \in out.model.abilities
    /\ in.mode = "image" \/ in.research \/ in.summary =>
         out.model.cost.input = "paid" /\ out.model.cost.output = "paid"
    /\ in.spend + in.estimate <= 3
    /\ in.summary => out.model.provider = "openai"

ToolCases ==
  [tool : {[id |-> t, enabled |-> e, dangerous |-> t # "rag.search"] :
             t \in {"rag.search", "python.run"}, e \in BOOLEAN},
   allowed : {{}, {"rag.search"}, {"python.run"}},
   permissions : {<<>>} \cup [{"python.run"} -> {"allow", "ask", "deny"}]
                 \cup [{"rag.search"} -> {"ask", "deny"}],
   default : {"allow", "ask", "deny"}, approved : BOOLEAN]

\* tools/runtime.py: "an enabled-but-unsandboxed tool can never execute"; and
\* nothing denied, or unapproved where approval is asked, gets past the gate.
OnlySafeToolsRun ==
  Answered("tool") =>
    /\ out = "completed" => in.tool.id = "rag.search" /\ in.tool.enabled
    /\ out \in {"completed", "error"} =>
         /\ in.allowed = {} \/ in.tool.id \in in.allowed
         /\ in.tool.id \in DOMAIN in.permissions =>
              in.permissions[in.tool.id] = "allow" \/ (in.permissions[in.tool.id] = "ask" /\ in.approved)
         /\ in.tool.id \notin DOMAIN in.permissions /\ in.tool.dangerous =>
              in.default = "allow" \/ (in.default = "ask" /\ in.approved)

-----------------------------------------------------------------------------
(***************************************************************************)
(* Providers                                                               *)
(***************************************************************************)
Line(kind, text) == [kind |-> kind, text |-> text]
Lines == {Line("text", "a"), Line("text", "b"), Line("delta", "s"), Line("delta", ""),
          Line("summary", "sum"), Line("broken", ""), Line("end", "")}
StreamCases == [lines : UpTo(5, Lines)]
Before(lines, n) == \A k \in 1 .. n : lines[k].kind # "end"

\* The answer is exactly the text events, in order and whatever lies between
\* them; the summary arrives once, in pieces or whole.
StreamIsFaithful ==
  Answered("stream") =>
    LET tokens == SelectSeq(out.openai, LAMBDA e : e.kind = "token")
        pieces == {n \in DOMAIN in.lines : Before(in.lines, n) /\ in.lines[n].kind = "delta"}
        wholes == {n \in DOMAIN in.lines : Before(in.lines, n) /\ in.lines[n].kind = "summary"}
        summaries == SelectSeq(out.openai, LAMBDA e : e.kind = "summary")
    IN /\ Len(tokens) = Cardinality({n \in DOMAIN in.lines :
                                       Before(in.lines, n) /\ in.lines[n].kind = "text"})
       /\ [n \in DOMAIN tokens |-> tokens[n].text] =
            SubSeq([n \in DOMAIN out.plain |-> out.plain[n].text], 1, Len(tokens))
       /\ wholes # {} /\ pieces = {} => Len(summaries) = Cardinality(wholes)
       /\ pieces # {} /\ Min(pieces) = 1 =>
            \A n \in DOMAIN summaries : summaries[n].text # "sum"

Research == {"queued", "completed", "failed", "http error"}
ResearchCases ==
  [first : {"queued", "completed", "no id", "http error"}, text : {"", "answer"},
   polls : UpTo(3, Research), dev : BOOLEAN]
ResearchOf(c) ==
  LET r == Stream!DeepResearch(c.first, c.text, c.polls)
  IN r @@ [answer |-> Stream!AnswerOf(r.out, r.end, c.dev)]

\* A deep research stops after its polls at the latest, reads no poll after the
\* one that settled it, and always leaves something in the answer but when the
\* provider itself completed with nothing.
ResearchEnds ==
  Answered("research") =>
    /\ out.polls <= 2
    /\ \A n \in 1 .. out.polls - 1 : in.polls[n] = "queued"
    /\ out.end = "done" => "completed" \in Range(in.polls) \cup {in.first}
    /\ out.end = "polling" => FALSE
    /\ out.end # "done" => Last(out.answer) \in {"dev", "error"}

-----------------------------------------------------------------------------
(***************************************************************************)
(* Exports and files                                                       *)
(***************************************************************************)
Objects == {<<"{", "}">>, <<"{", "q", "}", "q", "}">>, <<"{", "q", "b", "q", "]", "q", "}">>,
            <<"{", "{", "}", "x", "}">>, <<"{", "q", "b", "b", "q", "}">>}
Gap == {<<>>, <<"s">>}
Stray == {<<"c">>, <<"x">>}
Text(c) == c.lead \o <<"[">> \o FlattenSeq([n \in DOMAIN c.objects |-> c.objects[n] \o c.gap])
           \o <<"]">> \o c.tail
ScanCases ==
  {c @@ [cut |-> k] :
     c \in [objects : UpTo(3, Objects), lead : {<<>>, <<"s">>, <<"c">>}, gap : Gap \cup {<<"c">>},
            tail : Gap \cup Stray],
     k \in {0, 1, 2, 3, 5}}
ScanOf(c) == LET t == Text(c) IN Export!ScanText(SubSeq(t, 1, Len(t) - Min({c.cut, Len(t)})))

\* Scanning gives back the objects that were written, braces and quotes in their
\* strings included; an export that was cut, or has anything but space around its
\* array, is refused, and what was yielded before that is a prefix of its objects.
ScanInvertsWriting ==
  Answered("scan") =>
    LET rest == Len(in.tail) + 1
        led == in.lead # <<"c">>
        spoilt == in.tail \in Stray /\ in.cut = 0
    IN /\ IsPrefix(out.out, in.objects)
       /\ in.cut < rest => out.out = IF led THEN in.objects ELSE <<>>
       /\ out.whole <=> in.cut < rest /\ led /\ ~spoilt

NodeIds == {"r", "a", "b"}
BranchCases ==
  [parent : [NodeIds -> NodeIds \cup {None}], current : NodeIds \cup {None},
   created : [NodeIds -> {None, 1, 2}]]
BranchOf(c) == Export!OrderedNodes(c.parent, c.current, c.created)

\* The branch of the current node ends in it, follows the parents and visits no
\* node twice, even when the parents form a cycle; without a current node every
\* node comes, in the order of its time.
BranchFollowsParents ==
  Answered("branch") =>
    /\ IsInjective(out)
    /\ in.current \in NodeIds =>
         /\ Last(out) = in.current
         /\ \A n \in 1 .. Len(out) - 1 : in.parent[out[n + 1]] = out[n]
         /\ in.parent[out[1]] \notin NodeIds \ Range(out)
    /\ in.current = None =>
         /\ Range(out) = NodeIds
         /\ \A n \in 1 .. Len(out) - 1 :
              \/ in.created[out[n + 1]] = None
              \/ in.created[out[n]] # None /\ in.created[out[n]] <= in.created[out[n + 1]]

Entry(path, base, crc, skip) ==
  [path |-> path, base |-> base, size |-> 5, crc |-> crc, skip |-> skip]
Entries == {Entry("d/a", <<"a">>, 1, FALSE), Entry("e/a", <<"a">>, 1, FALSE),
            Entry("f/a", <<"a">>, 2, FALSE), Entry("g/a1", <<"a", 1>>, 3, FALSE),
            Entry("chat.html", <<"chat">>, 4, TRUE)}
Upload(sum) == [id |-> 1, path |-> "up", original |-> <<"a">>, name |-> <<"a">>, size |-> 5,
                sum |-> sum, crc |-> None, duplicate |-> None]
EntryCases == [files : {<<>>, <<Upload(9)>>}, entries : UpTo(4, Entries)]
EntriesOf(c) == Export!RegisterEntries(c.files, c.entries)

\* Every entry of an archive gets one row under a name of its own, informational
\* files none; registering the archive again adds nothing; and a row is called a
\* duplicate only of an earlier row whose content may be the same.
EntriesRegisteredOnce ==
  Answered("entries") =>
    /\ {out[n].path : n \in DOMAIN out} \ {"up"} = {e.path : e \in {e \in Range(in.entries) : ~e.skip}}
    /\ IsInjective([n \in DOMAIN out |-> out[n].path])
    /\ IsInjective([n \in DOMAIN out |-> out[n].name])
    /\ Export!RegisterEntries(out, in.entries) = out
    /\ \A n \in DOMAIN out : out[n].duplicate # None =>
         /\ out[n].duplicate < n
         /\ out[out[n].duplicate].crc \in {None, out[n].crc}

Images == {[kind |-> k, url |-> u] : k \in {"data", "remote"}, u \in {1, 2}} \cup {[kind |-> "local", url |-> 3]}
ImageCases == [images : UpTo(4, Images), bad : {{}, {2}}]
ImagesOf(c) == Export!StoreImages(c.images, c.bad)

\* Every image of an answer that could be fetched is stored, a remote one once
\* however often it appears, and a local link is left alone.
ImagesStoredOnce ==
  Answered("images") =>
    LET remote == {i.url : i \in {i \in Range(in.images) : i.kind = "remote"}} \ in.bad
        data == {n \in DOMAIN in.images : in.images[n].kind = "data" /\ in.images[n].url \notin in.bad}
    IN /\ out.files = Cardinality(remote) + Cardinality(data)
       /\ Range(out.links) \ {None} = 1 .. out.files

-----------------------------------------------------------------------------
\* A turn stays in its scope and makes the best of it: its agents, its project,
\* the bases these allow, and the snippets that fit.
TurnIsScoped ==
  /\ OrchestratorLeads /\ SupportIsSound
  /\ ContextIsActiveProject /\ BasesNeverWiden
  /\ SnippetLimits /\ NoSlotWasted

\* Nothing is called or run that a gate has to stop.
GatesHold == PassedGateIsPayable /\ OnlySafeToolsRun

\* A provider's answer arrives whole, and waiting for it ends.
AnswerArrives == StreamIsFaithful /\ ResearchEnds

\* What an export or an answer contains is found, in its order, and stored once.
ArchiveIsRead ==
  ScanInvertsWriting /\ BranchFollowsParents /\ EntriesRegisteredOnce /\ ImagesStoredOnce

ChatInputs ==
  \/ Input("agents", AgentCases) \/ Input("scope", ScopeCases)
  \/ Input("search", SearchCases) \/ Input("gate", GateCases)
  \/ Input("tool", ToolCases) \/ Input("stream", StreamCases)
  \/ Input("research", ResearchCases) \/ Input("scan", ScanCases)
  \/ Input("branch", BranchCases) \/ Input("entries", EntryCases)
  \/ Input("images", ImageCases)

ChatAnswers ==
  \/ Answer("agents", Runtime!SelectAgents(in.agents, in.selected, in.requested, in.multi))
  \/ Answer("scope", Scope(in))
  \/ Answer("search", Snippets(in))
  \/ Answer("gate", Gate(in))
  \/ Answer("tool", Runtime!ExecuteTool(in.tool, in.allowed, in.permissions, in.default, in.approved))
  \/ Answer("stream", [openai |-> Stream!OpenAIStream(in.lines), plain |-> Stream!PlainStream(in.lines)])
  \/ Answer("research", ResearchOf(in))
  \/ Answer("scan", ScanOf(in))
  \/ Answer("branch", BranchOf(in))
  \/ Answer("entries", EntriesOf(in))
  \/ Answer("images", ImagesOf(in))
=============================================================================
