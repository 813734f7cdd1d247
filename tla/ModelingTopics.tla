--------------------------- MODULE ModelingTopics ---------------------------
(***************************************************************************)
(* The pure parts of the 3D modelling over bounded inputs: the plan and    *)
(* its gates, the measured placement, and the reports on the model.        *)
(***************************************************************************)
EXTENDS Topics

Tools == "add_box" :> "additive" @@ "query_geometry" :> "read_only"
         @@ "combine_bodies" :> "high_risk" @@ "delete_body" :> "destructive"
         @@ "joint" :> "mutative" @@ "distribute_along" :> "additive"
         @@ "relate_bodies" :> "additive" @@ "run_script" :> "high_risk"
Policy == INSTANCE PlanPolicy WITH
  Category <- Tools, Software <- [t \in DOMAIN Tools |-> "fusion"],
  Blocked <- {"run_script", "shell"}, Internal <- {"run_script"},
  Spatial <- {"distribute_along"}, Relation <- {"relate_bodies"},
  Distribute <- "distribute_along", GhostKeys <- {"face", "surface"},
  GhostExceptions <- ("trim" :> {"surface"}),
  Heuristic <- [fusion |-> <<"query_geometry", "add_box">>, blender |-> <<"add_box">>]
Place == INSTANCE Placement WITH AlignModes <- TRUE
Critique == INSTANCE ModelCritique
Records == INSTANCE Provenance

-----------------------------------------------------------------------------
(***************************************************************************)
(* From a request to what is dispatched                                    *)
(***************************************************************************)
Flags == {{}, {"spatial"}, {"spatial", "relation"}, {"spatial", "relation", "sanitizer"}}
ArgSets == {<<>>, "alternate" :> "plain"}
Items == [tool : {"add_box", "delete_body", "distribute_along", "relate_bodies", "run_script"},
          risk : {"low", "high", "odd"}, ask : BOOLEAN, args : ArgSets]
Planned(item) == [software |-> "fusion", steps |-> <<item>>]
Bad == [software |-> "solidworks", steps |-> <<[tool |-> "add_box"]>>]
Corrections == [tool : {"add_box", "delete_body", "combine_bodies", "distribute_along", "run_script"},
                args : ArgSets] \cup {None}
PlanCases ==
  [mode : {"plan_only", "approval_required"}, override : {None, "fusion", "blender"},
   answers : {<<Bad, Planned(i)>> : i \in Items} \cup {<<None, None>>},
   flags : Flags, approve : BOOLEAN, correction : Corrections]

Course(c) ==
  LET payload == [mode |-> c.mode, override |-> c.override, fusion |-> 0, blender |-> 0]
      plan == Policy!ApplyPolicy(Policy!BuildPlan("gpt", payload, c.answers, c.flags).plan)
      run == Policy!ApplyApproval(plan, c.approve)
      corrected == [n \in DOMAIN run.steps |-> Policy!CorrectedStep(run.steps[n], c.correction, c.flags)]
      tries == {<<run.steps[n], "planned">> : n \in DOMAIN run.steps}
               \cup {<<corrected[n], "corrected">> : n \in {n \in DOMAIN corrected : corrected[n] # None}}
  IN [plan |-> plan, again |-> Policy!ApplyPolicy(plan), status |-> run.status,
      sent |-> {[step |-> t[1], tools |-> Policy!Dispatched(t[1], c.flags), as |-> t[2]] : t \in tries}]

\* policy.py: "The function is idempotent"; and outside plan_only a plan waits
\* for a human exactly while one of its steps does.
PolicySettles ==
  Answered("plan") =>
    /\ out.again = out.plan
    /\ in.mode # "plan_only" =>
         (out.plan.status = "waiting" <=> \E n \in DOMAIN out.plan.steps : out.plan.steps[n].status = "waiting")

\* No way through the planner, the policy, a correction or the expansion of a
\* declarative step lets a tool that destroys, joins bodies or is blocked run,
\* unless it is for a step that a human was shown and approved.
NothingDangerousUnapproved ==
  Answered("plan") /\ out.status = "approved" =>
    \A s \in out.sent : (\E n \in DOMAIN s.tools : Policy!Dangerous(s.tools[n])) => s.step.disclosed

\* What reaches the host is a tool of the planner's set under the flags of the
\* moment, or what one became: no hidden tool, and no declarative step as such.
OnlyVisibleToolsRun ==
  Answered("plan") =>
    \A s \in out.sent : Range(s.tools) \subseteq
      (Policy!Toolset(in.flags) \ {"distribute_along", "relate_bodies"})

-----------------------------------------------------------------------------
(***************************************************************************)
(* References in the arguments                                             *)
(***************************************************************************)
KindOf == "center" :> "point" @@ "axis" :> "axis" @@ "axis_line" :> "axis" @@ "gap" :> "scalar"
          @@ "points" :> "other" @@ "face" :> "other" @@ "surface" :> "other"
RefCases ==
  [args : UNION {[K -> {"plain", "raw", "at", "later"}] :
                   K \in {K \in SUBSET DOMAIN KindOf : Cardinality(K) <= 3}},
   tool : {"extrude", "trim", "query_geometry"}, spatial : BOOLEAN]
\* What each kind of field selects when its reference is well formed.
Selected(kind) == IF kind = "other" THEN "vector" ELSE Place!Takes[kind]
Sent(c) ==
  LET flags == {"sanitizer"} \cup (IF c.spatial THEN {"spatial"} ELSE {})
      clean == Policy!Sanitize(c.tool, c.args, flags)
      typed == [k \in DOMAIN clean |->
                  [kind |-> KindOf[k], ref |-> CASE clean[k] = "plain" -> None
                                                 [] clean[k] = "at" -> Selected(KindOf[k])
                                                 [] OTHER -> clean[k]]]
  IN [clean |-> clean, again |-> Policy!Sanitize(c.tool, clean, flags),
      args |-> IF c.spatial THEN Place!ResolveStep(typed, Policy!IsCategory(c.tool, "read_only")) ELSE {typed}]

\* spatial_resolver.py: a reference left over "seria despachada CRUA ao Fusion":
\* with the sanitizer on, what is dispatched for a planned step that changes the
\* design carries no reference, and what only reads it carries one only where
\* the resolver is on.  The exception is an expression in which the reference
\* comes later, which the sanitizer then spares and the resolver does not see.
NoRefDispatched ==
  Answered("refs") =>
    /\ out.again = out.clean
    /\ \A args \in out.args : \A k \in DOMAIN args :
         /\ \/ args[k].ref = None
            \/ in.spatial /\ args[k].ref = "later"
            \/ in.spatial /\ in.tool = "query_geometry" /\ args[k].ref # "raw"
         /\ k # "axis_line" /\ (k = "surface" => in.tool = "trim")

-----------------------------------------------------------------------------
(***************************************************************************)
(* Whether to ask                                                          *)
(***************************************************************************)
AssessCases ==
  [answer : [ready : BOOLEAN, confidence : 0 .. 2, questions : 0 .. 2, brief : {"brief"},
             intent : {"edit", "new_model", "other"}] \cup {None},
   model : {"gpt", None}, existing : BOOLEAN]

\* The chat always goes on: a request that is not planned leaves the user a
\* question, one that is planned a brief and none, and nothing is edited where
\* no model exists.
AskOrPlan ==
  Answered("assess") =>
    /\ ~out.ready <=> out.questions > 0
    /\ out.ready => out.brief # None
    /\ ~in.existing => out.intent = "new_model"

-----------------------------------------------------------------------------
(***************************************************************************)
(* Boxes, their faces and their edges                                      *)
(***************************************************************************)
SideList == <<<<3, 1>>, <<3, -1>>, <<1, 1>>, <<1, -1>>, <<2, 1>>, <<2, -1>>>>
Sides == Range(SideList)
\* The planar face of a box on one side; a host may have read its normal either way.
SideFace(name, lo, hi, side, sign, open) ==
  LET across == {i \in 1 .. 3 : i # side[1]}
      i == Min(across)
      j == Max(across)
  IN [token |-> <<name, side>>, type |-> "planar", normal |-> [axis |-> side[1], sign |-> sign],
      center |-> [k \in 1 .. 3 |-> IF k # side[1] THEN (lo[k] + hi[k]) \div 2
                                   ELSE IF side[2] = 1 THEN hi[k] ELSE lo[k]],
      area |-> (hi[i] - lo[i]) * (hi[j] - lo[j]), radius |-> None, open |-> open]

\* bottom is the sign that was read for the face below.
Box(name, lo, size, bottom, opened) ==
  LET hi == [i \in 1 .. 3 |-> lo[i] + size[i]]
      face(side) == SideFace(name, lo, hi, side, IF side = <<3, -1>> THEN bottom ELSE side[2],
                             opened /\ side = <<3, 1>>)
  IN [name |-> name, id |-> None, lo |-> lo, hi |-> hi, edges |-> <<>>,
      faces |-> [n \in 1 .. 6 |-> face(SideList[n])]]
Named(state, name) == CHOOSE b \in Range(state) : b.name = name
Disjoint(a, b) == Place!OverlapVolume(a, b) = 0
Moved(state, moves) ==
  FoldLeft(LAMBDA s, m : Place!MoveBody(s, m.body, m.delta), state, moves)

-----------------------------------------------------------------------------
(***************************************************************************)
(* A lid or a part onto a base: derived, resolved, moved, measured         *)
(***************************************************************************)
Sizes == {<<40, 40, 8>>, <<20, 60, 30>>}
\* The open top of a base may be off its centre, as that of a container with a
\* shelf: then its face is centred there.
Base(size, opened, off) ==
  LET b == Box("Base", <<0, 0, 0>>, size, -1, opened)
  IN [b EXCEPT !.faces = [n \in DOMAIN @ |->
        IF @[n].token[2] = <<3, 1>> THEN [@[n] EXCEPT !.center = [@ EXCEPT ![1] = @ + off]] ELSE @[n]]]
MateCases ==
  [kind : {"flush_mate", "cover_opening"}, part : Sizes, base : Sizes \cup {<<200, 80, 40>>},
   at : {<<0, 0, 60>>, <<-30, 50, -10>>, <<10, 0, 4>>}, bottom : {-1, 0, 1}, off : {0, 60},
   far : BOOLEAN, role : {None, "top_planar"}]
Scene(c) ==
  <<Box("Part", c.at, c.part, c.bottom, FALSE), Base(c.base, c.kind = "cover_opening", c.off)>>
    \o IF c.far THEN <<Box("Other", <<900, 900, 0>>, <<20, 20, 20>>, -1, FALSE)>> ELSE <<>>
Relation(c) == [kind |-> c.kind, moving |-> "Part", reference |-> "Base",
                roles |-> [moving |-> None, reference |-> c.role], axis |-> None]
MateOf(c) ==
  LET scene == Scene(c)
      moves == Place!ResolveRelation(Relation(c), scene)
      after == IF moves = {} THEN scene ELSE Moved(scene, Place!Only(moves))
      gate == moves = {} \/ \A m \in Range(Place!Only(moves)) : Place!EnforceRelative(scene, m.body, m.delta)
  IN [moves |-> moves, after |-> after, again |-> Place!ResolveRelation(Relation(c), after),
      report |-> Place!VerifyRelation(Relation(c), after), gate |-> gate]

\* A flush relation is never refused for plain bodies, whichever way the host read
\* the normal of the face below, and after its one move the measured contact is
\* the one that was asked for; the exception is a target so far off the centre of
\* its body that the measure takes the mate for a sideways one.
FlushTouches ==
  Answered("mate") =>
    /\ out.moves # {}
    /\ out.report.ok \/ Place!MateAxis(Named(out.after, "Part"), Named(out.after, "Base")) # 3

\* A relation that holds is left alone when it is asked for again.
RelationSettles == Answered("mate") => out.again = {<<>>}

\* The move that closes a contact passes the gate that refuses moves into another
\* body or away from all of them, and a body far away does not change that.
GateAcceptsContact == Answered("mate") /\ in.off = 0 => out.gate

GapCases ==
  [align : {"center", "coplanar", "gap", "edge", "corner"}, gap : {0, 6}, side : Sides,
   part : Sizes, at : {<<0, 0, 90>>, <<-70, 51, -40>>}, flat : BOOLEAN]
\* The face of the part that looks at the chosen side of the base.
GapScene(c) ==
  LET base == Box("Base", <<0, 0, 0>>, <<40, 60, 20>>, -1, FALSE)
      blurred == [base EXCEPT !.faces = [n \in DOMAIN @ |->
                    IF @[n].token[2] = c.side THEN [@[n] EXCEPT !.normal = None] ELSE @[n]]]
  IN <<Box("Part", c.at, c.part, -1, FALSE), IF c.flat THEN base ELSE blurred>>
Placing(c) ==
  [body |-> "Part", align |-> c.align, gap |-> c.gap, flush |-> TRUE,
   anchor |-> [by |-> "token", token |-> <<"Part", <<c.side[1], -c.side[2]>>>>],
   target |-> [by |-> "token", token |-> <<"Base", c.side>>]]
GapOf(c) ==
  LET scene == GapScene(c)
      moves == Place!ExpandPlaceBody(Placing(c), scene)
      after == IF moves = {} THEN scene ELSE Moved(scene, Place!Only(moves))
  IN [moves |-> moves, after |-> after, again |-> Place!ExpandPlaceBody(Placing(c), after)]

\* On every side of the base the part ends outside it, at the distance that was
\* asked for along the normal of the target, and a second request moves nothing.
GapIsOutside ==
  Answered("gap") /\ in.flat /\ out.moves # {} =>
    LET part == Named(out.after, "Part")
        base == Named(out.after, "Base")
        axis == in.side[1]
        apart == IF in.side[2] = 1 THEN part.lo[axis] - base.hi[axis] ELSE base.lo[axis] - part.hi[axis]
    IN /\ out.again = {<<>>}
       /\ Disjoint(part, base)
       /\ apart = IF in.align = "gap" THEN in.gap ELSE 0
       /\ in.align = "corner" => \A i \in (1 .. 3) \ {axis} : part.lo[i] = base.lo[i]

-----------------------------------------------------------------------------
(***************************************************************************)
(* Contacts that are measured and repaired                                 *)
(***************************************************************************)
PairCases ==
  [size : {<<20, 20, 20>>, <<60, 60, 8>>, <<10, 10, 60>>},
   lo : {<<x, y, z>> : x \in {0, 10, 36, 40, 48}, y \in {0, 30}, z \in {-40, -8, 0, 4, 24, 28, 90}}]
PairOf(c) ==
  LET a == Box("A", <<0, 0, 0>>, <<40, 40, 24>>, -1, FALSE)
      b == Box("B", c.lo, c.size, -1, FALSE)
      spec == [kind |-> "flush_mate", moving |-> "B", reference |-> "A"]
      report == Place!VerifyRelation(spec, <<a, b>>)
      offset == Place!ProposeRepair(report, spec)
      axis == Place!MateAxis(b, a)
      side == IF Place!Center(b)[axis] >= Place!Center(a)[axis] THEN 1 ELSE -1
  IN [a |-> a, b |-> b, report |-> report, offset |-> offset, axis |-> axis,
      fixed |-> IF offset = None THEN b
                ELSE Place!Shifted(b, [i \in 1 .. 3 |-> IF i = axis THEN side * offset ELSE 0])]

\* The proposed offset ends the gap or the penetration that was reported, unless
\* the move itself makes another axis the one between the centres.
RepairCloses ==
  Answered("pair") =>
    /\ out.offset = None <=> out.report.ok
    /\ Place!MateAxis(out.fixed, out.a) = out.axis =>
         Place!VerifyRelation([kind |-> "flush_mate", moving |-> "B", reference |-> "A"],
                              <<out.a, out.fixed>>).ok

\* What the planner is told of two bodies does not depend on which comes first.
TouchesSymmetric ==
  Answered("pair") =>
    /\ Place!Touches(out.a, out.b) <=> Place!Touches(out.b, out.a)
    /\ Place!Interferes(out.a, out.b) <=> Place!Interferes(out.b, out.a)

-----------------------------------------------------------------------------
(***************************************************************************)
(* Faces and edges that are described instead of named                     *)
(***************************************************************************)
\* Three horizontal faces of a body, and two readings of their heights.
FaceCases == [heights : [1 .. 3 -> 0 .. 3], one : [1 .. 3 -> -1 .. 1], two : [1 .. 3 -> {-1, 1}]]
Reading(heights, noise, role) ==
  {f.token : f \in Place!FaceByRole(role,
     {[token |-> n, type |-> "planar", normal |-> [axis |-> 3, sign |-> 1], area |-> 400, radius |-> None,
       center |-> <<0, 0, heights[n] + noise[n]>>, open |-> FALSE] : n \in 1 .. 3})}
FaceOf(c) == [role \in {"top_planar", "bottom_planar"} |->
                <<Reading(c.heights, c.one, role), Reading(c.heights, c.two, role)>>]

\* Two readings of one model, each within half the tolerance of it, never name
\* different faces: what is too close to call is refused.
StableUnderNoise ==
  Answered("face") =>
    \A role \in DOMAIN out :
      LET both == out[role][1] \cup out[role][2]
      IN Cardinality(both) <= 1 /\ \A t \in both : \A n \in 1 .. 3 :
           IF role = "top_planar" THEN in.heights[t] >= in.heights[n] ELSE in.heights[t] <= in.heights[n]

\* The edges of a box, one of them in pieces.
EdgeList(size) ==
  LET along(i, j, k, corner) ==
        LET from == [a \in 1 .. 3 |-> CASE a = i -> 0 [] a = j -> corner[1] * size[j] [] OTHER -> corner[2] * size[k]]
        IN [token |-> <<i, corner>>, straight |-> TRUE, from |-> from, to |-> [from EXCEPT ![i] = size[i]]]
      four(i, j, k) == <<along(i, j, k, <<0, 0>>), along(i, j, k, <<0, 1>>),
                         along(i, j, k, <<1, 0>>), along(i, j, k, <<1, 1>>)>>
  IN four(1, 2, 3) \o four(2, 1, 3) \o four(3, 1, 2)
Pieces(e, cuts) ==
  LET axis == CHOOSE i \in 1 .. 3 : e.from[i] # e.to[i]
      at(n) == [e.from EXCEPT ![axis] = (n * e.to[axis]) \div cuts]
  IN [n \in 1 .. cuts |-> [e EXCEPT !.token = Append(@, n), !.from = at(n - 1), !.to = at(n)]]
\* Two words of a role: sides of two axes, or one side and its opposite.
Words == {[i \in 1 .. 3 |-> CASE a[1] = b[1] -> 0 [] i = a[1] -> a[2] [] i = b[1] -> b[2] [] OTHER -> 0] :
            <<a, b>> \in {p \in Sides \X Sides : p[1] # p[2]}}
EdgeCases == [size : {<<40, 60, 20>>, <<40, 40, 40>>, <<60, 20, 120>>}, edge : 1 .. 12, cuts : {2, 4},
              words : Words]
EdgeOf(c) ==
  LET whole == EdgeList(c.size)
      cut == SubSeq(whole, 1, c.edge - 1) \o Pieces(whole[c.edge], c.cuts) \o SubSeq(whole, c.edge + 1, 12)
  IN [whole |-> Place!EdgeByRole([edges |-> whole], c.words), cut |-> Place!EdgeByRole([edges |-> cut], c.words)]

\* spatial_resolver.py: cutting an edge into collinear pieces, as a boolean
\* does, does not change which edge two words name, nor its ends; words that
\* contradict each other name none.
EdgeSurvivesSplits ==
  Answered("edge") =>
    LET ends(S) == {{e.from, e.to} : e \in S}
    IN /\ out.whole = {} <=> \A i \in 1 .. 3 : in.words[i] = 0
       /\ Cardinality(out.whole) <= 1 /\ ends(out.cut) = ends(out.whole)

DistributeCases ==
  [count : 0 .. 5, spacing : {None, 2, 8}, fit : BOOLEAN, bore : BOOLEAN, length : {8, 24},
   alternate : {<<>>, <<"A", "B">>, <<"A", "A">>, <<"A", "B", "C">>}]
DistributeOf(c) ==
  Place!ExpandDistribute([count |-> c.count, spacing |-> c.spacing, fit |-> c.fit, bore |-> c.bore,
                          alternate |-> c.alternate], [from |-> <<0, 0, 0>>, to |-> <<c.length, 0, 0>>])

\* The nodes are evenly spaced, within the edge and centred on it, and at the
\* spacing that was asked for; every body a step joins was added before and is
\* joined once; and with parents no node is left loose.
DistributeUsesAll ==
  Answered("distribute") =>
    \A steps \in out :
      LET adds == {n \in DOMAIN steps : steps[n].tool = "add"}
          joins == DOMAIN steps \ adds
          at(n) == steps[n].at
          unit == IF in.count = 1 THEN 2 ELSE 2 * (in.count - 1)
      IN /\ \A n \in 1 .. in.count :
              /\ at(n) >= 0 /\ at(n) <= unit * in.length
              /\ at(n) + at(in.count + 1 - n) = unit * in.length
              /\ n > 1 /\ in.spacing # None /\ ~in.fit => at(n) - at(n - 1) = unit * in.spacing
         /\ \A n \in joins : \A name \in steps[n].tools :
              /\ \E k \in adds : k < n /\ steps[k].name = name
              /\ \A k \in joins \ {n} : name \notin steps[k].tools
         /\ in.alternate # <<>> => \A k \in adds : \E n \in joins : steps[k].name \in steps[n].tools

-----------------------------------------------------------------------------
(***************************************************************************)
(* The reports                                                             *)
(***************************************************************************)
\* Bodies by handle; nothing read and an empty design are the same.
Designs == {None} \cup UNION {[S -> {[size |-> 1, faces |-> {"f"}], [size |-> 2, faces |-> {}]}] :
                                S \in {{"h"}, {"k"}, {"h", "k"}}}
HistoryCases == [states : [1 .. 4 -> Designs], categories : {<<a, b, c>> :
                   a \in {"additive"}, b \in {"high_risk", "additive"}, c \in {"destructive", "additive"}}]
BodiesIn(design) == IF design = None THEN {} ELSE DOMAIN design
HistoryOf(c) ==
  LET record(n) == Records!BuildChangeRecord("tool", c.states[n], c.states[n + 1], c.categories[n])
  IN Records!HistoryFromPlan(<<[own |-> <<record(1)>>, expanded |-> <<>>],
                               [own |-> <<>>, expanded |-> <<<<record(2)>>, <<record(3)>>>>]>>)

\* What the planner and the critique are told is there, is: the bodies the plan
\* made that are in the last state; and one that only a step not meant to take
\* bodies away lost stays on the list, since its handle may just have changed.
HistoryIsCurrent ==
  Answered("history") =>
    LET gone(n) == BodiesIn(in.states[n]) \ BodiesIn(in.states[n + 1])
        meant(n) == in.categories[n] # "additive"
        new == UNION {BodiesIn(in.states[n + 1]) \ BodiesIn(in.states[n]) : n \in 1 .. 3}
        last(h) == Max({n \in 1 .. 3 : h \in gone(n) \cup (BodiesIn(in.states[n + 1]) \ BodiesIn(in.states[n]))})
        current == {e[2] : e \in out.current}
    IN /\ \A h \in new : h \in BodiesIn(in.states[4]) => h \in current
       /\ \A h \in current : h \in new
       /\ \A h \in new : h \notin BodiesIn(in.states[4]) =>
            (h \in current <=> ~meant(last(h)))

Exported == [name : {"a", "b"}, inside : BOOLEAN, exists : BOOLEAN]
ArtifactCases == [paths : UpTo(3, Exported), files : {<<>>, <<"b">>},
                  versions : {<<>>, <<[file |-> 1, project |-> "p"]>>, <<[file |-> 1, project |-> "q"]>>}]
ArtifactsOf(c) ==
  LET keep(s) == [files |-> s.files, versions |-> s.versions, project |-> "p"]
      once == keep(Records!RegisterOutputs([files |-> c.files, versions |-> c.versions, project |-> "p"], c.paths))
  IN [once |-> once, twice |-> keep(Records!RegisterOutputs(once, c.paths))]

\* A step that reports its exports again, as a retry does, adds neither file nor
\* version; every export inside the data directory has one file, and a version in
\* the project.
ExportsRegisteredOnce ==
  Answered("artifacts") =>
    LET names == {p.name : p \in {p \in Range(in.paths) : p.inside /\ p.exists}}
    IN /\ out.twice = out.once
       /\ IsInjective(out.once.files) /\ Range(out.once.files) = names \cup Range(in.files)
       /\ \A f \in DOMAIN out.once.files : out.once.files[f] \in names =>
            \E v \in Range(out.once.versions) : v = [file |-> f, project |-> "p"]

Step(category, empty) == [tool |-> "fillet", category |-> category, empty |-> empty, captured |-> TRUE]
CritiqueCases ==
  [intent : [count : {None, 0, 1, 2}, bodies : {{}, {"a"}, {"a", "b"}}, disjoint : {{}, {"a", "b"}}],
   bodies : {None} \cup UpTo(3, {"a", "b", None}), overlapping : {{}, {{"a", "b"}}, {{"a", "c"}}},
   history : {<<>>, <<Step("additive", TRUE)>>, <<Step("read_only", TRUE), Step("additive", FALSE)>>},
   seen : {<<>>, <<[kind |-> "wrong", severity |-> "critical", check |-> "visual"]>>}]
Verdict(c) ==
  Critique!BuildModelVerdict(c.intent, c.history,
    IF c.bodies = None THEN None ELSE [n \in DOMAIN c.bodies |-> [name |-> c.bodies[n]]],
    c.overlapping, c.seen)
CritiqueOf(c) == [verdict |-> Verdict(c), notice |-> Critique!VerdictNotice(Verdict(c))]

\* model_critique.py: "O sistema não deve dizer finalizado limpo num modelo
\* quebrado": without a notice nothing that was intended or seen is missing.
BrokenIsReported ==
  Answered("critique") /\ in.bodies # None /\ out.notice = None =>
    /\ in.intent.count \in {None, Len(in.bodies)}
    /\ in.intent.bodies # {} => Range(in.bodies) \ {None} \subseteq in.intent.bodies
    /\ \A p \in in.overlapping : ~(p \subseteq Range(in.bodies) \cap in.intent.disjoint)
    /\ in.seen = <<>> /\ ~\E r \in Range(in.history) : r.category = "additive" /\ r.empty

-----------------------------------------------------------------------------
\* From what an LLM answered to what the host gets: nothing hidden, dangerous and
\* unapproved, or unresolved, and the policy may be applied again.
PlansAreSafe ==
  /\ AskOrPlan /\ PolicySettles
  /\ NothingDangerousUnapproved /\ OnlyVisibleToolsRun /\ NoRefDispatched

\* What is placed by relations ends where the relation says, stays there when
\* asked again, passes the gate, and rests on faces and edges that no rounding,
\* split or order of the bodies renames.
PlacementHolds ==
  /\ FlushTouches /\ RelationSettles /\ GapIsOutside /\ GateAcceptsContact /\ RepairCloses
  /\ TouchesSymmetric /\ StableUnderNoise /\ EdgeSurvivesSplits
  /\ DistributeUsesAll

\* What the planner, the project and the user are told of a model is so.
ReportsAreTrue == HistoryIsCurrent /\ ExportsRegisteredOnce /\ BrokenIsReported

ModelingInputs ==
  \/ Input("plan", PlanCases) \/ Input("refs", RefCases) \/ Input("assess", AssessCases)
  \/ Input("mate", MateCases) \/ Input("gap", GapCases) \/ Input("pair", PairCases)
  \/ Input("face", FaceCases) \/ Input("edge", EdgeCases) \/ Input("distribute", DistributeCases)
  \/ Input("history", HistoryCases) \/ Input("artifacts", ArtifactCases) \/ Input("critique", CritiqueCases)

ModelingAnswers ==
  \/ Answer("plan", Course(in))
  \/ Answer("refs", Sent(in))
  \/ Answer("assess", Policy!Assess(in.model, in.answer, 1, in.existing))
  \/ Answer("mate", MateOf(in))
  \/ Answer("gap", GapOf(in))
  \/ Answer("pair", PairOf(in))
  \/ Answer("face", FaceOf(in))
  \/ Answer("edge", EdgeOf(in))
  \/ Answer("distribute", DistributeOf(in))
  \/ Answer("history", HistoryOf(in))
  \/ Answer("artifacts", ArtifactsOf(in))
  \/ Answer("critique", CritiqueOf(in))
=============================================================================
