--------------------------- MODULE FusionDocument ---------------------------
(***************************************************************************)
(* The design in Fusion as the scripts of modeling/fusion_mcp_scripts.py   *)
(* leave it: which bodies, sketches, planes, components and joints a call  *)
(* creates, renames or consumes, how a later call finds them again, and    *)
(* what is left when Fusion refuses half-way.  Dimensions and positions    *)
(* are left out; what Fusion itself decides (whether a feature can be      *)
(* built, which body a cut meets) is a choice.                             *)
(***************************************************************************)
EXTENDS Integers, Sequences, FiniteSets, SequencesExt, FiniteSetsExt

CONSTANTS
  Scripts,   \* sequences of calls: [tool, name, result, op, ref, refs, items]
  Designs,   \* the designs a session may find open
  Knuckles,  \* knuckle_count: the code raises anything below 3 to 3
  Pieces,    \* bound: how many bodies one feature may add to those it splits
  None

VARIABLES
  doc,      \* the design
  told,     \* what the last call answered, and what it had touched
  script,   \* the calls of this plan
  done,     \* how many of them were made
  clean,    \* history: none of them failed
  first     \* history: the design before the first of them

vars == <<doc, told, script, done, clean, first>>

Empty == [bodies |-> <<>>, sketches |-> <<>>, planes |-> <<>>, comps |-> 0, joints |-> <<>>,
          params |-> {}, next |-> 1]

-----------------------------------------------------------------------------
(* Names, identities and references                                        *)
-----------------------------------------------------------------------------
\* (mutant of Unique) the name is taken as it is.
Unique_Never(taken, base) == base

\* A name is a sequence: base, or base (1), base (2), ...
Unique(taken, base) ==
  IF base \notin taken THEN base
  ELSE LET k == Min({k \in 1 .. Cardinality(taken) + 1 : base \o <<ToString(k)>> \notin taken})
       IN base \o <<ToString(k)>>

Root(d) == SelectSeq(d.bodies, LAMBDA b : b.comp = 0)
Everywhere(d) ==
  FlattenSeq([c \in 1 .. d.comps + 1 |-> SelectSeq(d.bodies, LAMBDA b : b.comp = c - 1)])
BodyNames(d) == {b.name : b \in Range(Root(d))}
SketchNames(d) == {s.name : s \in Range(d.sketches)}

\* What a reference that is a number means: a position, counted from 0.
ByIndex(bodies, ref) ==
  LET at == {n \in DOMAIN bodies : ref = <<ToString(n - 1)>>}
  IN IF at = {} THEN None ELSE bodies[Min(at)]

\* The stable id first, then the name, then the position; the last body without
\* a reference.
Lookup(bodies, ref) ==
  LET marked == SelectSeq(bodies, LAMBDA b : b.id = ref)
      named == SelectSeq(bodies, LAMBDA b : b.name = ref)
  IN CASE bodies = <<>> -> None
       [] bodies # <<>> /\ ref = None -> Last(bodies)
       [] OTHER -> IF marked # <<>> THEN marked[1]
                   ELSE IF named # <<>> THEN named[1] ELSE ByIndex(bodies, ref)
FindBody(d, ref) == Lookup(Root(d), ref)
FindSketch(d, ref) ==
  LET named == SelectSeq(d.sketches, LAMBDA s : s.name = ref)
  IN IF d.sketches = <<>> THEN None
     ELSE IF ref = None THEN Last(d.sketches) ELSE IF named = <<>> THEN None ELSE named[1]

StableId(d) == <<"id", ToString(d.next)>>
\* Every new thing has an identity of its own; a body gets its stable id too.
AddBody(d, name, marked) ==
  [d EXCEPT !.bodies = Append(@, [uid |-> d.next, name |-> name, comp |-> 0,
                                  id |-> IF marked THEN StableId(d) ELSE None]),
            !.next = @ + 1]
AddSketch(d, name) ==
  [d EXCEPT !.sketches = Append(@, [uid |-> d.next, name |-> name, shape |-> "none"]), !.next = @ + 1]
Draw(d, sketch, shape) ==
  [d EXCEPT !.sketches = [n \in DOMAIN @ |->
     IF @[n].uid = sketch.uid
     THEN [@[n] EXCEPT !.shape = IF @ = "closed" THEN @ ELSE shape] ELSE @[n]]]
Without(d, uids) == [d EXCEPT !.bodies = SelectSeq(@, LAMBDA b : b.uid \notin uids)]
\* A body that gets a name and a new stable id, and keeps its identity.
Rename(d, uid, name) ==
  [d EXCEPT !.bodies = [n \in DOMAIN @ |->
              IF @[n].uid = uid THEN [@[n] EXCEPT !.name = name, !.id = StableId(d)] ELSE @[n]],
            !.next = @ + 1]
Auto(d) == <<"Body", ToString(d.next)>>

Primitive(d, base) ==
  AddBody(AddSketch(d, Unique(SketchNames(d), base)), Unique(BodyNames(d), base), TRUE)
Build(d, bases) == FoldLeft(Primitive, d, bases)

\* foreign: what a macro used that another call had made.
Answer(d, ok, uid, name) == [doc |-> d, ok |-> ok, made |-> uid, name |-> name, foreign |-> {}]
Failed(d) == Answer(d, FALSE, None, None)
Done(d) == Answer(d, TRUE, None, None)
Made(d) == Answer(d, TRUE, Last(d.bodies).uid, Last(d.bodies).name)

-----------------------------------------------------------------------------
(* What Fusion makes of the bodies that a feature meets                    *)
-----------------------------------------------------------------------------
\* Fusion names the bodies that no script names.
Copies(d, k) == FoldLeft(LAMBDA x, n : AddBody(x, Auto(x), FALSE), d, [n \in 1 .. k |-> n])
\* Two bodies may become one.
Merged(d) == {d} \cup {Without(d, {b.uid}) : b \in IF Len(Root(d)) > 1 THEN Range(Root(d)) ELSE {}}
\* A body that is cut stays, is consumed or falls into pieces.
Carved(d) ==
  IF Root(d) = <<>> THEN {}
  ELSE {Without(d, {b.uid}) : b \in Range(Root(d))} \cup {Copies(d, k) : k \in 0 .. Pieces}

-----------------------------------------------------------------------------
(* The handlers: the set of outcomes of a call                             *)
-----------------------------------------------------------------------------
AddPlane(d, name) == [d EXCEPT !.planes = Append(@, name)]
\* Fillet, chamfer, shell, move and scale keep the body and its names.
ChangeBody(d, step) == IF FindBody(d, step.ref) = None THEN {Failed(d)} ELSE {Failed(d), Done(d)}

OpenDesign(d, step) ==
  {Failed(d)} \cup (IF step.op = "new" THEN {Done([Empty EXCEPT !.next = d.next])} ELSE {Done(d)})

CreateSketch(d, step) == {Failed(d), Done(AddSketch(d, step.name))}

\* Curves in a sketch, which give it a closed profile or only open curves; Fusion
\* may refuse after the first of them.
Curves(d, step, shape) ==
  LET sketch == FindSketch(d, step.ref)
  IN IF sketch = None THEN {Failed(d)}
     ELSE {Failed(d), Failed(Draw(d, sketch, "open")), Done(Draw(d, sketch, shape))}
AddPolygon(d, step) == Curves(d, step, "closed")
\* One curve, which is there or is not.
AddEllipse(d, step) ==
  LET sketch == FindSketch(d, step.ref)
  IN {Failed(d)} \cup (IF sketch = None THEN {} ELSE {Done(Draw(d, sketch, "closed"))})
AddSlot(d, step) == Curves(d, step, "closed")
AddArc(d, step) == Curves(d, step, "open")
AddSpline(d, step) == Curves(d, step, "open")
\* A polyline is closed on request, or by two ends that meet.
AddLine(d, step) == Curves(d, step, IF step.op = "closed" THEN "closed" ELSE "open")
\* A grid draws its cells one by one, each a profile.
AddRectangle(d, step) ==
  Curves(d, step, "closed")
    \cup (IF step.items < 2 THEN {}
          ELSE {Failed(r.doc) : r \in {r \in Curves(d, step, "closed") : r.ok}})
\* The circles of a batch go to their own sketches, or to that of the call.
AddCircle(d, step) ==
  LET refs == IF step.refs = <<>> THEN <<step.ref>> ELSE step.refs
      sketch(n) == FindSketch(d, IF refs[n] = None THEN step.ref ELSE refs[n])
      good == Min({n \in DOMAIN refs : sketch(n) = None} \cup {Len(refs) + 1}) - 1
      after == [k \in 0 .. good |->
                  FoldLeft(LAMBDA x, n : Draw(x, sketch(n), "closed"), d, [n \in 1 .. k |-> n])]
  IN {Failed(after[k]) : k \in 0 .. Min({good, Len(refs) - 1})}
     \cup (IF good = Len(refs) THEN {Done(after[good])} ELSE {})

\* The host may refuse after the sketch is there, and again the move that takes
\* the new body to its place, with the body there under its name.
Refused(d, base) ==
  {Failed(d), Failed(AddSketch(d, Unique(SketchNames(d), base))), Failed(Primitive(d, base))}
\* A box, sphere or cone.
AddPrimitive(d, step) == Refused(d, step.name) \cup {Made(Primitive(d, step.name))}
\* One cylinder, or a list of them: the call fails at any item, and what it has
\* built by then stays.
AddCylinder(d, step) ==
  IF step.items = 0 THEN AddPrimitive(d, step)
  ELSE LET after == [k \in 0 .. step.items |-> Build(d, [j \in 1 .. k |-> step.name])]
       IN UNION {Refused(after[k], step.name) : k \in 0 .. step.items - 1}
          \cup {Done(after[step.items])}

\* A closed profile, or any curve for a surface.
HasProfile(sketch, surface) == sketch.shape = "closed" \/ (surface /\ sketch.shape = "open")
Surfacing(step) == step.items = -1

\* What the result of an extrusion or a revolution is called: a body of its own,
\* or one of those that Fusion found, which then takes a new name and stable id;
\* a cut that left nothing of what it met names none.
FromProfile(d, step, op) ==
  LET sketch == FindSketch(d, step.ref)
      base == IF step.name # None THEN step.name
              ELSE IF step.result # None THEN step.result ELSE sketch.name
      new == Made(AddBody(d, Unique(BodyNames(d), base), TRUE))
      renamed(x) == LET name == Unique(BodyNames(x), base)
                    IN {Answer(Rename(x, b.uid, name), TRUE, b.uid, name) : b \in Range(Root(x))}
  IN IF sketch = None THEN {Failed(d)} ELSE IF ~HasProfile(sketch, Surfacing(step)) THEN {Failed(d)}
     ELSE {Failed(d)} \cup
          CASE op = "new_body" -> {new}
            [] op = "join" -> {new} \cup UNION {renamed(x) : x \in Merged(d)}
            [] op \in {"cut", "intersect"} -> UNION {renamed(x) \cup {Done(x)} : x \in Carved(d)}
Operations == {"new_body", "join", "cut", "intersect"}
\* An operation that is none of them: an extrusion takes the first of them that
\* its text contains, a revolution makes a new body.
ExtrudeProfile(d, step) ==
  FromProfile(d, step, CASE step.op \in Operations -> step.op
                         [] step.op = "cut_through" -> "cut"
                         [] OTHER -> "new_body")
RevolveProfile(d, step) ==
  FromProfile(d, step, IF step.op \in Operations THEN step.op ELSE "new_body")

\* Lofts and sweeps name nothing, and make a new body unless they join or cut.
Through(d, step, profiles, sketches) ==
  IF \/ None \in profiles \cup sketches
     \/ \E s \in profiles : ~HasProfile(s, Surfacing(step))
     \/ \E s \in sketches : s.shape = "none"
  THEN {Failed(d)}
  ELSE {Failed(d)} \cup
       CASE step.op = "join" -> {Done(x) : x \in {Copies(d, 1)} \cup Merged(d)}
         [] step.op = "cut" -> {Done(x) : x \in Carved(d)}
         [] OTHER -> {Done(Copies(d, 1))}
LoftProfiles(d, step) ==
  IF Len(step.refs) < 2 THEN {Failed(d)}
  ELSE Through(d, step, {FindSketch(d, r) : r \in Range(step.refs)}, {})
SweepProfile(d, step) ==
  Through(d, step, {FindSketch(d, step.ref)}, {FindSketch(d, r) : r \in Range(step.refs)})

\* Surface operations take a list of bodies by name or position, not by stable id.
SurfaceRef(d, ref) ==
  LET named == SelectSeq(Root(d), LAMBDA b : b.name = ref)
  IN IF named = <<>> THEN ByIndex(Root(d), ref) ELSE named[1]
Surfaces(d, step) == {SurfaceRef(d, r) : r \in Range(step.refs)}
Surfaced(d, step, default) ==
  Made(AddBody(d, Unique(BodyNames(d), IF step.name = None THEN default ELSE step.name), TRUE))
\* From a sketch with a profile, or from edges of a body.
CreateSurfacePatch(d, step) ==
  LET sketch == FindSketch(d, step.ref)
      found == IF step.op = "sketch" THEN sketch # None /\ sketch.shape = "closed"
               ELSE FindBody(d, step.ref) # None
  IN IF (step.op = "sketch" /\ sketch = None) THEN {Failed(d)}
     ELSE IF ~found THEN {Failed(d)} ELSE {Failed(d), Surfaced(d, step, <<"Patch">>)}
ThickenSurface(d, step) ==
  IF step.refs = <<>> \/ None \in Surfaces(d, step) THEN {Failed(d)}
  ELSE {Failed(d), Surfaced(d, step, <<"Thickened">>)}
\* (mutant of StitchSurfaces) the surfaces are deleted before the result is there.
StitchSurfaces_Early(d, step) ==
  IF Len(step.refs) < 2 \/ None \in Surfaces(d, step) THEN {Failed(d)}
  ELSE LET rest == Without(d, {b.uid : b \in Surfaces(d, step)})
       IN {Failed(rest), Surfaced(rest, step, <<"Stitched">>)}

\* The surfaces become one; the same one twice counts as two.
StitchSurfaces(d, step) ==
  IF Len(step.refs) < 2 \/ None \in Surfaces(d, step) THEN {Failed(d)}
  ELSE {Failed(d), Surfaced(Without(d, {b.uid : b \in Surfaces(d, step)}), step, <<"Stitched">>)}
\* The tool is a sketch of that name, else a body; what Fusion trims need not be
\* the surface that was named, and the piece kept takes the new name.
TrimSurface(d, step) ==
  LET tool == IF FindSketch(d, step.refs[1]) # None THEN FindSketch(d, step.refs[1])
              ELSE FindBody(d, step.refs[1])
      name == Unique(BodyNames(d), IF step.name = None THEN <<"Trimmed">> ELSE step.name)
  IN IF FindBody(d, step.ref) = None \/ tool = None THEN {Failed(d)}
     ELSE {Failed(d), Done(d)} \cup {Answer(Rename(d, b.uid, name), TRUE, b.uid, name) : b \in Range(Root(d))}
ExtendSurface(d, step) == ChangeBody(d, step)
OffsetSurface(d, step) ==
  IF (IF step.refs = <<>> THEN FindBody(d, step.ref) = None ELSE None \in Surfaces(d, step)) THEN {Failed(d)}
  ELSE {Failed(d), Surfaced(d, step, <<"Offset">>)}

\* A hole, with a counterbore or not, leaves its sketches, also when the second
\* cut is refused after the first; and the answer reads the body, which fails if
\* the cuts have consumed it.
Hole(d, step) ==
  LET body == FindBody(d, step.ref)
      one == AddSketch(d, Unique(SketchNames(d), <<"Hole">>))
      two(x) == AddSketch(x, Unique(SketchNames(x), <<"Counterbore">>))
      read(x) == IF \E b \in Range(x.bodies) : b.uid = body.uid THEN Done(x) ELSE Failed(x)
  IN IF body = None THEN {Failed(d)}
     ELSE {Failed(d), Failed(one)}
          \cup IF step.op # "counterbore" THEN {read(x) : x \in Carved(one)}
               ELSE UNION {{Failed(x), Failed(two(x))} \cup {read(y) : y \in Carved(two(x))} : x \in Carved(one)}
\* Without a designation or a diameter the code calls a helper that is out of
\* its scope, and the call always fails.
Thread(d, step) == IF step.op = "measured" THEN {Failed(d)} ELSE ChangeBody(d, step)

\* One new body per instance beyond the first.
PatternRectangular(d, step) ==
  IF FindBody(d, step.ref) = None \/ step.items < 1 THEN {Failed(d)}
  ELSE {Failed(d), Done(Copies(d, step.items - 1))}
PatternCircular(d, step) == PatternRectangular(d, step)
MirrorFeature(d, step) == IF FindBody(d, step.ref) = None THEN {Failed(d)} ELSE {Failed(d), Done(Copies(d, 1))}
\* An offset makes a plane first, and a refused split leaves it.
SplitBody(d, step) ==
  LET planed == IF step.op = "offset" THEN AddPlane(d, <<"Plane", ToString(d.next)>>) ELSE d
  IN IF FindBody(d, step.ref) = None THEN {Failed(d)}
     ELSE {Failed(d), Failed(planed)} \cup {Done(Copies(planed, k)) : k \in 1 .. Pieces}
UnstitchSurface(d, step) ==
  IF FindBody(d, step.ref) = None THEN {Failed(d)} ELSE {Failed(d)} \cup {Done(Copies(d, k)) : k \in {0, 1}}

Combined(d, target, tools) ==
  IF None \in {target} \cup tools \/ target \in tools \/ tools = {} THEN d
  ELSE Without(d, {b.uid : b \in tools})
\* A cut may split its target, or consume it, and then the answer itself fails.
Combine(d, step) ==
  LET target == FindBody(d, step.ref)
      tools == {FindBody(d, r) : r \in Range(step.refs)}
      joined == Combined(d, target, tools)
  IN IF joined = d \/ step.op \notin {"join", "cut", "intersect"} THEN {Failed(d)}
     ELSE {Failed(d), Done(joined)}
          \cup (IF step.op = "join" THEN {}
               ELSE {Failed(Without(joined, {target.uid}))} \cup {Done(Copies(joined, k)) : k \in 1 .. Pieces})

DeleteBody(d, step) ==
  LET body == FindBody(d, step.ref)
  IN IF body = None THEN {Failed(d)} ELSE {Failed(d), Done(Without(d, {body.uid}))}

\* A body that is in a component already is left there; a refused move leaves
\* the new component empty.
MakeComponent(d, ref) ==
  LET body == Lookup(Everywhere(d), ref)
      added == [d EXCEPT !.comps = @ + 1]
  IN IF body = None THEN {Failed(d)}
     ELSE IF body.comp # 0 THEN {Done(d)}
     ELSE {Failed(added),
           Done([added EXCEPT !.bodies = [n \in DOMAIN @ |->
                   IF @[n].uid = body.uid THEN [@[n] EXCEPT !.comp = added.comps] ELSE @[n]]])}

Joint(d, one, two) ==
  LET a == Lookup(Everywhere(d), one)
      b == Lookup(Everywhere(d), two)
  IN IF None \in {a, b} THEN {Failed(d)}
     ELSE {Failed(d), Done([d EXCEPT !.joints = Append(@, <<a.uid, b.uid>>)])}

\* Parameters are set one after another until one is invalid.
SetParameters(d, step) ==
  {Failed([d EXCEPT !.params = @ \cup Range(SubSeq(step.refs, 1, k))]) : k \in 0 .. Len(step.refs) - 1}
    \cup {Done([d EXCEPT !.params = @ \cup Range(step.refs)])}

\* The undo deletes the features from the last to those of the plan's beginning.
\* Some may refuse, so that bodies stay or do not come back.  Names, stable ids
\* and parameters are no features; a design opened since has none to delete.
RollbackTimeline(d) ==
  LET Has(x, b) == \E c \in Range(x.bodies) : c.uid = b.uid
      Now(b) == IF ~Has(d, b) THEN b
                ELSE LET c == CHOOSE c \in Range(d.bodies) : c.uid = b.uid
                     IN [b EXCEPT !.name = c.name, !.id = c.id]
      kept == SelectSeq(d.bodies, LAMBDA b : Has(first, b))
      lost == SelectSeq(first.bodies, LAMBDA b : ~Has(d, b))
      undone == [first EXCEPT !.bodies = [n \in DOMAIN @ |-> Now(@[n])], !.params = d.params, !.next = d.next]
      opened == \E n \in 1 .. done : script[n].tool = "open_design" /\ script[n].op = "new"
  IN IF opened THEN {Done(d)}
     ELSE {Failed(d), Done(undone)} \cup {Done([d EXCEPT !.bodies = bodies]) : bodies \in {kept, d.bodies \o lost}}

-----------------------------------------------------------------------------
(* The macros: a screw and a hinge out of the same handlers                *)
-----------------------------------------------------------------------------
Part(step, suffix) == step.name \o <<suffix>>

\* (mutant of MetricScrew) the shank is looked up by the name that was asked for.
MetricScrew_ByName(d, step) ==
  LET head == Build(d, <<Part(step, "Shank"), Part(step, "Head")>>)
      target == FindBody(head, Part(step, "Shank"))
      tool == Last(head.bodies)
  IN {Failed(d), [Answer(Combined(head, target, {tool}), TRUE, target.uid, target.name)
                    EXCEPT !.foreign = {target.uid} \ {n \in 1 .. head.next : n >= d.next}]}

\* A hexagonal head is drawn in the sketch of that name and extruded from it; a
\* head that cannot be joined is left beside the shank.
MetricScrew(d, step) ==
  LET shank == Build(d, <<Part(step, "Shank")>>)
      sketched == AddSketch(AddPlane(shank, Part(step, "HeadPlane")), Part(step, "HeadSketch"))
      sketch == FindSketch(sketched, Part(step, "HeadSketch"))
      drawn == Draw(sketched, sketch, "closed")
      head == IF step.op = "hex"
              THEN AddBody(drawn, Unique(BodyNames(sketched), Part(step, "Head")), TRUE)
              ELSE Build(shank, <<Part(step, "Head")>>)
      target == FindBody(head, Last(shank.bodies).name)
      tool == FindBody(head, Last(head.bodies).name)
      foreign == ((IF step.op = "hex" THEN {sketch.uid} ELSE {}) \cup {target.uid, tool.uid})
                   \ {n \in 1 .. head.next : n >= d.next}
      answer == [Answer(head, TRUE, target.uid, target.name) EXCEPT !.foreign = foreign]
  IN Refused(d, Part(step, "Shank"))
     \cup (IF step.op = "hex"
          THEN {Failed(x) : x \in {shank, AddPlane(shank, Part(step, "HeadPlane")), sketched, drawn}}
          ELSE Refused(shank, Part(step, "Head")))
     \cup {answer, [answer EXCEPT !.doc = Combined(head, target, {tool})]}

\* Knuckles, two leaves, the knuckles joined to them by turns, a pin; with a
\* joint, both leaves become components that the joint connects.  What fails
\* after the parts is left as it is, and the call succeeds.
KnuckleHinge(d, step) ==
  LET names == [n \in 1 .. Knuckles |-> Part(step, "Knuckle") \o <<ToString(n)>>]
      all == names \o <<Part(step, "LeafA"), Part(step, "LeafB")>>
      parts == Build(d, all)
      made(n) == parts.bodies[Len(d.bodies) + n].name
      leafA == made(Knuckles + 1)
      leafB == made(Knuckles + 2)
      tools(odd) == {FindBody(parts, made(n)) : n \in {n \in 1 .. Knuckles : (n % 2 = 1) = odd}}
      joined == Combined(Combined(parts, FindBody(parts, leafA), tools(TRUE)),
                         FindBody(parts, leafB), tools(FALSE))
      own == {n \in 1 .. parts.next : n >= d.next}
      taken == {b.uid : b \in tools(TRUE) \cup tools(FALSE)} \ own
      pinned(x) == Primitive(x, Part(step, "Pin"))
      parted(x) == UNION {IF r.ok THEN MakeComponent(r.doc, leafB) ELSE {r} : r \in MakeComponent(x, leafA)}
      jointed(x) == UNION {IF r.ok THEN Joint(r.doc, leafA, leafB) ELSE {r} : r \in parted(x)}
      ends(x) == IF Len(x.joints) > Len(d.joints) THEN Range(Last(x.joints)) \ own ELSE {}
      answer(x) == [Answer(x, TRUE, None, None) EXCEPT !.foreign = taken \cup ends(x)]
      whole == {pinned(parts), pinned(joined)}
  IN UNION {Refused(Build(d, SubSeq(all, 1, k)), all[k + 1]) : k \in 0 .. Len(all) - 1}
     \cup {Failed(parts), Failed(joined)} \cup Refused(parts, Part(step, "Pin")) \cup Refused(joined, Part(step, "Pin"))
     \cup {answer(x) : x \in IF step.op = "joint" THEN {r.doc : r \in UNION {jointed(x) : x \in whole}}
                             ELSE whole}

-----------------------------------------------------------------------------
(* The dispatcher                                                          *)
-----------------------------------------------------------------------------
AddConstructionPlane(d, step) == {Failed(d), Done(AddPlane(d, step.name))}
\* What only looks at the design; two of the exports need a body.
Inspect(d, step) ==
  {Failed(d)} \cup (IF step.tool \in {"export_stl", "export_3mf"} /\ Root(d) = <<>> THEN {} ELSE {Done(d)})
Handle(d, step) ==
  CASE step.tool = "open_design" -> OpenDesign(d, step)
    [] step.tool = "create_sketch" -> CreateSketch(d, step)
    [] step.tool = "add_rectangle" -> AddRectangle(d, step)
    [] step.tool = "add_circle" -> AddCircle(d, step)
    [] step.tool = "add_polygon" -> AddPolygon(d, step)
    [] step.tool = "add_line" -> AddLine(d, step)
    [] step.tool = "add_arc" -> AddArc(d, step)
    [] step.tool = "add_ellipse" -> AddEllipse(d, step)
    [] step.tool = "add_slot" -> AddSlot(d, step)
    [] step.tool = "add_spline" -> AddSpline(d, step)
    [] step.tool \in {"add_box", "add_sphere", "add_cone"} -> AddPrimitive(d, step)
    [] step.tool = "add_cylinder" -> AddCylinder(d, step)
    [] step.tool = "extrude_profile" -> ExtrudeProfile(d, step)
    [] step.tool = "revolve_profile" -> RevolveProfile(d, step)
    [] step.tool = "loft_profiles" -> LoftProfiles(d, step)
    [] step.tool = "sweep_profile" -> SweepProfile(d, step)
    [] step.tool = "create_surface_patch" -> CreateSurfacePatch(d, step)
    [] step.tool = "thicken_surface" -> ThickenSurface(d, step)
    [] step.tool = "stitch_surfaces" -> StitchSurfaces(d, step)
    [] step.tool = "trim_surface" -> TrimSurface(d, step)
    [] step.tool = "extend_surface" -> ExtendSurface(d, step)
    [] step.tool = "offset_surface" -> OffsetSurface(d, step)
    [] step.tool = "unstitch_surface" -> UnstitchSurface(d, step)
    [] step.tool \in {"fillet_edges", "chamfer_edges", "shell_body", "move_body", "scale_body"} ->
         ChangeBody(d, step)
    [] step.tool = "hole" -> Hole(d, step)
    [] step.tool = "thread" -> Thread(d, step)
    [] step.tool = "pattern_rectangular" -> PatternRectangular(d, step)
    [] step.tool = "pattern_circular" -> PatternCircular(d, step)
    [] step.tool = "mirror_feature" -> MirrorFeature(d, step)
    [] step.tool = "split_body" -> SplitBody(d, step)
    [] step.tool = "combine_bodies" -> Combine(d, step)
    [] step.tool = "delete_body" -> DeleteBody(d, step)
    [] step.tool = "add_construction_plane" -> AddConstructionPlane(d, step)
    [] step.tool = "make_component" -> MakeComponent(d, step.ref)
    [] step.tool = "joint" -> Joint(d, step.ref, step.refs[1])
    [] step.tool = "set_parameter" -> SetParameters(d, step)
    [] step.tool = "metric_screw" -> MetricScrew(d, step)
    [] step.tool = "knuckle_hinge" -> KnuckleHinge(d, step)
    [] step.tool = "rollback_timeline" -> RollbackTimeline(d)
    [] step.tool \in {"query_geometry", "capture_viewport", "query_timeline", "export_step", "export_stl",
                      "export_3mf", "validate_dimensions", "validate_printability"} -> Inspect(d, step)
    [] OTHER -> {Failed(d)}     \* a declarative tool, or none that has a handler

BodyCreators == {"extrude_profile", "revolve_profile", "add_box", "add_cylinder", "add_sphere",
                 "add_cone", "loft_profiles", "sweep_profile"}

\* A name asked for is given to the last body of the root, without a look at
\* whether it is taken.
RenameLast(answer, step) ==
  LET d == answer.doc
      uid == Last(Root(d)).uid
  IN IF ~answer.ok \/ step.tool \notin BodyCreators \/ step.result = None \/ Root(d) = <<>> THEN answer
     ELSE [answer EXCEPT !.name = step.result,
             !.doc.bodies = [n \in DOMAIN @ |->
                IF @[n].uid = uid THEN [@[n] EXCEPT !.name = step.result] ELSE @[n]]]

Dispatch(d, step) == {RenameLast(a, step) : a \in Handle(d, step)}

Dispatched(a) == [ok |-> a.ok, made |-> a.made, name |-> a.name, foreign |-> a.foreign]

Init ==
  /\ doc \in Designs
  /\ script \in Scripts
  /\ told = Dispatched(Done(doc))
  /\ done = 0
  /\ clean = TRUE
  /\ first = doc

\* The steps of a plan one after another; a failed one is not the last, since
\* the executor corrects it and runs it again.
Call ==
  /\ done < Len(script)
  /\ \E a \in Dispatch(doc, script[done + 1]) :
       /\ doc' = a.doc
       /\ told' = Dispatched(a)
       /\ clean' = (clean /\ a.ok)
  /\ done' = done + 1
  /\ UNCHANGED <<script, first>>

Next == Call
Spec == Init /\ [][Next]_vars
-----------------------------------------------------------------------------
\* A call that failed took no body away, whatever it left half done: the
\* correction and the retry find every body with its name and its stable id.
\* The exceptions cut before they answer: a boolean that is no join, and a hole.
FailureKeepsBodies ==
  ~told'.ok /\ script[done'].tool # "hole"
            /\ ~(script[done'].tool = "combine_bodies" /\ script[done'].op # "join")
    => Range(doc.bodies) \subseteq Range(doc'.bodies)

\* "handle estavel para steps seguintes": the name that a call answers finds the
\* body it made, and not an older one, unless the plan chose the name itself
\* (result_name), which is given to a body without a look at whether it is free.
HandleIsTheBody ==
  told.ok /\ told.made # None /\ script[done].result = None
    => FindBody(doc, told.name).uid = told.made

\* A macro joins, cuts and connects the parts it made itself, whatever else has
\* their names, unless it was called twice with the same name.
MacrosUseTheirOwn ==
  told.foreign # {} =>
    \E n \in 1 .. done - 1 : script[n].tool = script[done].tool /\ script[n].name = script[done].name

\* A name or handle that a call was told keeps finding the same body.
HandlesHold == HandleIsTheBody /\ MacrosUseTheirOwn
=============================================================================
