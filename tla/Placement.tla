------------------------------ MODULE Placement ------------------------------
(***************************************************************************)
(* Positions that are measured instead of guessed (modeling/entity_ref.py, *)
(* spatial_resolver.py, relation_derive.py, relation_resolver.py,          *)
(* geometry_core.py, geometry_verifier.py, semantic_state.py): how a face  *)
(* or an edge that the plan describes is found in the model that was read  *)
(* back, what a declarative step becomes, and how a contact is measured.   *)
(*                                                                         *)
(* Lengths are integers, in twentieths of a millimetre; what the code refuses  *)
(* with a typed error is the empty set, else a set of one.  A body is      *)
(* [name, id, lo, hi, faces, edges], a face [token, type, normal, center,  *)
(* area, radius, open] whose normal is [axis, sign] (sign 0: "z" alone),   *)
(* an edge [token, straight, from, to], parallel to an axis.               *)
(***************************************************************************)
EXTENDS Integers, Sequences, FiniteSets, SequencesExt, FiniteSetsExt, Functions

CONSTANTS
  AlignModes,  \* modeling_align_modes_enabled
  None

Axes == 1 .. 3
ContactTol == 4
PosTol == 2
AreaTol == 200
RadiusTol == 10
FarTol == 100
OverlapTol == 8000

Size(n) == IF n < 0 THEN -n ELSE n
Only(S) == CHOOSE x \in S : TRUE
-----------------------------------------------------------------------------
(* Boxes                                                                   *)
-----------------------------------------------------------------------------
FindBody(state, ref) ==
  LET hits == {n \in DOMAIN state : ref \in {state[n].id, state[n].name}}
  IN IF hits = {} THEN {} ELSE {state[Min(hits)]}

\* Twice the centre, so that it is an integer.
Center(b) == [i \in Axes |-> b.lo[i] + b.hi[i]]
\* The first axis along which v is largest.
Largest(v) == Min({i \in Axes : \A j \in Axes : Size(v[i]) >= Size(v[j])})
\* The axis of the largest distance between the centres.
MateAxis(m, r) == Largest([i \in Axes |-> Center(m)[i] - Center(r)[i]])
\* A gap, or a penetration if negative.
GapAlong(m, r, axis) ==
  IF Center(m)[axis] >= Center(r)[axis] THEN m.lo[axis] - r.hi[axis] ELSE r.lo[axis] - m.hi[axis]
Overlap(a, b, axis) == Min({a.hi[axis], b.hi[axis]}) - Max({a.lo[axis], b.lo[axis]})
OverlapVolume(a, b) ==
  IF \E i \in Axes : Overlap(a, b, i) <= 0 THEN 0
  ELSE Overlap(a, b, 1) * Overlap(a, b, 2) * Overlap(a, b, 3)
Volume(b) == (b.hi[1] - b.lo[1]) * (b.hi[2] - b.lo[2]) * (b.hi[3] - b.lo[3])

Plus(p, delta) == [i \in Axes |-> p[i] + delta[i]]
Shifted(b, delta) ==
  [b EXCEPT !.lo = Plus(@, delta), !.hi = Plus(@, delta),
            !.faces = [n \in DOMAIN @ |->
                         [@[n] EXCEPT !.center = IF @ = None THEN None ELSE Plus(@, delta)]],
            !.edges = [n \in DOMAIN @ |-> [@[n] EXCEPT !.from = Plus(@, delta), !.to = Plus(@, delta)]]]
MoveBody(state, ref, delta) ==
  [n \in DOMAIN state |-> IF state[n] \in FindBody(state, ref) THEN Shifted(state[n], delta) ELSE state[n]]

-----------------------------------------------------------------------------
(* Faces: [by: "token", token], [by: "role", body, role] or                *)
(* [by: "predicate", body, type, normal, radius, largest]                  *)
-----------------------------------------------------------------------------
CandidateFaces(state, body) ==
  UNION {Range(b.faces) : b \in {b \in Range(state) : body \in {None, b.name, b.id}}}

\* The one that is ahead of every other by more than the tolerance.
PickExtreme(cands, Key(_), tol) == {f \in cands : \A g \in cands \ {f} : Key(f) - Key(g) > tol}

\* (mutant of Horizontal) the face below must have been read as pointing down.
Horizontal_Signed(faces) == {f \in faces : f.normal # None /\ f.normal.axis = 3 /\ f.normal.sign = 1}

Horizontal(faces) == {f \in faces : f.normal # None /\ f.normal.axis = 3}
Upward(faces) == {f \in Horizontal(faces) : f.normal.sign >= 0}
Planar(faces) == {f \in faces : f.type = "planar"}
Area(f) == f.area

\* (mutant of FaceByRole) of two that tie, any.
FaceByRole_Any(role, cands) ==
  LET up == {f \in cands : f.normal # None /\ f.normal.axis = 3 /\ f.center # None}
  IN IF up = {} THEN {} ELSE {CHOOSE f \in up : \A g \in up : f.center[3] >= g.center[3]}

FaceByRole(role, cands) ==
  LET measured == {f \in Horizontal(cands) : f.center # None}
      flagged == {f \in cands : f.open}
  IN CASE role = "top_planar" -> PickExtreme(measured, LAMBDA f : f.center[3], PosTol)
       [] role = "bottom_planar" -> PickExtreme(measured, LAMBDA f : -f.center[3], PosTol)
       [] role = "largest" -> PickExtreme(cands, Area, AreaTol)
       [] role = "largest_planar" -> PickExtreme(Planar(cands), Area, AreaTol)
       [] role = "open_boundary" ->
            PickExtreme(IF flagged # {} THEN flagged ELSE Upward(cands), Area, AreaTol)
       [] OTHER -> {}

FaceByPredicate(d, cands) ==
  LET match == {f \in cands : /\ d.type \in {None, f.type}
                              /\ d.normal = None \/ f.normal = d.normal
                              /\ d.radius = None \/ (f.radius # None /\ Size(f.radius - d.radius) <= RadiusTol)}
  IN IF d.largest THEN PickExtreme(match, Area, AreaTol)
     ELSE IF Cardinality(match) = 1 THEN match ELSE {}

ResolveFace(d, state) ==
  CASE d.by = "token" -> {f \in CandidateFaces(state, None) : f.token = d.token}
    [] d.by = "role" -> FaceByRole(d.role, CandidateFaces(state, d.body))
    [] d.by = "predicate" -> FaceByPredicate(d, CandidateFaces(state, d.body))

OwnerBody(state, face) ==
  state[Min({n \in DOMAIN state : \E f \in Range(state[n].faces) : f.token = face.token})]

-----------------------------------------------------------------------------
(* place_body: one move of the measured distance, or none at all           *)
-----------------------------------------------------------------------------
NormalAlong(face, axis) ==
  IF face.normal = None \/ face.normal.axis # axis THEN 0 ELSE IF face.normal.sign = -1 THEN -1 ELSE 1
\* The gap opens to the outside of the target, else to the inside of the anchor.
GapSides(axis, anchor, target) ==
  {IF NormalAlong(target, axis) # 0 THEN NormalAlong(target, axis) ELSE -NormalAlong(anchor, axis)} \ {0}

\* Without a cardinal normal on a planar face the box is not the body's outline.
AxisAligned(b) ==
  LET planar == Planar(Range(b.faces))
  IN planar = {} \/ \E f \in planar : f.normal # None

\* (mutant of PlaceDeltas) the gap opens downwards in every case.
PlaceDeltas_Down(args, moving, anchor, target, reference) ==
  LET apart == [i \in Axes |-> target.center[i] - anchor.center[i]]
  IN {[apart EXCEPT ![3] = @ - args.gap]}

PlaceDeltas(args, moving, anchor, target, reference) ==
  LET apart == [i \in Axes |-> target.center[i] - anchor.center[i]]
      axis == IF target.normal # None THEN target.normal.axis ELSE Largest(apart)
      plane == Axes \ {axis}
      width(i) == reference.hi[i] - reference.lo[i]
      long == Min({i \in plane : \A j \in plane : width(i) >= width(j)})
  IN CASE args.align = "center" -> {apart}
       [] args.align = "coplanar" -> {[i \in Axes |-> IF i = axis THEN apart[i] ELSE 0]}
       [] args.align = "gap" ->
            IF args.gap = 0 THEN {apart}
            ELSE {[apart EXCEPT ![axis] = @ + args.gap * side] : side \in GapSides(axis, anchor, target)}
       [] args.align \in {"edge", "corner"} ->
            IF ~(AxisAligned(moving) /\ AxisAligned(reference)) THEN {}
            ELSE {[i \in Axes |-> IF i \in plane /\ (args.align = "corner" \/ i = long)
                                  THEN reference.lo[i] - moving.lo[i] ELSE apart[i]]}
       [] OTHER -> {}

\* args is [body, anchor, target, align, gap, flush]; flush stands for a mate of
\* that kind without the options that are not supported.
ExpandPlaceBody(args, state) ==
  LET allowed == args.flush /\ (AlignModes \/ (args.align = "center" /\ args.gap = 0))
      bodies == FindBody(state, args.body)
      anchors == ResolveFace(args.anchor, state)
      targets == ResolveFace(args.target, state)
  IN IF ~allowed \/ {} \in {bodies, anchors, targets} THEN {}
     ELSE LET moving == Only(bodies)
              anchor == Only(anchors)
              target == Only(targets)
              reference == OwnerBody(state, target)
          IN IF OwnerBody(state, anchor) # moving \/ reference = moving \/ None \in {anchor.center, target.center}
             THEN {}
             ELSE {IF \A i \in Axes : delta[i] = 0 THEN <<>>
                   ELSE <<[tool |-> "move_body", body |-> args.body, delta |-> delta]>> :
                     delta \in PlaceDeltas(args, moving, anchor, target, reference)}

\* (mutant of EnforceRelative) near every other body instead of one.
EnforceRelative_All(state, ref, delta) ==
  LET moved == Shifted(Only(FindBody(state, ref)), delta)
      others == Range(state) \ FindBody(state, ref)
  IN \A o \in others : Size(GapAlong(moved, o, MateAxis(moved, o))) <= FarTol

\* A raw move is refused when it would put the body into another or far from all.
EnforceRelative(state, ref, delta) ==
  LET found == FindBody(state, ref)
      moved == Shifted(Only(found), delta)
      others == Range(state) \ found
  IN found = {} \/ others = {} \/
     /\ \A o \in others : OverlapVolume(moved, o) <= OverlapTol
     /\ \E o \in others : Size(GapAlong(moved, o, MateAxis(moved, o))) <= FarTol

-----------------------------------------------------------------------------
(* align_axis and distribute_along                                         *)
-----------------------------------------------------------------------------
\* A token that was not read back is taken at its word, its body unknown.
ExpandAlignAxis(args, state) ==
  LET faces == ResolveFace(args.target, state)
      joint(owner, token) ==
        <<[tool |-> "joint", one |-> args.body, two |-> owner, face |-> token,
           axis |-> IF args.axis = None THEN 3 ELSE args.axis]>>
  IN IF FindBody(state, args.body) = {} THEN {}
     ELSE IF faces = {}
          THEN IF args.target.by = "token" THEN {joint(None, args.target.token)} ELSE {}
     ELSE IF Only(faces).type \notin {"cylindrical", None} THEN {}
     ELSE {joint(OwnerBody(state, Only(faces)).name, Only(faces).token)}

EdgeLength(e) == Max({Size(e.to[i] - e.from[i]) : i \in Axes})
Straight(b) == SelectSeq(b.edges, LAMBDA e : e.straight)
\* The first of the longest, even when several are as long.
LongestEdge(edges) ==
  edges[Min({n \in DOMAIN edges : \A k \in DOMAIN edges : EdgeLength(edges[n]) >= EdgeLength(edges[k])})]

\* (mutant of MergeCollinear) the first piece stands for all.
MergeCollinear_First(tied) == {tied[1]}

\* Pieces of one line are one edge from end to end; others are a real ambiguity.
MergeCollinear(tied) ==
  LET base == tied[1]
      axis == CHOOSE i \in Axes : Size(base.to[i] - base.from[i]) = EdgeLength(base)
      points == UNION {{e.from, e.to} : e \in Range(tied)}
      off(p, i) == p[i] - base.from[i]
      near(p) == SumFunction([i \in Axes \ {axis} |-> off(p, i) * off(p, i)]) <= PosTol * PosTol
      low == Min({p[axis] : p \in points})
      high == Max({p[axis] : p \in points})
  IN IF EdgeLength(base) = 0 \/ \E p \in points : ~near(p) THEN {}
     ELSE {[base EXCEPT !.token = "merged", !.from = [@ EXCEPT ![axis] = low], !.to = [base.from EXCEPT ![axis] = high]]}

\* direction is the sum of the words of the role (rear, top, left ...), None for
\* "longest"; words that cancel leave all the edges tied.
EdgeByRole(b, direction) ==
  LET edges == Straight(b)
      score(e) == SumFunction([i \in Axes |-> (e.from[i] + e.to[i]) * direction[i]])
      best == Max({score(e) : e \in Range(edges)})
      tied == SelectSeq(edges, LAMBDA e : best - score(e) <= 2 * PosTol)
  IN IF edges = <<>> THEN {}
     ELSE IF direction = None THEN {LongestEdge(edges)}
     ELSE IF Len(tied) = 1 THEN {tied[1]} ELSE MergeCollinear(tied)

\* Where the nodes are, in units of 1 / (2 * (count - 1)): spread over the edge,
\* or centred in it with the spacing that was asked for.
Offsets(count, length, spacing, fit) ==
  IF count <= 1 THEN <<length>>
  ELSE IF spacing # None /\ ~fit
       THEN [n \in 1 .. count |-> (count - 1) * (length - spacing * (count - 1) + 2 * (n - 1) * spacing)]
       ELSE [n \in 1 .. count |-> 2 * (n - 1) * length]

\* (mutant of ExpandDistribute) every parent takes all the nodes.
ExpandDistribute_All(args, edge) ==
  LET nodes == [n \in 1 .. args.count |-> [tool |-> "add", name |-> <<"Node", n>>, at |-> 0]]
  IN {nodes \o [k \in DOMAIN args.alternate |->
         [tool |-> "combine", target |-> <<args.alternate[k], 0>>, tools |-> {s.name : s \in Range(nodes)}]]}

\* The nodes, then each parent joined with its own, then the channel of a pin
\* cut out of each parent.
ExpandDistribute(args, edge) ==
  LET length == EdgeLength(edge)
      offsets == Offsets(args.count, length, args.spacing, args.fit)
      nodes == [n \in 1 .. args.count |-> [tool |-> "add", name |-> <<"Node", n>>, at |-> offsets[n]]]
      turn(n) == args.alternate[((n - 1) % Len(args.alternate)) + 1]
      parents == IF args.alternate = <<>> THEN <<>>
                 ELSE SetToSortSeq({n \in 1 .. args.count : \A k \in 1 .. n - 1 : turn(k) # turn(n)}, <)
      join(n) == [tool |-> "combine", target |-> <<turn(n), 0>>,
                  tools |-> {<<"Node", k>> : k \in {k \in 1 .. args.count : turn(k) = turn(n)}}]
      bore(n) == <<[tool |-> "add", name |-> <<"Bore", n>>, at |-> 0],
                   [tool |-> "combine", target |-> <<turn(n), 0>>, tools |-> {<<"Bore", n>>}]>>
  IN IF \/ args.count < 1
        \/ args.count > 1 /\ args.spacing # None /\ ~args.fit /\ args.spacing * (args.count - 1) > length
        \/ args.bore /\ args.alternate = <<>>
     THEN {}
     ELSE {nodes \o [k \in DOMAIN parents |-> join(parents[k])]
             \o IF args.bore THEN FlattenSeq([k \in DOMAIN parents |-> bore(parents[k])]) ELSE <<>>}

-----------------------------------------------------------------------------
(* Relations: a kind is a recipe over the tools above                      *)
-----------------------------------------------------------------------------
MovingRole(kind) == "bottom_planar"
\* (mutant of ReferenceRole) a lid goes onto the largest face.
ReferenceRole_Largest(kind) == "largest_planar"

ReferenceRole(kind) ==
  CASE kind = "flush_mate" -> "top_planar"
    [] kind = "cover_opening" -> "open_boundary"
    [] kind = "seat_in_pocket" -> "largest_planar"
PlaceKinds == {"flush_mate", "cover_opening", "seat_in_pocket"}
AxisKinds == {"coaxial_insert", "hinge_along_shared_edge"}

Role(body, role) == [by |-> "role", body |-> body, role |-> role]
\* A cylinder finds the hole of its own radius, the largest it has.
CylinderRadius(b) ==
  LET radii == {f.radius : f \in {f \in Range(b.faces) : f.type = "cylindrical"}} \ {None}
  IN IF radii = {} THEN None ELSE Max(radii)

\* roles are those that were asked for instead of the recipe's, or None; axis is
\* the axis of the joint, or None.
ResolveRelation(spec, state) ==
  LET moving == FindBody(state, spec.moving)
      reference == FindBody(state, spec.reference)
      asked(role, recipe) == IF role = None THEN recipe ELSE role
  IN CASE spec.kind \in PlaceKinds ->
            IF {} \in {moving, reference} THEN {}
            ELSE ExpandPlaceBody(
                   [body |-> spec.moving,
                    anchor |-> Role(spec.moving, asked(spec.roles.moving, MovingRole(spec.kind))),
                    target |-> Role(spec.reference, asked(spec.roles.reference, ReferenceRole(spec.kind))),
                    align |-> "center", gap |-> 0, flush |-> TRUE], state)
       [] spec.kind \in AxisKinds ->
            IF {} \in {moving, reference} THEN {}
            ELSE ExpandAlignAxis(
                   [body |-> spec.moving, axis |-> spec.axis,
                    target |-> [by |-> "predicate", body |-> spec.reference, type |-> "cylindrical",
                                normal |-> None, radius |-> CylinderRadius(Only(moving)),
                                largest |-> FALSE]], state)
       [] spec.kind = "distribute_on_edge" ->
            IF reference = {} \/ Straight(Only(reference)) = <<>> THEN {}
            ELSE ExpandDistribute([spec.args EXCEPT !.bore = FALSE], LongestEdge(Straight(Only(reference))))
       [] OTHER -> {}

\* The contact that was asked for, in the model after the step.
VerifyRelation(spec, state) ==
  LET moving == FindBody(state, spec.moving)
      reference == FindBody(state, spec.reference)
      m == Only(moving)
      r == Only(reference)
      gap == GapAlong(m, r, MateAxis(m, r))
  IN CASE {} \in {moving, reference} -> [ok |-> FALSE, gap |-> None]
       [] {} \notin {moving, reference} /\ spec.kind \in {"flush_mate", "cover_opening"} ->
            [ok |-> gap >= 0 /\ gap <= ContactTol, gap |-> gap]
       [] {} \notin {moving, reference} /\ spec.kind \in AxisKinds \cup {"seat_in_pocket"} ->
            [ok |-> OverlapVolume(m, r) > 0, gap |-> None]
       [] OTHER -> [ok |-> TRUE, gap |-> None]

\* (mutant of ProposeRepair) towards the wrong side.
ProposeRepair_Same(report, spec) == report.gap

\* The offset along the mate that closes a gap or ends a penetration, or None.
ProposeRepair(report, spec) ==
  IF report.gap = None \/ report.ok THEN None ELSE -report.gap

-----------------------------------------------------------------------------
(* What the planner is told of the model                                   *)
-----------------------------------------------------------------------------

\* (mutant of Contained) against its own volume.
Contained_Own(a, b) == 10 * OverlapVolume(a, b) >= 8 * Volume(a)

Contained(a, b) ==
  LET smaller == Min({Volume(a), Volume(b)})
  IN OverlapVolume(a, b) > 0 /\ smaller > 0 /\ 10 * OverlapVolume(a, b) >= 8 * smaller
Interferes(a, b) ==
  OverlapVolume(a, b) > 0 /\ GapAlong(a, b, MateAxis(a, b)) < -ContactTol /\ ~Contained(a, b)
Touches(a, b) ==
  /\ \A i \in Axes \ {MateAxis(a, b)} : Overlap(a, b, i) > 0
  /\ Size(GapAlong(a, b, MateAxis(a, b))) <= ContactTol \/ Interferes(a, b) \/ Contained(a, b)

-----------------------------------------------------------------------------
(* References in the arguments of any other tool: a value is [kind, ref],  *)
(* where ref is None, "later" (an expression that does not begin with its  *)
(* reference, which is not looked for), or what the reference selects:     *)
(* "vector", "axis", "scalar" or "unknown".                                *)
-----------------------------------------------------------------------------
Takes == [point |-> "vector", axis |-> "axis", scalar |-> "scalar"]
\* A field of a kind the resolver does not know keeps no reference.
ResolveInline(args) ==
  LET seen == {k \in DOMAIN args : args[k].ref \notin {None, "later"}}
  IN IF \E k \in seen : args[k].kind \notin DOMAIN Takes \/ args[k].ref # Takes[args[k].kind]
     THEN {} ELSE {[k \in DOMAIN args |-> IF k \in seen THEN [args[k] EXCEPT !.ref = None] ELSE args[k]]}

\* A step of a read-only tool is left as it is planned, its references included.
NeedsResolution(args, readOnly) == ~readOnly /\ \E k \in DOMAIN args : args[k].ref \notin {None, "later"}
ResolveStep(args, readOnly) == IF NeedsResolution(args, readOnly) THEN ResolveInline(args) ELSE {args}
=============================================================================
