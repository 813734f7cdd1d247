----------------------------- MODULE MCComponents -----------------------------
(***************************************************************************)
(* The components whose state no other modelled component shares, in one   *)
(* model: part names the one that runs, the others stay as they began.     *)
(* The JSON store runs in two halves, its tree and its scopes; the chat    *)
(* turns of part "titles" are those of a server that requires titles; the  *)
(* Redis queue is one whose jobs outlast their markers and whose replies   *)
(* get lost.                                                               *)
(***************************************************************************)
EXTENDS JsonStore, TablesPromise, SnapshotPromise, TracePromise, ScenePromise, ChatPromise, Sequences, TLC

CONSTANTS
  Spaces, Home,  \* ChatTurns
  Threads        \* PostgresStore

VARIABLES
  part,
  zset, marker, seq, caller, worker,
  spend, edit, left,
  proc, boot, todo, boots, calls, stale, ended,
  buffer, context, errors,
  writes, faults,
  result, damage,
  doc, told, script, called, clean, first

Chat == INSTANCE ChatTurns WITH Projects <- Spaces, MaxEdits <- 3
Titled == INSTANCE ChatTurns WITH Projects <- Spaces, MaxEdits <- 3, RequireTitle <- TRUE
Queue == INSTANCE RedisJobQueue WITH
  Items <- {"i1", "i2"}, Workers <- {"w1", "w2"}, Callers <- {"c1"}, NoItem <- None,
  Priorities <- {0, 1}, Scale <- 4, MaxSeq <- 3, SlowJobs <- TRUE, LostReplies <- TRUE
Tables == INSTANCE PostgresStore WITH
  starts <- boots, MaxRows <- 3, MaxCalls <- 3, LinkColumns <- FALSE
Recorder == INSTANCE TraceRecorder WITH
  Batch <- 2, Ring <- 3, MaxEvents <- 2, MaxErrors <- 1
Workspace == INSTANCE Snapshots WITH
  Files <- {"a", "b"}, Contents <- {"u", "v"}, MaxSnapshots <- 3, MaxWrites <- 2, MaxFaults <- 1

ASSUME Chat!ChatAssumption /\ Chat!AbsentAssumption /\ Tables!PoolAssumption /\ Recorder!SizesAssumption
       /\ Workspace!MissingAssumption
-----------------------------------------------------------------------------
(* A plan for Blender: every tool that selects, activates or deletes.      *)
-----------------------------------------------------------------------------
Do(tool, name, other) == [tool |-> tool, name |-> name, other |-> other, keep |-> FALSE]
Keeping(name, other) == [Do("boolean", name, other) EXCEPT !.keep = TRUE]
BlenderPlan ==
  <<Do("create", "a", None), Do("create", "b", None), Do("create", "b", None), Do("bevel", None, None),
    Keeping("a", "b"), Do("boolean", None, "b"), Do("material", None, None), Do("printability", None, None),
    Do("export", None, None), Do("create", "b", None), Do("boolean", None, "b")>>
Blender == INSTANCE BlenderRuns WITH Plan <- BlenderPlan, MaxAttempts <- 3, MaxFaults <- 2, faults <- damage
ASSUME Blender!PlanAssumption /\ Blender!NoneAssumption
-----------------------------------------------------------------------------
(* Plans for Fusion: two calls out of every tool, in an empty design and   *)
(* in one with two bodies and a closed sketch.                             *)
-----------------------------------------------------------------------------
A == <<"A">>
B == <<"B">>
K == <<"K">>
Step(tool, name, newName, op, ref, refs, items) ==
  [tool |-> tool, name |-> name, result |-> newName, op |-> op, ref |-> ref, refs |-> refs, items |-> items]
Named(tool, name, op) == Step(tool, name, None, op, None, <<>>, 0)
On(tool, ref, op) == Step(tool, None, None, op, ref, <<>>, 0)
Taking(tool, ref, op, refs) == Step(tool, None, None, op, ref, refs, 0)
FusionSteps ==
  {Named("open_design", None, op) : op \in {"new", "active"}}
  \cup {Named("create_sketch", K, ""), Named("add_construction_plane", K, "")}
  \cup {On(tool, K, "closed") : tool \in {"add_polygon", "add_line", "add_ellipse", "add_slot"}}
  \cup {On(tool, K, "") : tool \in {"add_arc", "add_spline"}}
  \cup {Step("add_rectangle", None, None, "", K, <<>>, n) : n \in {1, 2}}
  \cup {Taking("add_circle", K, "", refs) : refs \in {<<>>, <<None, K>>}}
  \cup {Named(tool, A, "new_body") : tool \in {"add_box", "add_cone", "add_cylinder"}}
  \cup {Named("add_box", A \o <<p>>, "") : p \in {"Shank", "LeafA"}}
  \cup {Step("add_sphere", B, A, "", None, <<>>, 0), Step("add_cylinder", A, None, "", None, <<>>, 2)}
  \cup {Step("extrude_profile", None, r, op, K, <<>>, 0) :
          r \in {None, A}, op \in {"new_body", "join", "cut_through"}}
  \cup {Step("extrude_profile", None, None, "new_body", K, <<>>, -1)}
  \cup {Step("revolve_profile", B, None, op, None, <<>>, 0) : op \in {"cut", "other"}}
  \cup {Step("loft_profiles", None, A, "new_body", None, <<K, K>>, 0),
        Taking("sweep_profile", K, "join", <<K>>), Taking("sweep_profile", K, "cut", <<K>>)}
  \cup {On("create_surface_patch", K, "sketch"), On("create_surface_patch", A, "edges")}
  \cup {Taking("thicken_surface", None, "new_body", <<A>>), Taking("stitch_surfaces", None, "", <<A, B>>),
        Taking("trim_surface", A, "", <<B>>), On("offset_surface", A, "")}
  \cup {On(tool, A, "") : tool \in {"extend_surface", "unstitch_surface", "fillet_edges", "mirror_feature",
                                    "make_component", "delete_body", "thread"}}
  \cup {On("thread", A, "measured"), On("hole", A, "counterbore"), On("hole", None, ""),
        On("split_body", A, "offset"), On("make_component", B, "")}
  \cup {Step(tool, None, None, "", A, <<>>, 2) : tool \in {"pattern_rectangular", "pattern_circular"}}
  \cup {Taking("combine_bodies", A, op, <<B>>) : op \in {"join", "cut"}}
  \cup {Taking("joint", A, "", <<B>>), Taking("set_parameter", None, "", <<A, B>>)}
  \cup {Named("metric_screw", A, op) : op \in {"hex", "round"}}
  \cup {Named("knuckle_hinge", A, op) : op \in {"joint", ""}}
  \cup {On("delete_body", <<"0">>, ""), Taking("thicken_surface", None, "", <<<<"1">>>>)}
  \cup {Named(tool, None, "") : tool \in {"query_geometry", "export_stl", "rollback_timeline", "place_body"}}
Boxes == <<Named("add_box", A, "new_body"), Named("add_box", B, "new_body")>>
FusionScripts ==
  {<<>>} \cup {<<a, b>> : a \in FusionSteps, b \in FusionSteps}
  \cup {Boxes \o <<a>> : a \in FusionSteps}
  \cup {<<Named("create_sketch", K, ""), On("add_polygon", K, "closed"), a>> : a \in FusionSteps}
  \cup {Boxes \o <<Taking("combine_bodies", A, "join", <<B>>), a>> : a \in FusionSteps}
\* The INSTANCE below is for the operators of FusionDocument alone.
Ops == INSTANCE FusionDocument WITH Scripts <- {}, Designs <- {}, Knuckles <- 3, Pieces <- 2, done <- called
Prepared ==
  LET built == Ops!AddSketch(Ops!Build(Ops!Empty, <<A, B>>), K)
  IN Ops!Draw(built, built.sketches[1], "closed")
Fusion == INSTANCE FusionDocument WITH
  Scripts <- FusionScripts, Designs <- {Ops!Empty, Prepared}, Knuckles <- 3, Pieces <- 2, done <- called
-----------------------------------------------------------------------------
(* The composition                                                         *)
-----------------------------------------------------------------------------
turnVars == <<chats, log, files, spend, turn, edit, left, dropped, overlapped, paid, peak, gone, settled>>
tableVars == <<pg, proc, boot, todo, boots, calls, stale, raced, counted, ended>>
traceVars == <<order, buffer, thread, context, rows, errors, made, lost, strayed, evicted, twice>>
snapshotVars == <<workspace, folder, row, job, writes, faults, before, touched>>
blenderVars == <<blend, result, run, done, damage, struck, blind>>
fusionVars == <<doc, told, script, called, clean, first>>
queueVars == <<zset, marker, seq, caller, worker>>
allVars == <<part, vars, queueVars, turnVars, tableVars, traceVars, snapshotVars, blenderVars, fusionVars>>

MCInit ==
  /\ part \in {"tree", "scope", "queue", "titles", "turns", "edits", "postgres", "trace", "snapshots", "blender", "fusion"}
  /\ Init /\ Queue!Init /\ Chat!Init /\ Tables!Init /\ Recorder!Init /\ Workspace!Init /\ Blender!Init
  /\ Fusion!Init
  /\ script = <<>> <=> part # "fusion"
  /\ part # "fusion" => doc = Ops!Empty
  /\ part # "snapshots" => workspace = Missing

\* Parts "turns" and "titles" are two requests and one edit at any moment of
\* theirs; "edits" is three edits after the requests.
EditsFollow ==
  /\ turn' # turn => left = 3
  /\ left' # left => Chat!TurnsInFlight = {}

MCNext ==
  /\ \/ part = "tree" /\ TreeNext
     \/ part = "scope" /\ ScopeNext
     \/ part = "queue" /\ Queue!Next
     \/ part = "titles" /\ Titled!Next /\ left' >= 2
     \/ part = "turns" /\ Chat!Next /\ left' >= 2
     \/ part = "edits" /\ Chat!Next /\ EditsFollow
     \/ part = "postgres" /\ Tables!Next
     \/ part = "trace" /\ Recorder!Next
     \/ part = "snapshots" /\ Workspace!Next
     \/ part = "blender" /\ Blender!Next
     \/ part = "fusion" /\ Fusion!Next
  /\ UNCHANGED part
  /\ IF part \in {"tree", "scope"} THEN TRUE ELSE UNCHANGED vars
  /\ IF part = "queue" THEN TRUE ELSE UNCHANGED queueVars
  /\ IF part \in {"titles", "turns", "edits"} THEN TRUE ELSE UNCHANGED turnVars
  /\ IF part = "postgres" THEN TRUE ELSE UNCHANGED tableVars
  /\ IF part = "trace" THEN TRUE ELSE UNCHANGED traceVars
  /\ IF part = "snapshots" THEN TRUE ELSE UNCHANGED snapshotVars
  /\ IF part = "blender" THEN TRUE ELSE UNCHANGED blenderVars
  /\ IF part = "fusion" THEN TRUE ELSE UNCHANGED fusionVars

MCSpec == MCInit /\ [][MCNext]_allVars

Symmetry == Permutations(Sessions) \cup Permutations(Requests)
-----------------------------------------------------------------------------
(* The properties of the parts, stated in their modules                    *)
-----------------------------------------------------------------------------

\* Chat turns, runs of Blender, tables in PostgreSQL, snapshots and traces: see
\* ChatPromise, ScenePromise, TablesPromise, SnapshotPromise and TracePromise.

\* With require_chat_title switched on, no session has messages before it has a
\* title, whatever edit comes between the steps of a turn: see ChatPromise.
TitlesComeFirst == part = "titles" => Titled!TitledBeforeMessages

\* What a worker pops comes first by priority and sequence number, also when a
\* marker expired under its job or a reply was lost: see RedisJobQueue.
ServedInOrder == [][Queue!InOrder]_queueVars

Critique == INSTANCE ModelCritique
\* What the intent counts wrong: a list of cylinders as one body, a name that the
\* host has to change, or that result_name replaces, the body that a join makes or
\* takes, those that a cut consumes or splits, a split into more than two, a
\* design that is left; and an undo, which no plan contains.
Miscounted(n) ==
  \/ script[n].tool = "add_cylinder" /\ script[n].items > 0
  \/ /\ script[n].tool \in Critique!NamedPrimitives
     /\ \/ script[n].result # None
        \/ \E k \in 1 .. n - 1 : script[k].tool \in Critique!NamedPrimitives /\ script[k].name = script[n].name
  \/ /\ script[n].tool \in {"extrude_profile", "revolve_profile", "sweep_profile"}
     /\ script[n].op \in {"join", "cut", "cut_through"}
  \/ script[n].tool \in {"hole", "split_body", "rollback_timeline"}
  \/ script[n].tool = "combine_bodies" /\ script[n].op = "cut"
  \/ script[n].tool = "open_design" /\ script[n].op = "new" /\ n > 1

\* From an empty design, a plan none of whose calls failed and none of whose
\* steps the intent is known to miscount is never reported to the user as wrong.
VerdictIsFair ==
  first = Ops!Empty /\ clean /\ called = Len(script) /\ (\A n \in DOMAIN script : ~Miscounted(n)) =>
    Critique!BuildModelVerdict(Critique!IntentFromPlan(script, TRUE), <<>>, Ops!Everywhere(doc), {}, <<>>).overall = "ok"

\* What a plan and its user are told of a design in Fusion is so: names and
\* handles (FusionDocument), and the verdict on the whole.
ModelIsAsTold == Fusion!HandlesHold /\ VerdictIsFair

\* A call that failed took no body away: see FusionDocument.
FailedCallKeepsBodies == [][Fusion!FailureKeepsBodies]_fusionVars
=============================================================================
