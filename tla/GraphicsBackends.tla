--------------------------- MODULE GraphicsBackends ---------------------------
(***************************************************************************)
(* From a scene to three backends: gpu_command_stream.js makes a stream of *)
(* commands of it, the adapters of WebGL, GLES and OpenGL make a plan each *)
(* of a stream, in whatever mode they are told, and                        *)
(* graphics_backend_equivalence.js compares plans, which need not have     *)
(* been made of one stream.                                                *)
(*                                                                         *)
(* What is drawn is told by its path; geometry and receipts go with it.    *)
(* A witness or a receipt is a hash, taken to be free of collisions.       *)
(***************************************************************************)
EXTENDS Naturals, Sequences, SequencesExt, Sorting

CONSTANTS Paths,     \* the paths of what may be drawn
          NoPath,    \* what has none
          None,      \* no stream, no plan
          TellModes, \* modes an adapter may be told, besides the stream's own
          Items,     \* lists of blocks, edges or templates, told by their paths
          MaxStreams \* bound: streams made

VARIABLES stream,    \* the stream made last
          plans,     \* the plan each backend made last
          made       \* how many streams were made

vars == <<stream, plans, made>>

Modes == {"polyform-2d", "polyform-2_5d", "polyform-3d", "scope-graph-3d",
          "barcode-template-scene"}
Backends == {"webgl", "gles", "opengl"}
-----------------------------------------------------------------------------
(* Streams. *)

Command(kind, path, mode) == [kind |-> kind, path |-> path, witness |-> <<kind, path, mode>>]

\* beginScene and endScene have a witness and no metadata.
Scene(commands, mode) ==
  <<Command("BEGIN_SCENE", None, mode)>> \o commands \o <<Command("END_SCENE", None, mode)>>

BlockKinds == <<"DEFINE_BLOCK", "DEFINE_VERTEX_BUFFER", "DEFINE_INDEX_BUFFER",
                "DEFINE_MATERIAL", "DRAW_POLYFORM", "ATTACH_OMI_METADATA">>

BlockCommands(block, mode) ==
  [k \in DOMAIN BlockKinds |-> Command(BlockKinds[k], block, mode)]

BuildFromBlocks(blocks, mode) ==
  FoldLeft(LAMBDA commands, block : commands \o BlockCommands(block, mode),
           <<>>, blocks)

\* project does not use the closures it is given; this is for streams that
\* others make.
BuildClosureCommands(closures, mode) ==
  [i \in DOMAIN closures |-> Command("DRAW_CLOSURE_EDGE", closures[i], mode)]

BuildScopeCommands(edges, mode) ==
  [i \in DOMAIN edges |-> Command("DRAW_SCOPE_EDGE", edges[i], mode)]

BuildBarcodeCommands(templates, mode) ==
  [i \in DOMAIN templates |-> Command("ATTACH_OMI_METADATA", templates[i], mode)]

\* project: a mode uses what it draws and leaves the rest alone.
Projected(mode, given) ==
  LET commands == CASE mode = "scope-graph-3d" -> BuildScopeCommands(given.edges, mode)
                    [] mode = "barcode-template-scene" ->
                         BuildBarcodeCommands(given.templates, mode)
                    [] OTHER -> BuildFromBlocks(given.blocks, mode)
  IN  [mode |-> mode, commands |-> Scene(commands, mode)]

CommandReceipt(s) == s.commands
-----------------------------------------------------------------------------
(* Plans. *)

Kinds == Range(BlockKinds) \cup {"BEGIN_SCENE", "END_SCENE", "DRAW_CLOSURE_EDGE",
                                 "DRAW_SCOPE_EDGE"}

ValidateStream(s, mode) ==
  /\ s # None /\ s.commands # <<>>
  /\ mode \in Modes
  /\ Head(s.commands).kind = "BEGIN_SCENE"
  /\ Last(s.commands).kind = "END_SCENE"
  /\ \A i \in DOMAIN s.commands : s.commands[i].kind \in Kinds

\* What has a primitive of its own has it in every mode.
TopologyFor(mode, kind) ==
  CASE kind = "DRAW_SCOPE_EDGE"   -> "line-strip"
    [] kind = "DRAW_CLOSURE_EDGE" -> "line-list"
    [] OTHER ->
         CASE mode = "polyform-2d"    -> "triangle-fan"
           [] mode = "polyform-2_5d"  -> "triangle-strip"
           [] mode = "polyform-3d"    -> "triangles"
           [] mode = "scope-graph-3d" -> "line-list"
           [] OTHER                   -> "triangle-list"

PrimitiveModeFor(mode, kind) ==
  CASE kind = "DRAW_SCOPE_EDGE"   -> "LINES"
    [] kind = "DRAW_CLOSURE_EDGE" -> "LINE_STRIP"
    [] OTHER ->
         CASE mode = "polyform-2d"    -> "TRIANGLE_FAN"
           [] mode = "polyform-2_5d"  -> "TRIANGLE_STRIP"
           [] mode = "scope-graph-3d" -> "LINES"
           [] OTHER                   -> "TRIANGLES"

GLPrimitiveModeFor(mode, kind) ==
  CASE kind = "DRAW_SCOPE_EDGE"   -> "GL_LINES"
    [] kind = "DRAW_CLOSURE_EDGE" -> "GL_LINE_STRIP"
    [] OTHER ->
         CASE mode = "polyform-2d"    -> "GL_TRIANGLE_FAN"
           [] mode = "polyform-2_5d"  -> "GL_TRIANGLE_STRIP"
           [] mode = "scope-graph-3d" -> "GL_LINES"
           [] OTHER                   -> "GL_TRIANGLES"

\* The metadata of a plan: of the first command that names a path, or of the
\* last that has metadata; its witness is the scene's if there is none.
PlanMetadata(commands) ==
  FoldLeft(LAMBDA m, c : IF c.path # None /\ m.path = NoPath
                         THEN [path |-> c.path, witness |-> c.witness] ELSE m,
           [path |-> NoPath, witness |-> commands[1].witness], commands)

DrawKinds == {"DRAW_POLYFORM", "DRAW_CLOSURE_EDGE", "DRAW_SCOPE_EDGE"}

\* The commands of some kinds, one list of a plan: they stay in their order.
Collected(commands, kinds) ==
  LET places == Sorted({i \in DOMAIN commands : commands[i].kind \in kinds}, <)
  IN  [n \in DOMAIN places |-> commands[places[n]]]

\* adapt, the same for all backends but for the topology of what is drawn.
AdaptWith(topologyOf, s, mode) ==
  LET Only(kinds) == Collected(s.commands, kinds)
      draws == Only(DrawKinds)
  IN  IF ~ValidateStream(s, mode) THEN None
      ELSE [mode        |-> mode,
            receipt     |-> CommandReceipt(s),
            metadata    |-> PlanMetadata(s.commands),
            buffers     |-> Only({"DEFINE_VERTEX_BUFFER", "DEFINE_INDEX_BUFFER"}),
            materials   |-> Only({"DEFINE_MATERIAL"}),
            draws       |-> [i \in DOMAIN draws |->
                               [command |-> draws[i],
                                topology |-> topologyOf[draws[i].kind]]],
            attachments |-> Only({"ATTACH_OMI_METADATA"})]

AdaptWebGL(s, mode) == AdaptWith([k \in DrawKinds |-> TopologyFor(mode, k)], s, mode)
AdaptGLES(s, mode) == AdaptWith([k \in DrawKinds |-> PrimitiveModeFor(mode, k)], s, mode)
AdaptOpenGL(s, mode) == AdaptWith([k \in DrawKinds |-> GLPrimitiveModeFor(mode, k)], s, mode)
-----------------------------------------------------------------------------
(* Comparison. *)

\* "triangle-list" is not among the names it knows.
CanonicalPrimitive(topology) ==
  CASE topology \in {"triangle-fan", "TRIANGLE_FAN", "GL_TRIANGLE_FAN"} -> "triangle-fan"
    [] topology \in {"triangle-strip", "TRIANGLE_STRIP", "GL_TRIANGLE_STRIP"} -> "triangle-strip"
    [] topology \in {"triangles", "TRIANGLES", "GL_TRIANGLES"} -> "triangles"
    [] topology \in {"line-list", "line-strip", "LINES", "LINE_STRIP",
                     "GL_LINES", "GL_LINE_STRIP"} -> "lines"
    [] OTHER -> topology

\* normalizeRecord drops the witness of a record; its ids are under names it
\* does not read.
NormalizeRecord(command) == <<command.kind, command.path>>
NormalizeRecords(commands) == [i \in DOMAIN commands |-> NormalizeRecord(commands[i])]

\* Fault: which stream a plan was made of is not compared.
EquivalenceKeyOfRecords(plan) ==
  <<plan.mode, NormalizeRecords(plan.buffers), NormalizeRecords(plan.materials),
    [i \in DOMAIN plan.draws |-> <<NormalizeRecord(plan.draws[i].command),
                                   CanonicalPrimitive(plan.draws[i].topology)>>],
    NormalizeRecords(plan.attachments)>>

EquivalenceKey(plan) ==
  <<plan.mode, plan.receipt, plan.metadata,
    NormalizeRecords(plan.buffers), NormalizeRecords(plan.materials),
    [i \in DOMAIN plan.draws |-> <<NormalizeRecord(plan.draws[i].command),
                                   CanonicalPrimitive(plan.draws[i].topology)>>],
    NormalizeRecords(plan.attachments)>>

\* comparePlans, of three plans that are there.
Same == \A b \in Backends : EquivalenceKey(plans[b]) = EquivalenceKey(plans["webgl"])
-----------------------------------------------------------------------------
(* The system. *)

Init == stream = None /\ plans = [b \in Backends |-> None] /\ made = 0

Make(s) ==
  /\ made < MaxStreams
  /\ made' = made + 1
  /\ stream' = s
  /\ UNCHANGED plans

Project(mode, items) ==
  Make(Projected(mode, [blocks |-> items, edges |-> items, templates |-> items]))

\* A stream of someone else's, with closure edges, or cut off.
OtherStream(mode, items) ==
  \/ Make([mode |-> mode, commands |-> Scene(BuildClosureCommands(items, mode), mode)])
  \/ Make([mode |-> mode, commands |-> Front(Scene(BuildFromBlocks(items, mode), mode))])

Adapt(backend, mode) ==
  LET plan == CASE backend = "webgl"  -> AdaptWebGL(stream, mode)
                [] backend = "gles"   -> AdaptGLES(stream, mode)
                [] backend = "opengl" -> AdaptOpenGL(stream, mode)
  IN  /\ plan # None
      /\ plans' = [plans EXCEPT ![backend] = plan]
      /\ UNCHANGED <<stream, made>>

Next ==
  \/ \E mode \in Modes, items \in Items : Project(mode, items) \/ OtherStream(mode, items)
  \/ stream # None /\ \E backend \in Backends, mode \in {stream.mode} \cup TellModes :
                        Adapt(backend, mode)

Spec == Init /\ [][Next]_vars
-----------------------------------------------------------------------------
(* Properties. *)

Complete == \A b \in Backends : plans[b] # None

\* Types of the state: a plan is of a known mode and of a whole stream.
TypeOK ==
  /\ stream # None => stream.mode \in Modes
  /\ \A b \in Backends : plans[b] # None =>
       /\ plans[b].mode \in Modes
       /\ plans[b].metadata.path \in Paths \cup {NoPath}
       /\ Last(plans[b].receipt).kind = "END_SCENE"

\* "Same GPU command stream must produce equivalent WebGL/GLES/OpenGL
\* summaries" (docs/PHASE-59D), and only the same: plans are told to be the
\* same when they were made of one stream in one mode, but for polyforms that
\* are drawn in the mode of barcode templates.
SameIsOneStream ==
  Complete =>
    LET one == \A b \in Backends : /\ plans[b].receipt = plans["webgl"].receipt
                                   /\ plans[b].mode = plans["webgl"].mode
        astray == /\ plans["webgl"].mode = "barcode-template-scene"
                  /\ \E i \in DOMAIN plans["webgl"].draws :
                       plans["webgl"].draws[i].command.kind = "DRAW_POLYFORM"
    IN  Same <=> one /\ ~astray

\* A plan stands for what it draws: if anything in it has a path its metadata
\* has, and the path is one of those.
MetadataIsOfFirst ==
  \A b \in Backends : plans[b] # None =>
    LET commands == plans[b].receipt
        named == {i \in DOMAIN commands : commands[i].path \notin {None, NoPath}}
    IN  plans[b].metadata.path =
          IF named = {} THEN NoPath ELSE commands[Min(named)].path

\* Plans are told apart exactly when they draw different things, and each says
\* of itself what it draws.
PlansAgree == SameIsOneStream /\ MetadataIsOfFirst
=============================================================================
