---------------------------- MODULE ComposerShell ----------------------------
(***************************************************************************)
(* The composer: one source, the parts made of it, the views it is shown   *)
(* in, and the scene that is composed over it (composer_shell.js and the   *)
(* parts it calls).  The regions of the stream are in StreamRegions, the   *)
(* composition of templates is in TemplateComposition.                     *)
(*                                                                         *)
(* A source is a name; whatever is made of it is told by that name.  What  *)
(* throws leaves what was assigned before it threw.                        *)
(***************************************************************************)
EXTENDS EditLog

CONSTANTS Sources,      \* sources that may be typed
          Malformed,    \* those that read "(omi" and are no declaration
          IdOf,         \* the id of the document a source is parsed to
          Templates,    \* paths of the templates that may be dropped
          FrameCount,   \* frames of the animation, 5040 in the code
          MaxLog        \* bound: events of the edit log

VARIABLES source,         \* the source, in the state and in its buffer
          document,       \* the source that was parsed last
          triangulation,  \* the source that was triangulated, and the view
          stream,         \* the source the stream declares
          viewMode,       \* the mode the shell believes it is in
          switcher,       \* the mode of the view switcher
          frame,          \* the frame of the animation
          subchart,       \* the mode of the subchart
          cube,           \* the mode of the cube differential
          composition,    \* the document the templates are of, and their mode
          scene,          \* components and relations
          log             \* the edit log

parts == <<source, document, triangulation, stream>>
views == <<viewMode, switcher, frame, subchart, cube>>
vars == <<parts, views, composition, scene, log>>
-----------------------------------------------------------------------------
(* Names of views. *)

ViewOrder == <<"lazy", "greedy", "static", "animated">>
Views == Range(ViewOrder)

\* normalizeViewName and describeView: each view goes by several names.
NormalizeViewName(name) ==
  CASE name \in {"barcode", "sealed-address", "compact"} -> "lazy"
    [] name \in {"chart", "unfolded"}                    -> "greedy"
    [] name \in {"reconciled", "reconciliation"}         -> "static"
    [] name \in {"sexagesimal", "rolling-difference"}    -> "animated"
    [] OTHER                                             -> name

\* normalizeMode of the cube: what it does not know is lazy.
CubeMode(name) == IF name \in {"greedy", "chart", "unfolded"} THEN "greedy" ELSE "lazy"

NextView(mode) ==
  LET i == CHOOSE i \in DOMAIN ViewOrder : ViewOrder[i] = mode
  IN  ViewOrder[(i % Len(ViewOrder)) + 1]
-----------------------------------------------------------------------------
(* The source and what is made of it. *)

\* The view is in the modality of each triplet, and the triplets are hashed.
TriangulateSource(of, view) == [of |-> of, view |-> view, identity |-> <<of, view>>]

Init ==
  /\ source \in Sources \ Malformed
  /\ document = source
  /\ triangulation = TriangulateSource(source, "lazy")
  /\ stream = source
  /\ viewMode = "lazy" /\ switcher = "lazy" /\ frame = 0
  /\ subchart = "lazy" /\ cube = "lazy"
  /\ composition = [of |-> IdOf[source], mode |-> "lazy"]
  /\ scene = [components |-> <<>>, relations |-> <<>>]
  /\ log = <<>>

\* Fault: the stream is told before the triangulation, which may throw.
ReparseStreamFirst(next) ==
  /\ source' = next
  /\ document' = next
  /\ stream' = next
  /\ triangulation' = IF next \in Malformed THEN triangulation
                      ELSE TriangulateSource(next, viewMode)
  /\ UNCHANGED <<views, composition, scene, log>>

\* reparse. A malformed source throws in the middle: the document is of it
\* by then, the triangulation and the stream are not.
Reparse(next) ==
  /\ source' = next
  /\ document' = next
  /\ IF next \in Malformed
     THEN UNCHANGED <<triangulation, stream>>
     ELSE /\ triangulation' = TriangulateSource(next, viewMode)
          /\ stream' = next
  /\ UNCHANGED <<views, composition, scene, log>>
-----------------------------------------------------------------------------
(* Views. The switcher throws for a view it does not know. *)

\* Fault: the switcher takes whatever it is told.
SetViewModeUnchecked(name) ==
  /\ switcher' = NormalizeViewName(name)
  /\ viewMode' = switcher'
  /\ UNCHANGED <<parts, frame, subchart, cube, composition, scene, log>>

SetViewMode(name) ==
  /\ NormalizeViewName(name) \in Views
  /\ switcher' = NormalizeViewName(name)
  /\ viewMode' = switcher'
  /\ UNCHANGED <<parts, frame, subchart, cube, composition, scene, log>>

\* toggleViewMode goes by the switcher's mode, not by the shell's.
ToggleViewMode ==
  /\ switcher' = NextView(switcher)
  /\ viewMode' = switcher'
  /\ UNCHANGED <<parts, frame, subchart, cube, composition, scene, log>>

\* setAnimationFrame, nextAnimationFrame and previousAnimationFrame.
Seek(next) ==
  /\ frame' = next % FrameCount
  /\ switcher' = "animated"
  /\ viewMode' = switcher'
  /\ UNCHANGED <<parts, subchart, cube, composition, scene, log>>

\* To look at the frame is to switch the view; the shell is not told.
CurrentAnimationFrame ==
  /\ switcher' = "animated"
  /\ UNCHANGED <<parts, viewMode, frame, subchart, cube, composition, scene, log>>

\* openSubchart ("greedy") and refoldSubchart ("lazy").
FoldSubchart(mode) ==
  /\ subchart' = mode
  /\ viewMode' = mode
  /\ switcher' = mode
  /\ UNCHANGED <<parts, frame, cube, composition, scene, log>>

SetCubeDifferentialMode(name) ==
  /\ cube' = CubeMode(name)
  /\ UNCHANGED <<parts, viewMode, switcher, frame, subchart, composition, scene, log>>
-----------------------------------------------------------------------------
(* The composition and the scene. *)

\* The templates are composed anew, under the id of the document of the day.
ComposeBarcodeTemplates(mode) ==
  /\ composition' = [of |-> IdOf[document], mode |-> mode]
  /\ UNCHANGED <<parts, views, scene, log>>

\* setBarcodeCompositionMode: it throws for another name.
SetBarcodeCompositionMode(name) ==
  /\ name \in {"lazy", "greedy"}
  /\ composition' = [composition EXCEPT !.mode = name]
  /\ UNCHANGED <<parts, views, scene, log>>

ProposedProperty(component) == <<"component-source", component.id, component.path>>

\* dropTemplate: the component is in the scene before it is proposed.
DropTemplate(template, proposed) ==
  LET component == [id |-> Len(scene.components) + 1,
                    path |-> IF proposed = NoKey THEN template ELSE proposed]
  IN  /\ Len(log) < MaxLog
      /\ scene' = [scene EXCEPT !.components = Append(@, component)]
      /\ log' = AppendProposal(log, <<"ADD_COMPONENT", component.path>>,
                               ProposedProperty(component))
      /\ UNCHANGED <<parts, views, composition>>

\* connectComponents, of any two paths.
ConnectComponents(from, to) ==
  LET edge == [id |-> Len(scene.relations) + 1, from |-> from, to |-> to]
  IN  /\ Len(log) < MaxLog
      /\ scene' = [scene EXCEPT !.relations = Append(@, edge)]
      /\ log' = AppendProposal(log, <<"CREATE_RELATION", edge.id>>, <<"relation", from, to>>)
      /\ UNCHANGED <<parts, views, composition>>

\* The scene does not hear of commits, nor of what is undone.
Commit(seq) ==
  /\ Len(log) < MaxLog
  /\ log' = CommitProposal(log, seq)
  /\ UNCHANGED <<parts, views, composition, scene>>
-----------------------------------------------------------------------------
Next ==
  \/ \E next \in Sources : Reparse(next)
  \/ \E name \in {"compact", "chart", "static", "unknown"} : SetViewMode(name)
  \/ ToggleViewMode
  \/ \E next \in {frame + 1, frame - 1, FrameCount} : Seek(next)
  \/ CurrentAnimationFrame
  \/ \E mode \in {"lazy", "greedy"} : FoldSubchart(mode)
  \/ \E name \in {"chart", "unknown"} : SetCubeDifferentialMode(name)
  \/ \E mode \in {"lazy", "greedy"} : ComposeBarcodeTemplates(mode)
  \/ \E name \in {"lazy", "greedy", "static"} : SetBarcodeCompositionMode(name)
  \/ \E t \in Templates : \E proposed \in Templates \cup {NoKey} : DropTemplate(t, proposed)
  \/ \E from, to \in Templates : ConnectComponents(from, to)
  \/ \E seq \in 1 .. Len(log) + 1 : Commit(seq)

Spec == Init /\ [][Next]_vars
-----------------------------------------------------------------------------
(* Properties. *)

\* Types of the state.
TypeOK ==
  /\ {source, document} \subseteq Sources
  /\ {triangulation.of, stream} \subseteq Sources \ Malformed
  /\ {viewMode, switcher, triangulation.view} \subseteq Views
  /\ frame \in 0 .. FrameCount - 1
  /\ {subchart, cube, composition.mode} \subseteq {"lazy", "greedy"}
  /\ Len(log) <= MaxLog

\* After a reparse that threw the document is of the source and the rest is
\* of an earlier one, but of the same; after one that did not all is of one.
PartsOfOneSource ==
  /\ document = source
  /\ triangulation.of = stream
  /\ source \notin Malformed => stream = source

\* The shell and its switcher differ only after someone looked at a frame,
\* and then it is the switcher that is animated, never another view.
ViewModesAgree == switcher # viewMode => switcher = "animated"

\* What was proposed to be done, as its target and its text, in the order of the
\* log.
Proposals(action) ==
  Subsequence(log, {i \in DOMAIN log : log[i].type = "proposal" /\ log[i].key[1] = action})
Proposed(action) ==
  [i \in DOMAIN Proposals(action) |->
     <<Proposals(action)[i].key[2], Proposals(action)[i].text>>]

\* The scene is what was proposed, in the order it was: the edit log has one
\* proposal for each component and relation, for its path, and names it.
SceneIsProposed ==
  /\ Proposed("ADD_COMPONENT") =
       [i \in DOMAIN scene.components |->
          <<scene.components[i].path, ProposedProperty(scene.components[i])>>]
  /\ Proposed("CREATE_RELATION") =
       [i \in DOMAIN scene.relations |->
          <<scene.relations[i].id,
            <<"relation", scene.relations[i].from, scene.relations[i].to>>>>]

\* The parts of the shell do not come apart, whatever throws in the middle and
\* whoever looks on.
ShellAgrees == PartsOfOneSource /\ ViewModesAgree /\ SceneIsProposed

\* "Declaration identity does not change when the lens changes"
\* (docs/PHASE-76): a source has one identity, in whatever view the shell was
\* when it was triangulated. It does not hold.
IdentityIsNotView ==
  triangulation.identity = TriangulateSource(triangulation.of, "lazy").identity
=============================================================================
