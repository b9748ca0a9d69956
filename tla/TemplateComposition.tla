------------------------- MODULE TemplateComposition -------------------------
(***************************************************************************)
(* A composition of barcode templates, the trust it is given and the       *)
(* bundle it travels in (barcode_template_composition.js,                  *)
(* composition_scene.js, composition_trust.js, composition_bundle.js).     *)
(* Trust is given to the identity of a composition, which is the receipt   *)
(* of its content and not of the view it is shown in.                      *)
(*                                                                         *)
(* A receipt is a hash, taken to be free of collisions: it is the content  *)
(* it was computed of. Carriers of bundles are not part of the repository. *)
(***************************************************************************)
EXTENDS TrustBundles, FiniteSets

CONSTANTS Templates,     \* what a template may be, as it is given
          Unreadable,    \* those nothing can be made of
          Reviews,       \* the lists of signers' review statuses, as given
          MaxTemplates,  \* bound: components of a composition
          MaxRelations,  \* bound: relations of a composition
          MaxBundles     \* bound: bundles exported

VARIABLES scene,     \* the components and relations of the composition
          mode,      \* the view it is shown in
          trust,     \* the trust bundle it was given, if any
          exported   \* the bundles there are

vars == <<scene, mode, trust, exported>>
-----------------------------------------------------------------------------
(* The content. *)

EmptyScene == [components |-> <<>>, relations |-> <<>>]

\* compositionScene.receipt: the identity of a composition.
Receipt(s) == <<s.components, s.relations>>
Identity == Receipt(scene)

ViewReceipt(identity, m) == <<identity, m>>

AddComponent(s, template) == [s EXCEPT !.components = Append(@, template)]
AddRelation(s, from, to) == [s EXCEPT !.relations = Append(@, <<from, to>>)]

\* composeTemplates. What nothing can be made of adds no component, and a
\* chain goes by the places of the templates: it throws when one is missing.
ComposeTemplates(templates, chain) ==
  LET Add(components, t) == IF t \in Unreadable THEN components
                            ELSE Append(components, t)
      readable == FoldLeft(Add, <<>>, templates)
  IN  [ok |-> chain /\ Len(templates) > 1 => readable = templates,
       scene |-> [components |-> readable,
                  relations |-> IF chain
                    THEN [i \in 1 .. Len(readable) - 1 |-> <<readable[i], readable[i + 1]>>]
                    ELSE <<>>]]
-----------------------------------------------------------------------------
(* Trust. *)

TrustStatus == ReportTrust(Identity, trust)
-----------------------------------------------------------------------------
(* Bundles. *)

RequiredFiles == {"composition", "gallery", "trust", "readme"}

\* Fault: the bundle that was given is carried, as it was given.
TrustForBundleAsGiven(identity, given) ==
  IF ValidTrust(identity, given) THEN given
  ELSE [Untrusted(identity) EXCEPT !.status = "invalid"]

TrustForBundle(identity, given) ==
  IF ValidTrust(identity, given) THEN ReportTrust(identity, given)
  ELSE [Untrusted(identity) EXCEPT !.status = "invalid"]

\* exportCompositionBundle, of a snapshot and with a trust bundle of its own
\* or else the snapshot's. The manifest's receipt leaves out its mode.
CompositionBundle(identity, m, status, option) ==
  LET sealed == TrustForBundle(identity, IF option = None THEN status ELSE option)
      files == [f \in RequiredFiles |->
                  CASE f = "composition" -> [identity |-> identity, mode |-> m]
                    [] f = "gallery"     -> [identity |-> identity, mode |-> m]
                    [] f = "trust"       -> sealed
                    [] f = "readme"      -> "readme"]
  IN  [files |-> files,
       manifest |-> [identity |-> identity, view |-> ViewReceipt(identity, m),
                     mode |-> m, review |-> sealed.status,
                     trustReceipt |-> sealed.receipt,
                     fileReceipts |-> files, intact |-> TRUE]]

FilesAreWhole(bundle) ==
  \A f \in RequiredFiles :
    bundle.files[f] # None /\ bundle.files[f] = bundle.manifest.fileReceipts[f]

\* validateBundle.
ValidBundle(bundle) ==
  LET manifest == bundle.manifest
      status == ReportTrust(manifest.identity, bundle.files["trust"])
  IN  /\ manifest.intact
      /\ FilesAreWhole(bundle)
      /\ bundle.files["composition"].identity = manifest.identity
      /\ ViewReceipt(manifest.identity, bundle.files["composition"].mode) = manifest.view
      /\ ValidTrust(manifest.identity, bundle.files["trust"])
      /\ status.receipt = manifest.trustReceipt
      /\ status.status = manifest.review
\* What a carrier may make of a bundle: files are lost or are those of another
\* bundle, the manifest is damaged, or only the mode it names.
Carried(bundle) ==
  {[bundle EXCEPT !.files[f] = None] : f \in RequiredFiles}
    \cup {[bundle EXCEPT !.files[f] = other.files[f]] :
             f \in RequiredFiles, other \in exported}
    \cup {[bundle EXCEPT !.manifest.intact = FALSE]}
    \cup {[bundle EXCEPT !.manifest.mode = m] : m \in {"lazy", "greedy"}}
-----------------------------------------------------------------------------
(* The system. *)

Init ==
  /\ scene = EmptyScene
  /\ mode = "lazy"
  /\ trust = None
  /\ exported = {}

\* composeTemplates begins a new composition, in the view it is given and
\* without trust, or throws and leaves the one there was.
Compose ==
  \E n \in 0 .. MaxTemplates : \E templates \in [1 .. n -> Templates], chain \in BOOLEAN :
    LET composed == ComposeTemplates(templates, chain)
    IN  /\ composed.ok
        /\ Len(composed.scene.relations) <= MaxRelations
        /\ scene' = composed.scene
        /\ mode' \in {"lazy", "greedy"}
        /\ trust' = None
        /\ UNCHANGED exported

AddTemplate(template) ==
  /\ template \notin Unreadable
  /\ Len(scene.components) < MaxTemplates
  /\ scene' = AddComponent(scene, template)
  /\ UNCHANGED <<mode, trust, exported>>

\* Any two paths may be named, of components that are there or not.
Connect(from, to) ==
  /\ Len(scene.relations) < MaxRelations
  /\ scene' = AddRelation(scene, from, to)
  /\ UNCHANGED <<mode, trust, exported>>

\* setMode, and toggle by way of it. Any other name is thrown out.
SetMode ==
  /\ mode' = IF mode = "lazy" THEN "greedy" ELSE "lazy"
  /\ UNCHANGED <<scene, trust, exported>>

\* What may be offered as a trust bundle: one made for the composition as it
\* is or as it was before its last component, or one of these rewritten.
Offered ==
  LET earlier == IF scene.components = <<>> THEN EmptyScene
                 ELSE [scene EXCEPT !.components = Front(@)]
      built == {BuildTrustBundle(of, texts) :
                  of \in {Identity, Receipt(earlier)}, texts \in Reviews}
  IN  built \cup {[b EXCEPT !.status = "approved"] : b \in built}

SetTrustBundle(bundle) ==
  /\ ValidTrust(Identity, bundle)
  /\ trust' = NormalizedTrust(Identity, bundle)
  /\ UNCHANGED <<scene, mode, exported>>

Seal(texts) ==
  /\ trust' = BuildTrustBundle(Identity, texts)
  /\ UNCHANGED <<scene, mode, exported>>

Export(option) ==
  /\ Cardinality(exported) < MaxBundles
  /\ exported' = exported \cup {CompositionBundle(Identity, mode, TrustStatus, option)}
  /\ UNCHANGED <<scene, mode, trust>>

Next ==
  \/ Compose
  \/ \E t \in Templates : AddTemplate(t)
  \/ \E from, to \in Templates \ Unreadable : Connect(from, to)
  \/ SetMode
  \/ \E b \in Offered : SetTrustBundle(b)
  \/ \E texts \in Reviews : Seal(texts)
  \/ \E option \in Offered \cup {None} : Export(option)

Spec == Init /\ [][Next]_vars
-----------------------------------------------------------------------------
(* Properties. *)

\* Types of the state: components are made of readable templates.
TypeOK ==
  /\ \A c \in Range(scene.components) : c \in Templates \ Unreadable
  /\ Len(scene.components) <= MaxTemplates /\ Len(scene.relations) <= MaxRelations
  /\ mode \in {"lazy", "greedy"}
  /\ \A bundle \in exported : DOMAIN bundle.files = RequiredFiles

\* "Trust follows identity, not projection" (docs/PHASE-69): no step that
\* leaves the content alone changes what is reported of one trust bundle, and
\* none that changes it leaves the bundle standing.
TrustFollowsIdentity ==
  [][/\ scene' = scene /\ trust' = trust => TrustStatus' = TrustStatus
     /\ scene' # scene /\ trust' = trust /\ trust # None
          => ~ValidTrust(Identity', trust')]_vars

ApprovedBySomeone(identity, status) ==
  status.status = "approved" =>
    \E record \in Range(status.signatures) :
      record.status = "approved" /\ record.of = identity

\* What is reported as approved was approved by one signer at least for this
\* very content: of the composition, whatever bundles it was offered, and of
\* every bundle that can be imported, whatever its carrier did.
ApprovalIsSigned ==
  /\ ApprovedBySomeone(Identity, TrustStatus)
  /\ \A sent \in exported : \A bundle \in Carried(sent) : ValidBundle(bundle) =>
       ApprovedBySomeone(bundle.files["composition"].identity, bundle.files["trust"])

\* A bundle that can be imported shows in its gallery the composition it
\* carries in the view it carries: its files are of one export.
ImportedIsOneExport ==
  \A sent \in exported : \A bundle \in Carried(sent) : ValidBundle(bundle) =>
    bundle.files["gallery"] = bundle.files["composition"]

\* A bundle nobody touched is refused exactly when the trust it was exported
\* with did not stand: an unsigned composition travels, one whose content was
\* changed after its seal does not until it is sealed again.
OnlyStaleIsRefused ==
  \A bundle \in exported : ValidBundle(bundle) <=> bundle.manifest.review # "invalid"
=============================================================================
