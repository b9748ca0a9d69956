------------------------------ MODULE MCWorkbench ------------------------------
(***************************************************************************)
(* The workbench, for TLC: the shell of the composer, the regions of its   *)
(* stream, the graphics backends, block images, and what leaves it:        *)
(* packages in a directory, the trust bundles beside them, compositions    *)
(* with their bundles.  They share no state that is modelled, so each is   *)
(* explored by itself: part says which.                                    *)
(***************************************************************************)
EXTENDS Naturals

CONSTANTS None, NoPath, Bad, NoKey, NoText, NoPeer, Torn, Zero,
          Documents, Malformed, Dropped, FrameCount, MaxLog,
          Styles, MaxRegions,
          Paths, TellModes, MaxStreams,
          BlockSize, MaxChunks, MaxBytes,
          MaxEdits, MaxWrites,
          Packages, Texts, MaxRecords,
          Templates, Unreadable, MaxTemplates, MaxRelations, MaxBundles

VARIABLES part,
          source, document, triangulation, stream, viewMode, switcher, frame,
          subchart, cube, composition, placed, editLog,
          streamBytes, regions, active,
          commands, plans, made,
          draft, image, snapshot, raw,
          state, dir, writing, writes, settled, reading,
          bundle,
          scene, mode, trust, exported

shellVars == <<source, document, triangulation, stream, viewMode, switcher, frame,
               subchart, cube, composition, placed, editLog>>
streamVars == <<streamBytes, regions, active>>
graphicsVars == <<commands, plans, made>>
blockVars == <<draft, image, snapshot, raw>>
storeVars == <<state, dir, writing, writes, settled, reading>>
compositionVars == <<scene, mode, trust, exported>>
vars == <<part, shellVars, streamVars, graphicsVars, blockVars, storeVars, bundle,
          compositionVars>>
-----------------------------------------------------------------------------
\* A malformed document has no id.
DocumentIds == [d \in Documents |-> IF d \in Malformed THEN "" ELSE d]

\* Nothing; three bytes of three bands, descending; two bytes.
ByteSources == {<<>>, <<64, 48, 32>>, <<31, 200>>}

Bytes(content, length) == [content |-> content, length |-> length]
Chunk(offset, size, label, bytes, hash, contentHash) ==
  [offset |-> offset, size |-> size, label |-> label, sparse |-> FALSE,
   bytes |-> bytes, hash |-> hash, contentHash |-> contentHash]
Hole(offset, size, label, bytes) ==
  [Chunk(offset, size, label, bytes, None, None) EXCEPT !.sparse = TRUE]

\* Holes, bytes, bytes under the hash of others, a hash alone; and of what is
\* refused one each: too few bytes, a wrong place, a wrong size, a wrong
\* content_hash, a hole with bytes, nothing at all.
Chunks ==
  (UNION {{Hole(at, size, label, None),
           Chunk(at, size, label, Bytes("a", size), None, None),
           Chunk(at, size, label, Bytes("a", size), Bytes("b", size), None),
           Chunk(at, size, label, None, Bytes("b", size), None)} :
             at \in {0, 2, 4}, size \in {2, 4}, label \in {None, "x"}})
  \cup {Chunk(0, 2, None, Bytes("a", 1), None, None), Hole(1, 2, None, None),
        Hole(0, 3, None, None), Chunk(0, 2, None, Bytes("a", 2), None, Bytes("b", 2)),
        Hole(0, 2, None, Bytes("a", 2)), Chunk(0, 2, None, None, None, None)}

\* Nothing; something without a path before something with one; two paths.
Drawn == {<<>>, <<NoPath, "p">>, <<"p", "q">>}

\* Nobody reviews a composition; one rejects it; one does and is outvoted.
Reviews == {<<>>, <<"rejected">>, <<"blocked", "signed">>}

Shell == INSTANCE ComposerShell WITH
  Sources <- Documents, IdOf <- DocumentIds, Templates <- Dropped,
  Keys <- {}, Texts <- {}, Peers <- {}, scene <- placed, log <- editLog
Streams == INSTANCE StreamRegions WITH Sources <- ByteSources, source <- streamBytes
Graphics == INSTANCE GraphicsBackends WITH Items <- Drawn, stream <- commands
Blocks == INSTANCE BlockImage WITH Given <- Chunks
Store == INSTANCE PackageStore
Trust == INSTANCE PackageTrust
Composition == INSTANCE TemplateComposition

Init ==
  /\ part \in {"shell", "stream", "graphics", "block", "store", "trust", "composition"}
  /\ Shell!Init /\ Streams!Init /\ Graphics!Init /\ Blocks!Init
  /\ Store!Init /\ Trust!Init /\ Composition!Init
  \* A part that is not explored starts in one way only.
  /\ part # "shell" => source = CHOOSE d \in Documents \ Malformed : TRUE
  /\ part # "stream" => streamBytes = <<>>

Next ==
  \/ /\ part = "shell" /\ Shell!Next
     /\ UNCHANGED <<part, streamVars, graphicsVars, blockVars, storeVars, bundle, compositionVars>>
  \/ /\ part = "stream" /\ Streams!Next
     /\ UNCHANGED <<part, shellVars, graphicsVars, blockVars, storeVars, bundle, compositionVars>>
  \/ /\ part = "graphics" /\ Graphics!Next
     /\ UNCHANGED <<part, shellVars, streamVars, blockVars, storeVars, bundle, compositionVars>>
  \/ /\ part = "block" /\ Blocks!Next
     /\ UNCHANGED <<part, shellVars, streamVars, graphicsVars, storeVars, bundle, compositionVars>>
  \/ /\ part = "store" /\ Store!Next
     /\ UNCHANGED <<part, shellVars, streamVars, graphicsVars, blockVars, bundle, compositionVars>>
  \/ /\ part = "trust" /\ Trust!Next
     /\ UNCHANGED <<part, shellVars, streamVars, graphicsVars, blockVars, storeVars, compositionVars>>
  \/ /\ part = "composition" /\ Composition!Next
     /\ UNCHANGED <<part, shellVars, streamVars, graphicsVars, blockVars, storeVars, bundle>>

Spec == Init /\ [][Next]_vars
-----------------------------------------------------------------------------
\* Types of the state of the parts, one invariant of each module
\* (composer_shell.js, stream_declaration.js, gpu_command_stream.js,
\* block_image_declaration.js, composer_package.js, package_trust.js,
\* barcode_template_composition.js).
TypeOK ==
  CASE part = "shell"       -> Shell!TypeOK
    [] part = "stream"      -> Streams!TypeOK
    [] part = "graphics"    -> Graphics!TypeOK
    [] part = "block"       -> Blocks!TypeOK
    [] part = "store"       -> Store!TypeOK
    [] part = "trust"       -> Trust!TypeOK
    [] part = "composition" -> Composition!TypeOK

\* The shell, its document, its views and its scene are of one source and of
\* what was proposed (reparse, toggleViewMode, dropTemplate).
ShellAgrees == part = "shell" => Shell!ShellAgrees

\* The identity of a declaration does not hang on the view it was made in:
\* it does (createTriangulation).
IdentityIsNotView == part = "shell" => Shell!IdentityIsNotView

\* Nothing is hidden by a region around it, inspectors agree and what is
\* counted adds up (compareOverlayOrder, resolveIndex, projectStreamIndex).
RegionsReadAlike == part = "stream" => Streams!RegionsReadAlike

\* Plans are told to be the same when they are of one stream and mode, and are
\* named for the first thing in them (comparePlans, adapt).
PlansAgree == part = "graphics" => Graphics!PlansAgree

\* A block image has each byte once, in any order of its chunks, and comes back
\* from a snapshot (normalizeChunks, exportBlockImageSnapshot,
\* importBlockImageSnapshot).
ImagesComeBack == part = "block" => Blocks!ImagesComeBack

\* A changed byte changes the receipt of its chunk and of the index, and no
\* other chunk's (createRawBinaryChunkIndex).
DamageIsLocated == Blocks!DamageIsLocated

\* A package or a bundle that is imported is one export, whole, whoever wrote
\* over it, however far a writer was while it was read and whatever a carrier
\* swapped; one written to its end can be imported (importPackage,
\* validateBundle).
ImportedIsOneExport ==
  /\ part = "store" => Store!ImportedIsOneExport /\ Store!SettledCanBeImported
  /\ part = "composition" => Composition!ImportedIsOneExport

\* Whatever is reported as approved was approved by a signer for that very
\* content (reportPackageTrust, reportTrust, importCompositionBundle).
ApprovalIsSigned ==
  /\ part = "trust" => Trust!ApprovalIsSigned
  /\ part = "composition" => Composition!ApprovalIsSigned

\* Of the bundles nobody touched those are refused whose trust did not stand
\* when they were exported (exportCompositionBundle, validateBundle).
OnlyStaleIsRefused == part = "composition" => Composition!OnlyStaleIsRefused

\* Trust is not lost on the way: a whole record leaves a bundle standing and
\* takes no approval back (appendTrustRecord), and the trust of a composition
\* follows its content and not its view (trustStatus).
TrustIsKept == Trust!AttestationsAdd /\ Composition!TrustFollowsIdentity
=============================================================================
