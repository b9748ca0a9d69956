---------------------------- MODULE PackageStore ----------------------------
(***************************************************************************)
(* Packages in a directory: the state of a composer is exported as a       *)
(* package, its files are written one by one over whatever the directory   *)
(* holds, a reader reads them one by one, and what it has read is imported *)
(* if the manifest bears it out (composer_package.js and                   *)
(* stream_overlay_package.js, which write and read alike).                 *)
(*                                                                         *)
(* A receipt is a hash, taken to be free of collisions: it is the content. *)
(* Files made of the same part of the state are taken as one: "artifacts"  *)
(* stands for the source, the logs and the artifacts made of them.         *)
(***************************************************************************)
EXTENDS Naturals, Sequences, SequencesExt

CONSTANTS None,        \* no file, nothing being done
          Torn,        \* a file whose writing was cut off
          MaxEdits,    \* bound: edits of the source and changes of the mode
          MaxWrites    \* bound: packages written

VARIABLES state,      \* what is exported: the source and the mode it is shown in
          dir,        \* the directory: what is in each file, if it is there
          writing,    \* the package being written and the files still to come
          writes,     \* how many packages were begun
          settled,    \* the kind last written to its end, with nothing since
          reading     \* what a reader has read so far and what it has still to read

vars == <<state, dir, writing, writes, settled, reading>>
-----------------------------------------------------------------------------
(* Exports. *)

Kinds == {"composer", "stream"}

\* The files of a package, in the order they are written in.
Files(kind) ==
  IF kind = "composer"
  THEN <<"README.org", "artifacts", "manifest.json", "plans", "receipts">>
  ELSE <<"README.org", "declaration", "manifest.json", "overlays", "receipts">>
RequiredFiles(kind) == Range(Files(kind)) \ {"manifest.json"}
AllFiles == UNION {Range(Files(kind)) : kind \in Kinds}

\* What of the state each file is made of.
Source(s) == [source |-> s.source]
Content(kind, f, s) ==
  CASE f \in {"README.org", "artifacts", "declaration"} -> <<kind, f, Source(s)>>
    [] f = "plans" -> <<kind, f, [mode |-> s.mode]>>
    [] f = "overlays" -> <<kind, f, s>>
    [] f = "receipts" -> IF kind = "composer" THEN <<kind, f, Source(s)>> ELSE <<kind, f, s>>

\* exportPackage and exportStreamOverlayPackage.
Manifest(kind, s) ==
  [kind |-> kind, state |-> s, fileReceipts |-> [f \in RequiredFiles(kind) |-> Content(kind, f, s)]]

ExportPackage(kind, s) ==
  [f \in Range(Files(kind)) |->
     IF f = "manifest.json" THEN Manifest(kind, s) ELSE Content(kind, f, s)]
-----------------------------------------------------------------------------
(* Imports, of what was read: a file there was not is None. *)

\* Fault: what the manifest requires need only be there.
FilesAreThere(files, manifest) ==
  \A f \in RequiredFiles(manifest.kind) : files[f] \notin {None, Torn}

FilesAreWhole(files, manifest) ==
  \A f \in RequiredFiles(manifest.kind) :
    files[f] # None /\ files[f] = manifest.fileReceipts[f]

\* The rest of validateManifest of a composer package: the receipts and the
\* artifacts are of the state the manifest names.
ComposerFilesAgree(files, manifest) ==
  /\ files["receipts"][3] = Source(manifest.state)
  /\ files["artifacts"][3] = Source(manifest.state)

\* And of a stream package: its receipts are the manifest's, and its overlays
\* are those that the declaration in it has in the mode the manifest names.
StreamFilesAgree(files, manifest) ==
  /\ files["receipts"][3] = manifest.state
  /\ files["overlays"][3] = [source |-> files["declaration"][3].source,
                             mode |-> manifest.state.mode]

\* importPackage and importStreamOverlayPackage, of the kind asked for.
Imports(kind, files) ==
  LET manifest == files["manifest.json"]
  IN  /\ manifest \notin {None, Torn}
      /\ manifest.kind = kind
      /\ FilesAreWhole(files, manifest)
      /\ IF kind = "composer" THEN ComposerFilesAgree(files, manifest)
                              ELSE StreamFilesAgree(files, manifest)
-----------------------------------------------------------------------------
(* The system. *)

Init ==
  /\ state = [source |-> 0, mode |-> 0]
  /\ dir = [f \in AllFiles |-> None]
  /\ writing = None
  /\ writes = 0
  /\ settled = None
  /\ reading = None

Edit ==
  /\ \/ state.source < MaxEdits /\ state' = [state EXCEPT !.source = @ + 1]
     \/ MaxEdits > 0 /\ state' = [state EXCEPT !.mode = 1 - @]
  /\ UNCHANGED <<dir, writing, writes, settled, reading>>

\* writePackage begins: the package is of the state at this time.
BeginWrite(kind) ==
  /\ writing = None
  /\ writes < MaxWrites
  /\ writing' = [kind |-> kind, package |-> ExportPackage(kind, state), todo |-> Files(kind)]
  /\ writes' = writes + 1
  /\ settled' = None
  /\ UNCHANGED <<state, dir, reading>>

WriteFile ==
  /\ writing # None /\ writing.todo # <<>>
  /\ dir' = [dir EXCEPT ![Head(writing.todo)] = writing.package[Head(writing.todo)]]
  /\ writing' = [writing EXCEPT !.todo = Tail(@)]
  /\ UNCHANGED <<state, writes, settled, reading>>

EndWrite ==
  /\ writing # None /\ writing.todo = <<>>
  /\ writing' = None
  /\ settled' = writing.kind
  /\ UNCHANGED <<state, dir, writes, reading>>

\* The process ends in the middle, of a file maybe.
Crash ==
  /\ writing # None /\ writing.todo # <<>>
  /\ \/ UNCHANGED dir
     \/ dir' = [dir EXCEPT ![Head(writing.todo)] = Torn]
  /\ writing' = None
  /\ UNCHANGED <<state, writes, settled, reading>>

\* readPackage lists the directory and reads file by file, in an order of its
\* own; it misses what was not there when it listed.
BeginRead ==
  /\ reading = None
  /\ reading' = [todo |-> {f \in AllFiles : dir[f] # None}, files |-> [f \in AllFiles |-> None]]
  /\ UNCHANGED <<state, dir, writing, writes, settled>>

ReadFile(f) ==
  /\ reading # None /\ f \in reading.todo
  /\ reading' = [reading EXCEPT !.files[f] = dir[f], !.todo = @ \ {f}]
  /\ UNCHANGED <<state, dir, writing, writes, settled>>

HasRead == reading # None /\ reading.todo = {}

EndRead ==
  /\ HasRead
  /\ reading' = None
  /\ UNCHANGED <<state, dir, writing, writes, settled>>

Next ==
  \/ Edit
  \/ \E kind \in Kinds : BeginWrite(kind)
  \/ WriteFile \/ EndWrite \/ Crash
  \/ BeginRead \/ EndRead \/ \E f \in AllFiles : ReadFile(f)

Spec == Init /\ [][Next]_vars
-----------------------------------------------------------------------------
(* Properties. *)

\* Types of the state.
TypeOK ==
  /\ state \in [source : 0 .. MaxEdits, mode : {0, 1}]
  /\ DOMAIN dir = AllFiles
  /\ writing # None => Range(writing.todo) \subseteq Range(Files(writing.kind))
  /\ settled \in Kinds \cup {None}
  /\ reading # None => reading.todo \subseteq AllFiles

\* A package that is imported is one export, whole: every file in it is what
\* its manifest's state makes of it, whatever was written over whatever, where
\* a writer was cut off and how far it was while the reader read.
ImportedIsOneExport ==
  HasRead => \A kind \in Kinds : Imports(kind, reading.files) =>
    LET s == reading.files["manifest.json"].state
    IN  \A f \in RequiredFiles(kind) : reading.files[f] = Content(kind, f, s)

\* What was written to its end, and left alone, can be imported, over the
\* remains of whatever other packages it was written.
SettledCanBeImported ==
  settled # None => Imports(settled, dir)
=============================================================================
