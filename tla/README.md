# OMI: models, checks and proofs

TLA+ models of the parts of this repository that keep state, exchange messages
or have to survive faults, the TLC runs that check them and the theorems TLAPS
proves about them. Paths are relative to the repository; `workbench/...` stands
for `workbench/src/...`.

## 1. The system

The repository has two programs that share a notation.

* The **workbench** (`workbench/src`, JavaScript, one module per "court", each a
  set of synchronous functions over plain objects). Nothing in it opens a
  connection or runs in parallel: data reaches a function because some caller
  hands it over, and what may come in which order is up to files, barcodes,
  device links and people. That is where the hard behaviour is.
* The **kernel** (`kernel`, C, freestanding): a byte stream goes through an
  escape machine and a table of gauge operations; a rules engine rewrites a
  memory image at boot.

Around them are a userspace runtime of bounded tables (`userspace`), encodings
(`polyform`), tools, generated declarations and documents.

### Inventory

| component | state | operations | interacts with | what is hard | what makes it correct |
|---|---|---|---|---|---|
| edit log, replay (`edit_log.js`, `edit_replay.js`) | list of events, next number | append proposal, commit, undo, redo, imported commit, conflict; walk; replay | sync and merge append to it | masks name any number; commits repeat | the last mask of a commit decides; history only grows |
| sync packet court (`sync_packet.js`) | base, imported log, seen receipts, next sequence | create, validate, apply, request a missing segment | carriers call it; appends to an edit log | loss, repetition, reordering, damage; several senders on one counter; a sequence map per packet | exactly once, in order, unchanged; the imported log replays to the sender's |
| carriers (`file_`, `barcode_`, `esp32_sync_adapter.js`) | none | frame, read, apply; apply a bundle | call `applyPacket` | a bundle goes on after a packet was refused | a refused packet leaves no trace |
| merge court (`edit_merge.js`) | the merged log | merge two logs | reads two edit logs, fills a third | repeated commits, groups of three, merging again | symmetric; conflicts are the disagreements; nothing lost |
| peer exchange, subscription, live transport (`autonomous_world_peer_exchange.js`, `_subscription_court.js`, `_live_transport_adapter.js`) | registry of peers | offer, receive, filter, process a transport event | processed by transport replay | package and offer come apart | only what was offered and verified is admitted |
| transport evidence (`_transport_replay.js`, `_checkpoint.js`, `_compaction.js`, `_repair.js`) | log, checkpoint, bundle | create, verify, resume, detect, repair | replays through the exchange | evidence is lost or damaged between steps; repairs in several payloads | resuming equals replaying; repair restores and admits nothing new |
| availability, request scheduler (`_transport_availability.js`, `_request_scheduler.js`) | reports and schedules | classify evidence, plan repairs, schedule requests | reads evidence, feeds repair | a limit on requests, priorities | what can be repaired is asked for in the end |
| versions (`_version_history.js`, `_overlay_admission.js`, `_merge_reconciliation.js`, `_package_sync.js`) | version graph, snapshots | admit an overlay, add an edge, find the latest, reconcile | packages travel through the exchange | branches, repeated admission, more than one overlay | reconciliation finds every conflict; histories converge |
| composer shell and views (`composer_shell.js`, `source_buffer.js`, `view_switcher.js`, `animation_timeline.js`, `geometric_reconciliation.js`, `cube_differential_template.js`, `drag_drop_composer.js`, `spom_adapter.js`) | source, document, triangulation, stream, view modes, frame, scene, edit log | reparse, switch views, seek, fold the subchart, drop and connect templates, commit | makes the stream, appends to an edit log, keeps the composition | assignments one after another, some of which throw; one mode kept twice | the parts are of one source; the scene is what was proposed |
| stream declaration and projection (`stream_declaration.js`, `stream_projection.js`) | source, regions, presentation | declare a region, set the source, resolve an index, project | set by the shell | overlapping regions, two laws of what holds | readers of one index tell the same |
| graphics backends (`gpu_command_stream.js`, `webgl_`, `gles_`, `opengl_runtime_adapter.js`, `graphics_backend_equivalence.js`) | command streams, plans | build a stream, adapt it, compare plans | read what the shell shows | each backend names things its own way | equal plans are of one stream and mode |
| packages and their trust (`composer_package.js`, `stream_overlay_package.js`, `package_trust.js`) | files of a directory, trust bundle | export, write, read, import; append records, report | export the state of the shell | written and read file by file, over older packages; records of many signers | what is imported is one export; what is approved was signed |
| template composition and bundles (`barcode_template_composition.js`, `composition_scene.js`, `composition_trust.js`, `composition_bundle.js`) | scene, view, trust | compose, add, connect, seal, export, import | the shell keeps one | content changes after it was sealed | trust follows the content; only stale bundles are refused |
| block images, raw byte index (`block_image_declaration.js`, `raw_binary_chunk_index.js`) | none | declare, export a snapshot, import; index | - | chunks in any order, hashes nobody compares, short last chunks, holes | an image is laid out once and comes back; damage is located |
| escape machine (`kernel/runtime/escape.c`) | mode, stack of four scopes | `escape_step`, `escape_is_valid` | called by `gauge_step` per byte | nesting, full stack, quoting | stack and mode agree; scopes close |
| gauge stepper (`gauge_stepper.c`) | header, state | `gauge_step`, decode, apply | calls the escape machine | bytes that are not resolved | only input drives the core |
| trace (`trace.c`) | 256 entries | append, normalize | records the stepper | a full trace; its own notion of scopes | normal form is stable |
| rules, boot (`rules_engine.c`, `boot/entry.c`) | memory, symbols | evaluate, rewrite | boot loop | bounded search for a fixpoint | it is reached |
| userspace (`omi_model_loader.c`, `omi_model_vfs.c`, ...) | bounded tables | load, register, look up | each other | full tables, partial loads | tables stay consistent |
| stubs, conversions, renderers, tools, data | - | - | - | - | - |

## 2. Modules

| module | models |
|---|---|
| `EditLog` | the edit log and the mask walk, as operators on sequences of events; `EditLogProofs` has facts about them |
| `SyncPacket` | packets, validation, import, sync state, `applyPacket`, as operators |
| `OrderedDelivery` | what sync promises, abstractly |
| `SyncChannel` | senders, carriers and one receiving peer; `SyncChannelProofs` has the theorems |
| `EditMerge`, `MergeCourt` | `mergeLogs` as operators; logs edited, merged and masked; `MergeCourtProofs` has the theorems |
| `PeerExchange` | what becomes of one offered package |
| `TransportEvidence` | log, checkpoint, bundle, detection, repair, as operators |
| `EvidenceStore` | stored evidence, faults, repairs |
| `EvidenceRequests` | availability reports, schedules and plans over that store; `EvidenceRequestsProofs` has the theorems |
| `WorldHistory` | overlays, admissions, merges, history graphs and sync packages of several peers; `WorldHistoryProofs` has the theorems |
| `ComposerShell` | the shell of the composer, its views, its scene and its edit log |
| `StreamRegions` | the regions of a stream and its readers |
| `GraphicsBackends` | command streams, the plans of three adapters, their comparison |
| `BlockImage` | block images and their snapshots, the index of raw bytes |
| `PackageStore` | packages in a directory, written and read file by file |
| `PackageTrust`, `TrustBundles` | trust of packages; trust of compositions, as operators |
| `TemplateComposition` | compositions, their trust and their bundles |
| `EscapeGauge` | `gauge_step` up to the header; `EscapeGaugeProofs` has the theorems |
| `WorkbenchProofs` | theorems about the seven modules from `ComposerShell` to `TemplateComposition`, and the same for the workbench of `MCWorkbench` |
| `Sorting` | a sort where nothing ties, as an operator |
| `FoldTheorems` | what folds and sorts compute, for the proofs |
| `MC*` | values of the constants for TLC |

`EvidenceRequests` extends `EvidenceStore`: requests are made, answered and
executed while the store goes on failing. `MCWorkbench` instantiates the seven
modules from `ComposerShell` to `TemplateComposition` next to each other. They
share no state that is modelled, so its variable `part` picks the one that is
explored and the others stay where they began; the run is the union of seven,
not their product.

Operators marked "Fault" in the modules are wrong variants of the operator that
follows them, used only to show that a property notices.

### How state and actions correspond to the code

**Edit log.** A log is the sequence of its events; `nextSeq` counts from 1 by
one, so an event's number is its position. An event has the fields that
`normalizeEvent` (sync_packet.js) gives it on the wire, with the same defaults.
`action` and `path` are one key, because the log only compares them together.
`MaskStep` is one turn of the loop of `activeCommitEvents`.

**Sync.** `sync` is the object `createSyncState` returns; `seen` stands for
`seen_receipts` and `seen_lookup`, which hold the same receipts and change
together. `ApplyStatus` has the early returns of `applyPacket` in order,
`ApplyPacket` the assignments, `ImportEvent` one turn of the import loop with
its per-packet `sequenceMap`. `ReceivePacket` is a carrier's decode and apply,
`RejectPacket` a direct call with an invalid packet, `OpenBundle` and
`ApplyFromBundle` are `applySyncLogFile`, packet by packet, with nothing
between its turns because the loop is synchronous. Sending is not code of the
repository (only `createPacket` is): a sender packs what it has appended since
its last packet, as the tests do.

**Merge.** `MergeGroup` is one turn over a key of the grouped commits. Names
are numbers whose order is that of the strings; the code sorts keys by
`mergeKey` and commits in a group by `sortKey`, and so do `KeyBefore` and
`CommitBefore`.

**Evidence.** A receipt is what is hashed (an entry's receipt is the tuple of
its order, event receipt and predecessor's receipt), so two receipts are equal
exactly when the contents are. `ResumeReplay`, `ResumeAfterCompaction`,
`ApplyPayload` and `RepairAndReplay` return a record with `ok = FALSE` where
the code throws. `EvidenceStore` holds the log as it was recorded next to the
log as it is stored. `Repair` works on copies like `repairAndReplay`;
`ApplyRepair` is a caller that keeps the log `applyRepairPayload` returned.

**Requests.** `Inventory`, `Status` and `Report` are `createInventory`,
`classifyEvidence` and `createAvailabilityReport`; `RequestSchedules` is
`createRequestSchedule` for every order its sort may give, since receipts are
hashes. `inbox` holds the payloads suppliers sent, right, mixed up or damaged,
in the order they came, those for older schedules too; it is what a caller
passes to `executeScheduledRepair` or `executeRepairPlan`. Both end the
schedule and run `repairAndReplay` on the evidence there is by then.

**Worlds.** `world` lists the admitted worlds, and the identity of a world is
its place there: a content is entered once, so two worlds have one identity
exactly when the code computes one receipt for them. `rank` is how the receipts
of edges sort, chosen at the start, because the code picks and sorts by hash.
`graph` is the history graph of each peer, `wire` the packages on a carrier.
`AdmitCandidate` is `admitCandidate` with the `addAdmission` its callers make,
`AdmitMerge` is `admitMerge` with `linkMergedHistory`. Worlds never change and
any candidate that was ever made may still be admitted, so candidates are no
variable: `CandidateEdits` has those over the open world and over the first.

**Shell.** A source is a name, and a document, triangulation or stream is told
by the source it was made of. `Reparse` keeps the order of the assignments of
`reparse`: what a malformed source leaves is what was assigned before it threw.
`viewMode` and `switcher` are the two places a mode is kept; each action writes
those its method writes, and `CurrentAnimationFrame` only one.

**Streams.** `DeclareRegion` takes regions as callers give them, without an
end, negative, behind the source; `NormalizeRegion` is what becomes of them.
`FindRegion` is `resolveIndex` of the declaration, `ResolvedRegion` the top of
the stack of `projectStreamIndex`.

**Graphics.** A command stream is the sequence of its commands, and a command
has its kind, the path of what it draws and its witness. The adapters keep
their own names; `comparePlans` brings them together, and so does the model.

**Block images.** `GiveChunk` collects chunks as a caller lists them, `Declare`
is `createBlockImageDeclaration`. `ContentHash` is the chain of fallbacks by
which a hash comes to a chunk, and only one of them is compared with the bytes.
The raw bytes change one at a time (`raw`), to see which receipts follow.

**Packages.** `dir` maps file names to what is in them. A package is written
file by file (`writing` has those to come) and read file by file (`reading`),
with steps of the other in between; a crash leaves one file torn and the rest
of an older package. `settled` remembers that a package was written to its end
and nothing happened since; it is there for the properties and no action reads
it. Both kinds of packages may be written into one directory.

**Trust.** A record is whole when its receipt is that of its content.
`PackageTrust` appends records for any package to one bundle, as
`appendTrustRecord` does. `TemplateComposition` gives trust to the identity of
its content; `Carried` is everything a carrier may make of an exported bundle.

**Escape machine.** One action per case of `escape_step`. `last` is the last
call: its input, what it returned and what was in the output byte. A byte in a
quoted literal returns 1 without an assignment to the output, so the caller
reads an uninitialized variable: `QuotedByte` chooses any byte.

### Abstractions

* Receipts (32-bit FNV-1a) are injective. Collisions are outside the models.
* A receipt that is the hash of some content is that content; where the code
  sorts by receipts, every order is explored.
* `target_peer` is carried but nothing in the code looks at it.
* Texts, paths, packages and snapshots are elements of small sets.
* The frames of the carriers (timing constants, selectors, ids) are left out:
  they can only refuse a packet, which is a loss.
* Upper and lower case letters are one escape token, the bytes of a class that
  neither the escape machine nor the header tells apart are one byte.
* `numsys` is written once and never read. The guards for control or quoted
  mode without a scope (escape.c:89, :141) are modelled as the code has them,
  and `StackShape` shows that they are never taken.

## 3. Runs

Passing:

| run | what it checks | bounds, and why they are enough |
|---|---|---|
| SyncOne | `DeliveredInOrder`, `ImportedFromSeen`, `ReplayEquivalent`, `RequestsNameTheGap`, `AppendOnly`, `ImplementsDelivery` | one sender, four events, two packets, two texts: two packets can be swapped, repeated, damaged and bundled in every order; four events give proposal, commit, undo, redo within one segment or over two; the sender may start from a merged log with a conflict |
| SyncLive | `EventuallyApplied` | a sender with the local base, one with another base, two packets each |
| Merge | `MergeSymmetric`, `ConflictLaw`, `NothingLost`, `RemergeAbsorbs`, `LastMaskWins` | two keys whose action and path sort in opposite ways, two texts, and two sets of bounds: four events against two with one undo (groups of three with two equal members occur), and one log of five events with three masks that name any number up to one beyond the log, two more after the merge |
| Evidence | `ResumeMatchesReplay`, `UndamagedResumes`, `RepairAdmitsNothingNew`, `WholeIsRecorded`, `RightPayloadsRepair`, `AnswerableIsRequested`, `ScheduledRepairRestores` | logs of one to three events, repeated ones too, every boundary and bundle end, two faults before, between or after, payloads that are right, damaged or of another event; requests for two of the recordings, under three policies (no limit with what is repairable last, one request with it first, a negative limit), with one fault and two payloads in flight: one can be late, wrong or for the older schedule while the other is right |
| World | `HistoryIsKept`, `HistoryCanBeOpened`, `PeersReadAlike`, `FirstBranchesConflict` | two peers, four worlds, three edges, one package, one path with two kinds of overlay, every order of the receipts: a fork, a merge on it, an edge added twice and a history taken over in between all occur; two paths or bodies would add worlds that no property tells apart from those of two kinds |
| Workbench | `ShellAgrees`, `RegionsReadAlike`, `PlansAgree`, `ImagesComeBack`, `ImportedIsOneExport`, `ApprovalIsSigned`, `OnlyStaleIsRefused`, `DamageIsLocated`, `TrustIsKept` | three documents of which one is malformed, three frames (wrapping at both ends), two events of the log; three regions over sources of no, two and three bytes (two nest or overlap and a third decides); two command streams; three chunks of one or two blocks, five raw bytes in blocks of two (a short last chunk); one edit and two packages (an old one, a new one over it, a reader across both, a crash in each); three trust records over two packages; two templates, one relation, two bundles to swap files between |
| Escape | `StackShape`, `WedgedForGood`, `QuotedNeverCloses` | every byte class, the real stack size of 4; the state space is complete |

Runs also check the type invariant of their modules. Every bound is a constant
(`MaxEvents`, `MaxPackets`, `MaxFaults`, `MaxPayloads`, `RequestFaults`,
`MaxWorlds`, `MaxEdges`, `MaxPackages`, `MaxRegions`, `MaxWrites`, ...) named
where the module declares it. Where bounds stop the editing or the faults
nothing else may be left to do, so deadlock is not checked there; the escape
machine accepts every byte in every state and is checked for deadlock.

What the composed properties say, part by part:

* `HistoryIsKept`: the world an edge leads to has all the world before it had;
  a merge keeps its left branch. `HistoryCanBeOpened`: both ends of every edge
  are in the graph, and what is exported of a built world can be imported.
  `PeersReadAlike`: replay ends at a leaf, at the same one for sender and
  receiver, and forks are reported.
* `ShellAgrees`: document, triangulation and stream are of one source, also
  after one that threw; the two modes differ only while a frame is looked at;
  the scene is what the log proposed. `RegionsReadAlike`: no region hides a
  narrower one inside it, both inspectors agree where regions were declared
  from broad to narrow, counts add up. `ImagesComeBack`: one chunk per byte,
  one identity whatever the order of labelled chunks, snapshots with honest
  hashes that import to the image that was declared.
* `ImportedIsOneExport` is about packages in a directory and about composition
  bundles, `ApprovalIsSigned` about packages and compositions, `TrustIsKept`
  about records that are appended and content that changes.

Violations, each of one statement of the documentation:

| run | property | statement, and what the code does |
|---|---|---|
| SyncMask | `MasksImported` | PHASE-50:65 says undo and redo are appended on import; one whose commit came in an earlier packet is dropped (sync_packet.js:183) |
| EvidenceName | `UndamagedResumes` | PHASE-111:43; a log recorded without `log_id` can never be resumed: its entries and the log get two different default names (transport_replay.js:55, :70) |
| EvidenceTwo | `EventPayloadsRepair` | PHASE-113:4; with two events lost no payload is accepted, since each must make the whole log valid (transport_repair.js:191) |
| WorldConflict | `ConflictsAreWitnessed` | PHASE-105:55 calls conflict records witnesses over branch divergence; only the first group of admitted overlays of a branch is compared, so what was admitted later escapes (merge_reconciliation.js:60). `FirstBranchesConflict` is the part that holds |
| ViewIdentity | `IdentityIsNotView` | PHASE-76:45 says identity does not change with the lens; the identity receipt hashes triplets that name the view they were made in (spom_adapter.js:442, composer_shell.js:129) |

Other differences between documents and code, seen while modelling; no run is
spent on them because the models state them outright:

* PHASE-50:72 asks for a missing segment when a packet is of a future sequence;
  `ApplyStatus` does for a past one too (sync_packet.js:238), which two senders
  over one base bring about.
* PHASE-49:21 orders merged commits by path, then action; `KeyBefore` compares
  action first (edit_merge.js:11, :62).
* PHASE-49:34 has conflicts between different texts; `MergeGroup` pairs the
  neighbours of a group that disagrees somewhere, equal ones too
  (edit_merge.js:76).
* PHASE-113:37 detects missing or corrupt evidence; an event that lost its
  package raises no issue (transport_repair.js:61), which is why
  `WholeIsRecorded` leaves packages out. PHASE-113:3 repairs bundles too; a
  bundle's log receipt is taken for its own, so no bundle is ever a valid
  payload (transport_repair.js:116).
* tools/gauge_replay.c:779 has the second ESC exit quoting; it leaves the mode,
  the quoted scope stays (escape.c:49, `QuotedNeverCloses`). The resolved byte
  of a quoted literal was never written (escape.c:154) although
  gauge_stepper.c:275 goes on with it; `QuotedByte` chooses any byte.
* A merged world is built on the left branch and only refers to the overlays of
  the right one, while its edge in the history leaves the base
  (`Merged`, `AdmitMerge`). Adding an admission twice adds two edges, and
  importing a history replaces the one there was. The latest version of a fork
  is the one whose receipt sorts last (`NextOf`), not the one admitted last.
* A chunk without a label is named by its place in the list, so the identity of
  an image depends on the order its chunks are listed in; `OrderDoesNotMatter`
  is about labelled chunks. `hash` and `bytes_hash` are not compared with the
  bytes at declaration, only by the export (`ContentHash`,
  `SnapshotsAreHonest`). The short last chunk of a raw index would not be
  accepted in a block image.
* The receipt of a composition bundle leaves out the mode and the signatures
  its manifest names (`ValidBundle`); both are in files the receipt covers.
* A crash while a package is written over another loses both (`Crash`,
  `SettledCanBeImported`): there is no temporary directory and no rename.
* After a reparse the composition keeps the document id it was composed under
  until templates are composed anew (`Reparse`, `ComposeBarcodeTemplates`).

`DeliveredInOrder` speaks of *some* sender for each slot because that is what
the code guarantees with more than one: one counter for all. `ReplayEquivalent`
is stated for one sender, and for segments that hold the commits they mask
(`ClosedSegments`); `MasksImported` shows what happens otherwise.

### Fairness

`EventuallyApplied` assumes what the repository leaves to its callers, and only
that: a lost packet is offered again (weak fairness of `Resend`, the answer to
a request for a missing segment), a packet that is offered again and again is
read in the end (strong fairness of `ReceiveNext`, because a carrier may lose
it before it is read), and the loop over a bundle runs to its end (weak
fairness of `ApplyFromBundle`). Nothing is assumed of the order in which
packets are read, of duplicates, damage, or other peers. The run has one sender
with the local base: with two, one takes the slot of the other, and the promise
would be false.

## 4. Proofs

TLAPS checks these for all values of the constants that satisfy the named
assumptions of the modules (the senders are peers, the receiver is not one of
them, bases are numbers, bounds are numbers, defaults are not real names; a
recording is a sequence of events, each with a receipt of its own that is not
that of the log, policies rank statuses and cut at a whole number or not at
all; the escape stack has at least one slot and the inputs are bytes). A few
theorems have a hypothesis of their own, stated in the theorem and named below.

Most of what these modules compute is a fold over a list of any length, and the
library's induction theorems take an operator that the provers cannot
instantiate. `FoldTheorems` gets round it: it is a module with an operator
constant `Step`, proves once that folding a longer list is one more step
(`FoldAppend`), that what every step keeps the fold keeps (`FoldKeeps`) and that
a set which grows with every element holds every sequence (`Induction`,
`SequencesGrow`), and is instantiated for each fold with the step it takes.
It also has the one theorem about sorts, `SortLists`: a finite set under a
strict order has ranks that fill an interval (`RanksFill`), so a sort by any
comparison under which two different elements always compare lists every element
once, in that order. The commits and keys of the merge court, the overlays of a
stream, the commands of a plan and the chunks of a block image are all sorted by
`Sorting`, and each proof only has to show that its comparison is such a one.
`EditLogProofs` has the facts about edit logs that the channel, the merge court
and the shell share: types, growth, selections, what the walk over a log keeps
(`WalkKeeps`), and *twins*: two logs that number their events apart, but whose
commits pair off in order, with the same text and masked or not together.
Twins replay alike (`TwinsReplay`).

`SyncChannelProofs`:

* `Invariance`: `Spec => []IInv`. `IInv` says that packets are typed, that
  senders number their packets 1, 2, 3, ... and give them their base, that every
  packet on a carrier or in an open bundle whose receipt matches is one a sender
  made, `DeliveredInOrder` and `ImportedFromSeen`. `DeliveredInOrder` alone is
  not inductive: it says nothing of the packets still under way, and those are
  what the next step applies.
* `Types`, `InOrder`, `FromAppliedOnly`: the parts of it that the run checks.
  What was imported is a fold over the packets seen, so one more packet is one
  more step of both.
* `Growth`: `AppendOnly`, because each import step lengthens the log.
* `Implementation`: `Spec => Delivery!Spec`. Sending and announcing are
  `Publish`; applying the due packet is `Deliver`, by the sender `IInv` finds
  for it; everything else stutters.
* `Requests`: `[]RequestsNameTheGap`.
* `Replays`: `[]ReplayEquivalent`, for one sender, with `ClosedSegments`, whose
  first log is `Faithful` (numbered by place, and a commit has the text of the
  proposal before it that it names). The invariant is `MirrorInv`. Packet by
  packet, a sender's log is cut into consecutive segments, each of them in its
  packet (`CutInto`); and the imported log is the twin of what the sender had
  packed by the last packet applied (`Mirrored`). They are twins and not equal
  because conflicts travel apart from the other events and are imported last, so
  the places of everything behind them differ. While one packet is imported
  (`ImportPaired`), `seqMap` takes each commit of the segment to its twin and
  each proposal to one with the same text (`Paired`), and what an undo or redo
  masks is in the segment, so both walks mask the same. Without
  `ClosedSegments` it is false: an undo of an earlier segment is not imported
  (run SyncMask).

`MergeCourtProofs`: the logs are well formed (`LogsInvariance`: numbered, keys
and texts where there have to be some), which is all the invariant that is
needed. The rest is about what `mergeLogs` computes of two such logs. Keys and
commits are sorted, which lists each of them once (`SortLists`). What merging one
group appends is told from the group alone (`Settled`): one clone per text it commits to, and
where texts differ a conflict between each commit and the next. By induction
over the keys, each key is judged by its own group and no other (`Judged`).
From this:

* `Symmetry`: `[]MergeSymmetric`; `NoEditLost`: `[]NothingLost`;
  `ConflictsAreLaw`: `[]ConflictLaw`; `Absorption`: `[]RemergeAbsorbs`.
* `LastMask`: `[]LastMaskWins`, by induction over the log: one more mask decides
  the commit it names and no other.

`EscapeGaugeProofs`:

* `Shape`, `EscapeTypes`: `[](TypeOK /\ StackShape)`, which is inductive as it
  stands. The hard case is a push that fails on a full stack: the mode becomes
  control although the top is the quoted scope below, and the shape still holds.
* `Wedges` and `QuotedStays`: action properties, from `Shape`.
* `Unquoted`: when Q is not among the inputs, scopes never nest and every
  stream that does not end on an escape leaves a state `escape_is_valid`
  accepts. It follows from `Shape`; no run checks it.

`EvidenceRequestsProofs`, for logs of any length and any number of faults:

* `Invariance`: `RequestSpec => []Inv`. The log as it is stored is *sound*: it
  has the entries of the recorded one but for their events and links, and every
  event is a copy of the recorded one, perhaps with another package, perhaps
  gone or rewritten, and then its receipt shows it (`SoundLog`). Payloads are
  sound in the same sense (`SoundPayload`), so what they mend is sound again.
  Checkpoint and bundle are of the recorded log (`CheckpointKept`, `BundleKept`).
  Faults are counted (`FaultsKept`): after none the store is as it was recorded,
  after one it is but in one entry. What is requested is the log or one of its
  events (`ScheduleKept`). None of the properties is inductive without the
  first: after a repair nothing else tells what the log holds.
* `EvidenceTypes`, `NothingNew`, `Whole`: `TypeOK`, `RepairAdmitsNothingNew`,
  `WholeIsRecorded`. A valid log that is sound has a copy of each event, and a
  copy admits what the recorded one does with the package it came with.
* `ResumeMatches`: `[]ResumeMatchesReplay`. Replay of a log is replay of a
  stretch and of what comes after it, whatever the stretch is named.
* `Undamaged`: `[]UndamagedResumes`, under `NoId \notin LogIds` and
  `<<>> \notin Recordings`. Both are needed: the EvidenceName run shows the
  first, and the checkpoint of an empty log is at an entry the log does not have.
* `Repairs`, `Restores`: `RightPayloadsRepair`, `ScheduledRepairRestores`, under
  `NoId \notin LogIds`, since what was repaired has to be resumed.
* `Answerable`: `[]AnswerableIsRequested`. The report is a finite set, the sort
  lists it, and with what is repairable ranked first the head of the list can
  be answered if anything can.

`WorkbenchProofs` proves theorems about parts of the workbench and carries them
over to `MCWorkbench`: every behaviour of the workbench is, seen from a part, a
behaviour of that part, because the steps of the others leave its variables
alone (`TrustSpec`, `StoreSpec`, `CompositionSpec`, `ShellSpec`, `StreamSpec`,
`GraphicsSpec`, `BlockSpec`).

* Packages in a directory: `StoreInvariance`. Every manifest in the directory
  was made by an export (`DirInv`); what a writer has written so far and what it
  has still to write make up one export (`WritingInv`); what a reader holds was
  in the directory at some time, so its manifest is an export's too
  (`ReadingInv`); a settled directory has all files of the export that settled
  it (`SettledInv`). From it `StoreOneExport`: a manifest of an export names the
  content of each file it requires, so files that match it are that export,
  whatever process left them there; and `StoreSettled`:
  `[]SettledCanBeImported`, under `ExportsAreFiles` (no content of an export is
  taken for a missing or torn file).
* Trust of packages: `TrustInvariance` (a bundle has records, and is approved
  only if one of them approves it), `TrustApproval`, and `Attestation`, an
  action property: a whole record leaves a standing bundle standing and takes no
  approval back.
* Compositions: `CompositionInvariance`, what a composition was given is a
  bundle as it is built (`GivenInv`) and every exported bundle is the export of
  some identity, view and trust (`SentInv`). Without the second nothing is known
  of a bundle exported before the composition changed. From it
  `CompositionApproval` and `CompositionOneExport`, for every bundle a carrier
  may make of an exported one, and `CompositionStale`, under `NoneIsNothing`
  (`None` is neither a record nor a file). `CompositionTrust`, an action
  property: trust stays with the scene it was given for and is refused for any
  other. A scene only grows while its trust stays, so it never comes back to one
  it was (`SceneIsKept`, `GivenIsBefore`).
* The shell: `ShellAgreement`. `ShellInv` says that document, triangulation and
  stream are of one source, how the two modes relate, and that the first, second,
  third ... proposal in the log is that of the first, second, third ... component
  or relation of the scene (`Placed`), which is `SceneIsProposed` one element at
  a time, so that one more can be put behind it.
* The graphics backends: `GraphicsInvariance`, `GraphicsAgreement`.
  `GraphicsInv` says that a plan is what its backend makes of the stream whose
  receipt it has, and that this stream had both its ends: plans of one stream
  and one mode then agree in all but the primitives (`KeyFacts`), which have one
  name for all backends except for polyforms in the mode of barcode templates
  (`TopologiesAgree`). The metadata of a plan are followed through the stream by
  induction over its length (`MetadataFacts`).
* The regions of a stream: `StreamInvariance`, `StreamsReadAlike`. The invariant
  is only that the source is a list of bytes and no region ends before it begins;
  the rest is about the readers. The overlays at an index are sorted by a strict
  order, the broadest first and the earlier of equals first, so none of them is
  hidden by one around it, and where regions are declared from broad to narrow
  the last of the overlays is the last declared. A count of counts is out of
  reach of the arithmetic of the provers, so what is counted region by region is
  compared with the stacks byte by byte: one more region adds to a band exactly
  the bytes of the band it covers, and the two ways of counting add up the same
  pairs of a byte and a region around it.
* Block images: `BlockInvariance`, `BlocksComeBack`. `BlockInv` says that the
  image is the draft it was declared of, laid out, and that a snapshot is the
  export of that image. The chunks of a layout without gaps lie one behind the
  end of the other (`LaidOut`), and of all the lists of the same chunks only one
  increases (`IncreasingIsOne`). So the order the chunks are given in does not
  matter, and the chunks that come back from a snapshot are those that were
  exported. The hypothesis is `NoneIsNoLabel`: having no name is not the name a
  chunk gets for its place.
* The index of raw bytes: `BlockDamage`, an action property, for every block size
  from 1 up. The chunk of a byte is a quotient, told by the multiples it lies
  between (`QuotientIs`), so a byte is in one chunk and no other.
* The types of the seven parts: `TrustTypes`, `StoreTypes`, `CompositionTypes`,
  `BlockTypes`, `StreamTypes`, `ShellTypes`, `GraphicsTypes`. They need the
  invariants above: of a stored bundle that it has a record at all, of a
  composition that it has at most a component for each template
  (`ComposedBounds`), of an image that a chunk without content is a sparse one.
* `WorkbenchTypes`, `WorkbenchApproval`, `WorkbenchOneExport`, `WorkbenchStale`,
  `WorkbenchTrust`, `WorkbenchShell`, `WorkbenchPlans`, `WorkbenchRegions`,
  `WorkbenchImages`, `WorkbenchDamage`: the properties `TypeOK`,
  `ApprovalIsSigned`, `ImportedIsOneExport`, `OnlyStaleIsRefused`, `TrustIsKept`,
  `ShellAgrees`, `PlansAgree`, `RegionsReadAlike`, `ImagesComeBack` and
  `DamageIsLocated` that the Workbench run checks, under the hypotheses above.
  `WorkbenchTypes` has `BoundsAreNumbers` besides: the bounds are natural
  numbers, frames, regions and records at least one, there is a style, and what
  is drawn are paths. The values of the Workbench run satisfy all of them.

`WorldHistoryProofs`, for any number of peers, worlds, edges and packages and
every order of the receipts:

* `Soundness`: `Spec => []WorldInv`. Every world but the first goes on from an
  earlier one (`SoundWorlds`), so an edge always leads from an earlier world to
  a later one: the lineage of a world is well founded (`LineageExists`), and a
  replay climbs until it stands on a leaf, where more turns than there are
  worlds make no difference (`ReplayEnds`). A graph has both ends of its edges
  (`SoundGraph`), and a world that is admitted later changes nothing about what
  the graphs of before say (`GrowthKeeps`). A package on a carrier, damaged or
  not, is what some graph was exported as (`SoundPackage`): `PeersReadAlike` is
  not inductive without it, because the `latest` of a package was computed when
  fewer worlds were there.
* `Types`, `Kept`, `Opened`, `ReadAlike`, `FirstConflict`: `TypeOK`,
  `HistoryIsKept`, `HistoryCanBeOpened`, `PeersReadAlike` and
  `FirstBranchesConflict`. They rest on the sort of the edges listing each of
  them once (`SortExists`), whatever the receipts are.

Only model-checked: liveness (`EventuallyApplied`), which is out of the prover's
reach. Every other property of a passing run is stated by a theorem.

## 5. Plan

1. Edit log, sync packets, channel, ordered delivery, proofs (done).
2. Merge court, proofs (done).
3. Transport evidence and peer exchange (done).
4. Escape machine, proofs (done).
5. Requests for evidence, over the store, proofs (done).
6. Overlays, histories, merges and packages of worlds, proofs (done).
7. Shell, streams, graphics, block images (done).
8. Packages and trust, compositions and bundles, proofs (done).
9. Requests that can be answered, regions of a stream, block images, the index
   of raw bytes, the types of the workbench, proofs (done).
10. Larger instances: three peers in `WorldHistory`, a third package in
    `PackageStore`.

## 6. Not modelled

* **Documents and rendering** (`block_image_projection.js`,
  `narrative_timeline.js`, `omilisp_declaration.js`, the Org parser and
  exporter, the SVG and canvas renderers, `autonomous_world_live_renderer.js`):
  functions from one document to a text or a picture. No step of another actor
  and no fault comes between.
* **Trace recorder** (`trace.c`): nothing feeds it. The stepper does not call
  `trace_append`, and the only traces are written by hand in
  tools/gauge_replay.c.
* **Rules engine and boot**: one deterministic run for a given memory image,
  along a fixed orbit, with at most one rewrite; the outcome is arithmetic over
  the image.
* **Userspace loader and VFS**: bounded tables that are filled once; a full
  table refuses before anything is written, and no entry is ever changed.
* **Gauge table and carrier arithmetic** behind the header, registration of
  peers and offers, the frames of the sync carriers: straight-line code without
  state of its own.
* **Stubs** (kernel scheduler, event loop, compiler), register and constant
  checks of the kernel's device courts, conversions (`polyform`), command-line
  tools, declarations and documents.
