---------------------------- MODULE WorldHistory ----------------------------
(***************************************************************************)
(* Admitted worlds and their histories: overlays become candidate edits    *)
(* and candidates become worlds (autonomous_world_overlay_admission.js),   *)
(* two branches are merged (autonomous_world_merge_reconciliation.js), the *)
(* admissions are linked in a history graph                                *)
(* (autonomous_world_version_history.js) and a graph travels to another    *)
(* peer as a sync package (autonomous_world_package_sync.js).              *)
(*                                                                         *)
(* A receipt is a hash, taken here to be free of collisions: the identity  *)
(* of a world is its place in "world", where a content is entered once. In *)
(* which order the hashes of two edges sort is anybody's guess: "rank" is  *)
(* a permutation chosen at the start. An edge is determined by the world   *)
(* it leads to, so an edge is the identity of that world.                  *)
(***************************************************************************)
EXTENDS Naturals, Sequences, FiniteSets, SequencesExt

CONSTANTS Peers, Paths, Bodies, Kinds,
          MaxWorlds,      \* bound: admitted worlds, the first one included
          MaxEdges,       \* bound: edges of one graph, repetitions included
          MaxPackages     \* bound: packages exported

ASSUME WorldAssumption == MaxWorlds \in Nat \ {0}

VARIABLES world,       \* the admitted worlds, by identity
          rank,        \* how the receipts of the edges sort
          graph,       \* the history graph each peer holds
          wire         \* the sync packages a carrier holds

vars == <<world, rank, graph, wire>>

NoWorld == 0
Identities == 1 .. Len(world)
-----------------------------------------------------------------------------
(* Worlds. A source is the blocks that were appended to the first world's. *)

OverlayBlock(candidate) == [group |-> "admitted-overlays", of |-> candidate]

MergeBlock(candidate) == [group |-> "admitted-merges", of |-> candidate]

\* openWorld of a built world: its report names a package, a closure and a
\* raw index. The report openWorld makes up for a source text names none.
Genesis(built) == [blocks |-> <<>>, from |-> NoWorld, witnessed |-> built]

\* What snapshotIdentity hashes, and the report beside it.
Admitted(blocks, from) == [blocks |-> blocks, from |-> from, witnessed |-> TRUE]

IdentityOf(content) ==
  IF \E w \in Identities : world[w] = content
  THEN CHOOSE w \in Identities : world[w] = content
  ELSE Len(world) + 1

\* Fault: only the first admitted world is kept.
EnteredFirstOnly(content) == IF Len(world) = 1 THEN Append(world, content) ELSE world

Entered(content) == IF IdentityOf(content) \in Identities THEN world
                                                          ELSE Append(world, content)

\* createOverlay: the receipt leaves out the kind.
Overlay(target, body, kind, made) ==
  [target |-> target, body |-> body, kind |-> kind, made |-> made]
OverlayReceipt(overlay) == <<overlay.target, overlay.body, overlay.made>>

\* createCandidateEdit: an overlay that has a receipt is taken as it is, even
\* when it was made over another world than the candidate is made against.
CandidateEdit(overlay, against) == [overlay |-> overlay, against |-> against]
-----------------------------------------------------------------------------
(* Merging. *)

\* groupRecords: every admission appends a group of its own; the first one
\* of that name is read.
GroupRecords(blocks, group) ==
  LET mine == {i \in DOMAIN blocks : blocks[i].group = group}
  IN  IF mine = {} THEN <<>>
      ELSE <<blocks[CHOOSE i \in mine : \A j \in mine : i <= j]>>

\* admittedOverlays.
AdmittedOverlays(w) ==
  {block.of.overlay : block \in Range(GroupRecords(world[w].blocks, "admitted-overlays"))}

Differ(left, right) == \/ OverlayReceipt(left) # OverlayReceipt(right)
                       \/ left.body # right.body
                       \/ left.kind # right.kind

\* Fault: only the receipts are compared.
ClassifyConflictsByReceipt(base, left, right) ==
  {pair \in AdmittedOverlays(left) \X AdmittedOverlays(right) :
     /\ pair[1].target = pair[2].target
     /\ OverlayReceipt(pair[1]) # OverlayReceipt(pair[2])}

\* classifyConflicts.
ClassifyConflicts(base, left, right) ==
  {pair \in AdmittedOverlays(left) \X AdmittedOverlays(right) :
     pair[1].target = pair[2].target /\ Differ(pair[1], pair[2])}

MergeCandidate(base, left, right) ==
  [base |-> base, left |-> left, right |-> right,
   conflicts |-> ClassifyConflicts(base, left, right)]
Admissible(candidate) == candidate.conflicts = {}

\* Fault: the merged world is built on the base.
MergedOntoBase(base, left, right) ==
  Admitted(Append(world[base].blocks, MergeBlock(MergeCandidate(base, left, right))), base)

\* admitMerge: the left branch's source with a block that names both, linked
\* in the history to the base.
Merged(base, left, right) ==
  Admitted(Append(world[left].blocks, MergeBlock(MergeCandidate(base, left, right))), base)
-----------------------------------------------------------------------------
(* History graphs. *)

\* createHistoryGraph, of the first world's snapshot or of nothing.
HistoryGraph(w) ==
  [root |-> w, edges |-> <<>>, snapshots |-> IF w = NoWorld THEN {} ELSE {w}]

\* Fault: the new snapshot is left to the caller.
AddAdmissionEdgeOnly(g, from, w) ==
  [root |-> IF g.root = NoWorld THEN from ELSE g.root,
   edges |-> Append(g.edges, [from |-> from, to |-> w]),
   snapshots |-> g.snapshots]

\* addAdmission, which does not look whether the edge is there.
AddAdmission(g, from, w) ==
  [root |-> IF g.root = NoWorld THEN from ELSE g.root,
   edges |-> Append(g.edges, [from |-> from, to |-> w]),
   snapshots |-> g.snapshots \cup {w}]

OutgoingEdges(g, w) == {edge \in Range(g.edges) : edge.from = w}

\* Fault: the edge that was added last.
NextOfAdded(g) ==
  [w \in {edge.from : edge \in Range(g.edges)} |->
     LET mine == {i \in DOMAIN g.edges : g.edges[i].from = w}
     IN  g.edges[CHOOSE i \in mine : \A j \in mine : j <= i].to]

\* Where the replay goes from an identity that has edges: along the one whose
\* receipt sorts last.
NextOf(g) ==
  [w \in {edge.from : edge \in Range(g.edges)} |->
     LET to == {edge.to : edge \in OutgoingEdges(g, w)}
     IN  CHOOSE v \in to : \A u \in to : rank[u] <= rank[v]]

\* A turn of the loop of replayLatest.
Visit(next, replay) ==
  IF replay.at \in replay.visited \/ replay.at \notin DOMAIN next THEN replay
  ELSE [at |-> next[replay.at], visited |-> replay.visited \cup {replay.at}]

\* replayLatest: the identity it ends at. It goes nowhere twice, so there are
\* no more turns than worlds.
ReplayLatest(g) ==
  LET next == NextOf(g)
  IN  FoldLeft(LAMBDA replay, w : Visit(next, replay),
               [at |-> g.root, visited |-> {}], world).at

\* openSnapshot throws for any other identity.
CanOpen(g, w) == w \in g.snapshots
-----------------------------------------------------------------------------
(* Sync packages. *)

\* deriveBranches: an edge that is there twice makes a branching too.
DeriveBranches(edges) ==
  {w \in {edge.from : edge \in Range(edges)} :
     Cardinality({i \in DOMAIN edges : edges[i].from = w}) > 1}

\* The edges in the order of their receipts.
Ascending(edges, order) ==
  \A i, j \in DOMAIN edges :
    i < j => rank[edges[order[i]].to] <= rank[edges[order[j]].to]
SortedEdges(edges) ==
  LET order == CHOOSE order \in Bijection(DOMAIN edges, DOMAIN edges) :
                 Ascending(edges, order)
  IN  [i \in DOMAIN edges |-> edges[order[i]]]

\* exportSyncPackage. "latest" is not in the package: it is what the sender's
\* graph replayed to, kept to be compared.
SyncPackage(g) ==
  [root |-> g.root, edges |-> SortedEdges(g.edges), snapshots |-> g.snapshots,
   branches |-> DeriveBranches(SortedEdges(g.edges)), intact |-> TRUE,
   latest |-> ReplayLatest(g)]

VerifyHistoryEdges(package) ==
  \A edge \in Range(package.edges) : edge.to \in package.snapshots
VerifySnapshots(package) == \A w \in package.snapshots : world[w].witnessed

\* verifySyncPackage. The receipt covers all a package holds.
VerifySyncPackage(package) ==
  /\ package.intact
  /\ package.snapshots # {}
  /\ VerifySnapshots(package)
  /\ VerifyHistoryEdges(package)

\* importSyncPackage.
ImportedGraph(package) ==
  [root |-> package.root, edges |-> package.edges, snapshots |-> package.snapshots]
-----------------------------------------------------------------------------
(* The system. *)

\* One peer holds the first world; the others have its history or none.
Init ==
  /\ \E built \in BOOLEAN : world = <<Genesis(built)>>
  /\ rank \in {r \in [1 .. MaxWorlds -> 1 .. MaxWorlds] :
                 r[1] = 1 /\ \A v, w \in 1 .. MaxWorlds : r[v] = r[w] => v = w}
  /\ graph \in [Peers -> {HistoryGraph(1), HistoryGraph(NoWorld)}]
  /\ \E p \in Peers : graph[p] = HistoryGraph(1)
  /\ wire = {}

\* The candidate edits a peer that has w open may hold. Worlds never change, so
\* one that was made long ago is one that could be made now: it may be of
\* another world (here, of the first one).
CandidateEdits(w) ==
  {CandidateEdit(Overlay(target, body, kind, made), made) :
     target \in Paths, body \in Bodies, kind \in Kinds, made \in {1, w}}

\* admitCandidate and the link to it. Any candidate may be admitted into any
\* open world: the two identities are not compared. (rejectCandidate changes
\* nothing.)
AdmitCandidate(p, w, candidate) ==
  LET content == Admitted(Append(world[w].blocks, OverlayBlock(candidate)), w)
  IN  /\ CanOpen(graph[p], w)
      /\ Len(graph[p].edges) < MaxEdges
      /\ IdentityOf(content) <= MaxWorlds
      /\ world' = Entered(content)
      /\ graph' = [graph EXCEPT ![p] = AddAdmission(@, w, IdentityOf(content))]
      /\ UNCHANGED <<rank, wire>>

\* The worlds that descend from w.
Descends(v, w) ==
  LET lineage[u \in Identities \cup {NoWorld}] ==
        IF u = NoWorld THEN {} ELSE {u} \cup lineage[world[u].from]
  IN  w \in lineage[v]

\* admitMerge and linkMergedHistory, of two branches of one base. A candidate
\* with conflicts is admitted only with allow_conflicts; without it the merge
\* is refused (rejectMerge) and neither branch changes.
AdmitMerge(p, base, left, right, allowConflicts) ==
  LET content == Merged(base, left, right)
  IN  /\ \A w \in {base, left, right} : CanOpen(graph[p], w)
      /\ left # base /\ right # base /\ left # right
      /\ Descends(left, base) /\ Descends(right, base)
      /\ Len(graph[p].edges) < MaxEdges
      /\ IdentityOf(content) <= MaxWorlds
      /\ Admissible(MergeCandidate(base, left, right)) \/ allowConflicts
      /\ world' = Entered(content)
      /\ graph' = [graph EXCEPT ![p] = AddAdmission(@, base, IdentityOf(content))]
      /\ UNCHANGED <<rank, wire>>

\* A peer exports the history it holds.
ExportSyncPackage(p) ==
  /\ Cardinality(wire) < MaxPackages
  /\ wire' = wire \cup {SyncPackage(graph[p])}
  /\ UNCHANGED <<world, rank, graph>>

\* The carrier damages a package.
Damage(package) ==
  /\ package.intact
  /\ wire' = (wire \ {package}) \cup {[package EXCEPT !.intact = FALSE]}
  /\ UNCHANGED <<world, rank, graph>>

\* A peer takes over the history of a package that verifies, in place of its
\* own: there is no operation that joins two graphs.
ImportSyncPackage(p, package) ==
  /\ VerifySyncPackage(package)
  /\ graph' = [graph EXCEPT ![p] = ImportedGraph(package)]
  /\ UNCHANGED <<world, rank, wire>>

Next ==
  \/ \E p \in Peers, w \in Identities : \E c \in CandidateEdits(w) : AdmitCandidate(p, w, c)
  \/ \E p \in Peers, b, l, r \in Identities, allow \in BOOLEAN : AdmitMerge(p, b, l, r, allow)
  \/ \E p \in Peers : ExportSyncPackage(p)
  \/ \E package \in wire : Damage(package)
  \/ \E p \in Peers, package \in wire : ImportSyncPackage(p, package)

Spec == Init /\ [][Next]_vars
-----------------------------------------------------------------------------
(* Properties. *)

Graph == [root : Identities \cup {NoWorld},
          edges : Seq([from : Identities, to : Identities]),
          snapshots : SUBSET Identities]

\* Types of the state.
TypeOK ==
  /\ Len(world) <= MaxWorlds
  /\ \A w \in Identities : world[w].from \in Identities \cup {NoWorld}
  /\ graph \in [Peers -> Graph]

\* World history is not overwritten: whatever was proposed where, whichever
\* branches were merged and through whomever a graph came, the world an edge
\* leads to has all the declarations of the world the edge leaves, and one more
\* at least (admitCandidate, admitMerge).
HistoryNeverForgets ==
  \A p \in Peers : \A edge \in Range(graph[p].edges) :
    IsStrictPrefix(world[edge.from].blocks, world[edge.to].blocks)

\* A merged world has every declaration of its left branch (admitMerge).
MergeKeepsLeft ==
  \A w \in Identities : LET blocks == world[w].blocks IN
    blocks # <<>> /\ Last(blocks).group = "admitted-merges"
      => Front(blocks) = world[Last(blocks).of.left].blocks

\* Every edge of a graph has both its ends in the graph, so every version a
\* history names can be opened, after any number of imports too (addAdmission,
\* verifyHistoryEdges, openSnapshot).
EdgesCanBeOpened ==
  \A p \in Peers : \A edge \in Range(graph[p].edges) :
    CanOpen(graph[p], edge.from) /\ CanOpen(graph[p], edge.to)

\* replayLatest ends at a version that nothing was admitted onto, and never
\* because it came round to where it had been: the identity of a world covers
\* the one it was made from.
ReplayEndsAtLeaf ==
  \A p \in Peers : OutgoingEdges(graph[p], ReplayLatest(graph[p])) = {}

\* Two peers that hold one history replay it to one version: the receiver of a
\* package, whose edges come in another order, ends where the sender did
\* (exportSyncPackage, importSyncPackage, replayLatest).
ImportedReplaysAlike ==
  \A package \in wire :
    VerifySyncPackage(package) => ReplayLatest(ImportedGraph(package)) = package.latest

\* A package names every version two different worlds were made from
\* (deriveBranches).
ForksAreReported ==
  \A package \in wire : \A w \in Identities :
    Cardinality({edge.to : edge \in {e \in Range(package.edges) : e.from = w}}) > 1
      => w \in package.branches

\* Whatever a peer can export of a history that began with a built world, a
\* peer can import, as long as the carrier leaves it alone (exportSyncPackage,
\* verifySyncPackage).
ExportsCanBeImported ==
  world[1].witnessed => \A package \in wire :
    package.intact /\ package.snapshots # {} => VerifySyncPackage(package)

\* What was admitted stays: a history says nothing its worlds take back, and
\* a merge loses nothing of the branch it is built on.
HistoryIsKept == HistoryNeverForgets /\ MergeKeepsLeft

\* A history stays one that can be opened, sent and taken over: every version
\* it names is in it, and what was built in the open is never refused by the
\* peer it is sent to.
HistoryCanBeOpened == EdgesCanBeOpened /\ ExportsCanBeImported

\* Peers read one history alike: both end at the same leaf, and are told of
\* the same forks on the way.
PeersReadAlike == ReplayEndsAtLeaf /\ ImportedReplaysAlike /\ ForksAreReported

\* The overlays two branches really have, of every admission since the first.
OverlaysOf(w) == {world[w].blocks[i].of.overlay :
                    i \in {j \in DOMAIN world[w].blocks :
                            world[w].blocks[j].group = "admitted-overlays"}}

Disagree(left, right) ==
  \E l \in OverlaysOf(left) \ OverlaysOf(right), r \in OverlaysOf(right) \ OverlaysOf(left) :
    l.target = r.target /\ Differ(l, r)

\* Two worlds made straight from the first one, which say different things of
\* one path, are not merged without allow_conflicts (classifyConflicts).
FirstBranchesConflict ==
  LET first == {w \in Identities : Len(world[w].blocks) = 1}
  IN  \A left, right \in first :
        Disagree(left, right) => ~Admissible(MergeCandidate(1, left, right))

Branches == {t \in Identities \X Identities \X Identities :
               Descends(t[2], t[1]) /\ Descends(t[3], t[1])}

\* "Conflict records are deterministic witnesses over branch divergence": two
\* branches that say different things of one path are never merged without
\* allow_conflicts. (They are: once the base has an admitted overlay, its
\* group is the one that is read in both branches.)
ConflictsAreWitnessed ==
  \A t \in Branches :
    Disagree(t[2], t[3]) => ~Admissible(MergeCandidate(t[1], t[2], t[3]))
=============================================================================
