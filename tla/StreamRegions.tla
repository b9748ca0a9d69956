---------------------------- MODULE StreamRegions ----------------------------
(***************************************************************************)
(* The declaration of a source stream: regions of it are declared to be    *)
(* read one way or another, they may overlap, and readers resolve what     *)
(* holds at an index (stream_declaration.js, stream_projection.js).        *)
(*                                                                         *)
(* The source is the sequence of its bytes, its first byte at index 0.     *)
(* What a region declares besides its place and its presentation (binary   *)
(* mode, endian, direction, traversal, encoding, label) is its style.      *)
(* Receipts are hashes, taken to be free of collisions: they are content.  *)
(***************************************************************************)
EXTENDS Integers, Sequences, SequencesExt, FiniteSetsExt, Sorting

CONSTANTS Sources,      \* what the source may be: sequences of bytes
          Styles,       \* what else regions declare
          Bad,          \* an attribute no region may have
          None,         \* no region
          MaxRegions    \* bound: regions declared

VARIABLES source, regions, active

vars == <<source, regions, active>>
-----------------------------------------------------------------------------
(* Normalisation. *)

Bands == {"control", "operator", "measurement", "projection", "extended"}

ClassifyCodepoint(byte) ==
  CASE byte <= 31         -> "control"
    [] byte \in 32 .. 47  -> "operator"
    [] byte \in 48 .. 63  -> "measurement"
    [] byte \in 64 .. 127 -> "projection"
    [] OTHER              -> "extended"

\* The presentations go by two names each.
NormalizePresentation(name) ==
  CASE name \in {"lazy", "barcode"} -> "barcode"
    [] name \in {"greedy", "chart"} -> "chart"
    [] OTHER -> Bad

\* A region is brought in order; it must lie in the source, if there is any.
NormalizeRegion(region, length) ==
  LET start == Max({0, region.start})
      end == IF region.end = None THEN start ELSE Max({start, region.end})
  IN  IF region.style # Bad /\ (length > 0 => end < length)
      THEN [start |-> start, end |-> end, style |-> region.style] ELSE None

Covers(region, index) == region.start <= index /\ index <= region.end
-----------------------------------------------------------------------------
(* What the declaration tells. *)

Covering(index) == {i \in DOMAIN regions : Covers(regions[i], index)}

\* resolveIndex: the region declared last is the one that holds.
FindRegion(index) ==
  IF Covering(index) = {} THEN None ELSE regions[Max(Covering(index))]
-----------------------------------------------------------------------------
(* Projections. *)

BytesFromSource(start, end) == SubSeq(source, start + 1, Min({end + 1, Len(source)}))

RegionSpan(region) == region.end - region.start + 1

ProjectRegion(region, mode) ==
  [region |-> region, mode |-> mode, bytes |-> BytesFromSource(region.start, region.end)]

Total(counts) == FoldLeft(LAMBDA total, count : total + count, 0, counts)

\* One for each byte of the band.
InBand(bytes, band) ==
  [k \in DOMAIN bytes |-> IF ClassifyCodepoint(bytes[k]) = band THEN 1 ELSE 0]

BandCounts(projected) == [band \in Bands |-> Total(InBand(projected.bytes, band))]

\* Fault: how long a region is is not looked at.
OverlayOrderByStart(i, j) ==
  LET a == regions[i] b == regions[j]
  IN  \/ a.start < b.start
      \/ a.start = b.start /\ i < j

\* compareOverlayOrder. At the top of a projection there is no declaration
\* order to compare, and the sort leaves equals as they were declared.
OverlayOrder(i, j) ==
  LET a == regions[i] b == regions[j]
  IN  \/ RegionSpan(a) > RegionSpan(b)
      \/ RegionSpan(a) = RegionSpan(b) /\ a.start < b.start
      \/ RegionSpan(a) = RegionSpan(b) /\ a.start = b.start /\ i < j

\* resolveOverlayStack: every overlay sets all there is to be set, so that
\* the last one is what is resolved.
OverlayStack(index) == Sorted(Covering(index), OverlayOrder)

\* projectStreamIndex.
ResolvedRegion(index) ==
  IF OverlayStack(index) = <<>> THEN None ELSE regions[Last(OverlayStack(index))]

ProjectStreamDeclaration(mode) == [i \in DOMAIN regions |-> ProjectRegion(regions[i], mode)]

TotalBandCounts(mode) ==
  LET projected == ProjectStreamDeclaration(mode)
  IN  [band \in Bands |->
         Total([i \in DOMAIN projected |-> BandCounts(projected[i])[band]])]
-----------------------------------------------------------------------------
(* The system. *)

InitialRegions(declared) ==
  IF declared = <<>> THEN <<>>
  ELSE <<[start |-> 0, end |-> Len(declared) - 1,
          style |-> CHOOSE style \in Styles : TRUE]>>

\* A stream begins with one region, of all of it, or with a list of none.
Init ==
  /\ source \in Sources
  /\ regions \in {InitialRegions(source), <<>>}
  /\ active = "barcode"

\* The regions stay as they were declared, of whatever source.
SetSource(next) ==
  /\ source' = next
  /\ UNCHANGED <<regions, active>>

\* What cannot be brought in order is not declared.
DeclareRegion(given) ==
  LET region == NormalizeRegion(given, Len(source))
  IN  /\ region # None
      /\ Len(regions) < MaxRegions
      /\ regions' = Append(regions, region)
      /\ UNCHANGED <<source, active>>

SetPresentation(name) ==
  /\ NormalizePresentation(name) # Bad
  /\ active' = NormalizePresentation(name)
  /\ UNCHANGED <<source, regions>>

TogglePresentation == SetPresentation(IF active = "barcode" THEN "chart" ELSE "barcode")

\* Regions as they are given: the end may be missing, either place may be
\* negative or lie behind the longest source.
Places == -1 .. Max({Len(s) : s \in Sources})
Given == [start : Places, end : Places \cup {None}, style : Styles \cup {Bad}]

Next ==
  \/ \E next \in Sources : SetSource(next)
  \/ \E given \in Given : DeclareRegion(given)
  \/ \E name \in {"lazy", "chart", "unknown"} : SetPresentation(name)
  \/ TogglePresentation

Spec == Init /\ [][Next]_vars
-----------------------------------------------------------------------------
(* Properties. *)

Indices == 0 .. Len(source) - 1

\* Types of the state.
TypeOK ==
  /\ source \in Sources
  /\ Len(regions) <= MaxRegions
  /\ \A i \in DOMAIN regions :
       /\ regions[i].style \in Styles
       /\ 0 <= regions[i].start /\ regions[i].start <= regions[i].end
  /\ active \in {"barcode", "chart"}

\* "Broader regions first, narrower regions later" (docs/PHASE-73): at an
\* index nothing is hidden by a region around it, and of two declarations of
\* the same place the later one holds.
InnermostHolds ==
  \A index \in Indices : \A i \in Covering(index) :
    LET held == Last(OverlayStack(index))
    IN  /\ ~(/\ regions[held].start <= regions[i].start
             /\ regions[i].end <= regions[held].end
             /\ RegionSpan(regions[i]) < RegionSpan(regions[held]))
        /\ (regions[i].start = regions[held].start /\ regions[i].end = regions[held].end)
             => i <= held

\* Whoever declares from broad to narrow.
Refining ==
  \A i, j \in DOMAIN regions :
    (i < j /\ \E index \in Indices : {i, j} \subseteq Covering(index)) => OverlayOrder(i, j)

\* The two inspectors of an index go by laws of their own, the last region
\* declared (resolveIndex) and the narrowest (projectStreamIndex): they tell
\* the same of a stream whose regions were declared from broad to narrow.
InspectorsAgree ==
  Refining => \A index \in Indices : FindRegion(index) = ResolvedRegion(index)

\* What a projection counts in all is what the stacks of overlays are made of
\* at the indices of the source, one by one: a region that reaches behind a
\* source that has shrunk counts nothing there.
CountsAddUp ==
  \A band \in Bands :
    TotalBandCounts(active)[band] =
      Total([k \in DOMAIN source |->
               InBand(source, band)[k] * Len(OverlayStack(k - 1))])

\* The readers of a stream tell one story: whoever asks what holds at an index,
\* and whoever counts what is there.
RegionsReadAlike == InnermostHolds /\ InspectorsAgree /\ CountsAddUp
=============================================================================
