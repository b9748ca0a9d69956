------------------------------ MODULE BlockImage ------------------------------
(***************************************************************************)
(* Block images: a layout of chunks is declared, exported as a snapshot    *)
(* and imported again (block_image_declaration.js), and raw bytes are      *)
(* indexed in chunks (raw_binary_chunk_index.js).                          *)
(*                                                                         *)
(* Bytes that a chunk brings are told by what they say and how many they   *)
(* are.  A hash or a receipt is taken to be free of collisions: it is the  *)
(* content.  Label, path, scope and anchor of a chunk are its label.       *)
(***************************************************************************)
EXTENDS Integers, Sequences, SequencesExt, FiniteSetsExt, Sorting

CONSTANTS None,       \* no bytes, no hash, no label, no image
          BlockSize,  \* the size of a block
          Given,      \* chunks as they may be given
          MaxChunks,  \* bound: chunks of an image
          MaxBytes    \* bound: raw bytes

VARIABLES draft,    \* the chunks given so far
          image,    \* the image declared of them, or imported
          snapshot, \* the snapshot exported last
          raw       \* the raw bytes that are indexed

vars == <<draft, image, snapshot, raw>>
-----------------------------------------------------------------------------
(* Declarations. *)

\* The hash a chunk goes under: content_hash, or else hash or bytes_hash, or
\* else that of its bytes. Only the first is ever compared with the bytes.
ContentHash(chunk) ==
  IF chunk.contentHash # None THEN chunk.contentHash
  ELSE IF chunk.hash # None THEN chunk.hash ELSE chunk.bytes

ValidChunk(chunk) ==
  /\ chunk.offset >= 0 /\ chunk.offset % BlockSize = 0
  /\ chunk.size > 0 /\ chunk.size % BlockSize = 0
  /\ chunk.sparse <=> ContentHash(chunk) = None
  /\ chunk.bytes # None => /\ chunk.bytes.length = chunk.size
                           /\ chunk.contentHash \in {None, chunk.bytes}

\* Fault: a chunk is named by its place, whatever label it has.
NormalizeChunkByPlace(chunk, index) ==
  [chunk EXCEPT !.hash = None,
                !.contentHash = ContentHash(chunk),
                !.label = <<"chunk", index>>]

\* normalizeChunk: a chunk without a label is named by its place in the list.
NormalizeChunk(chunk, index) ==
  [chunk EXCEPT !.hash = None,
                !.contentHash = ContentHash(chunk),
                !.label = IF @ = None THEN <<"chunk", index>> ELSE @]

ChunkReceipt(chunk) ==
  [offset |-> chunk.offset, size |-> chunk.size, sparse |-> chunk.sparse,
   label |-> chunk.label, contentHash |-> chunk.contentHash,
   length |-> IF chunk.bytes = None THEN 0 ELSE chunk.bytes.length]

\* By offset, then by size; equals stay as they were declared.
InOrder(chunks) ==
  LET Before(i, j) ==
        \/ chunks[i].offset < chunks[j].offset
        \/ chunks[i].offset = chunks[j].offset /\ chunks[i].size < chunks[j].size
        \/ chunks[i].offset = chunks[j].offset /\ chunks[i].size = chunks[j].size /\ i < j
      order == Sorted(DOMAIN chunks, Before)
  IN  [i \in DOMAIN order |-> chunks[order[i]]]

Contiguous(chunks) ==
  \A i \in DOMAIN chunks :
    chunks[i].offset = IF i = 1 THEN 0 ELSE chunks[i - 1].offset + chunks[i - 1].size

\* normalizeDeclaration, which throws for what is not a layout.
NormalizeDeclaration(chunks) ==
  LET sorted == InOrder([i \in DOMAIN chunks |-> NormalizeChunk(chunks[i], i - 1)])
  IN  IF chunks # <<>> /\ (\A i \in DOMAIN chunks : ValidChunk(chunks[i])) /\ Contiguous(sorted)
      THEN sorted ELSE None

TotalSize(chunks) == Last(chunks).offset + Last(chunks).size

IdentityReceipt(chunks) == [i \in DOMAIN chunks |-> ChunkReceipt(chunks[i])]
-----------------------------------------------------------------------------
(* Snapshots. What is exported or imported is brought in order again. *)

\* projectBlockImageDeclaration: only "greedy" shows the bytes.
Projection(chunks, mode) ==
  [identity |-> IdentityReceipt(chunks), mode |-> mode,
   surface  |-> IF mode = "greedy" THEN chunks ELSE IdentityReceipt(chunks)]

SnapshotFiles(chunks, mode, view) ==
  [declaration |-> chunks,
   chunks      |-> chunks,
   projection  |-> Projection(chunks, mode),
   receipts    |-> [identity |-> IdentityReceipt(chunks),
                    projection |-> Projection(chunks, mode), view |-> <<view, mode>>]]

ExportSnapshot(chunks, mode, view) ==
  LET normal == NormalizeDeclaration(chunks)
      files == SnapshotFiles(normal, mode, view)
  IN  IF normal = None THEN None
      ELSE [manifest |-> [mode |-> mode, view |-> view, identity |-> IdentityReceipt(normal),
                          fileReceipts |-> files],
            files |-> files]

\* validateManifest, and the declaration it returns.
ImportSnapshot(given) ==
  LET manifest == given.manifest
      files == given.files
      normal == NormalizeDeclaration(files.declaration)
  IN  IF /\ files = manifest.fileReceipts
         /\ normal # None
         /\ normal = files.chunks
         /\ IdentityReceipt(normal) = manifest.identity
         /\ files.receipts = [identity |-> manifest.identity,
                              projection |-> files.projection,
                              view |-> <<manifest.view, manifest.mode>>]
         /\ files.projection = Projection(normal, manifest.mode)
      THEN normal ELSE None
-----------------------------------------------------------------------------
(* The index of raw bytes. *)

\* Fault: a chunk that begins with a zero is taken for a hole.
IsSparseAtFirst(bytes) == bytes[1] = 0

IsSparse(bytes) == \A i \in DOMAIN bytes : bytes[i] = 0

\* createChunks: the last chunk may be short.
RawChunks(bytes) ==
  LET count == (Len(bytes) + BlockSize - 1) \div BlockSize
  IN  [k \in 1 .. count |->
         SubSeq(bytes, (k - 1) * BlockSize + 1, Min({k * BlockSize, Len(bytes)}))]

\* The receipts of the chunks: those of a hole do not name its bytes.
ChunkIndex(bytes) ==
  LET chunks == RawChunks(bytes)
  IN  [k \in DOMAIN chunks |->
         [size |-> Len(chunks[k]), sparse |-> IsSparse(chunks[k]),
          contentHash |-> IF IsSparse(chunks[k]) THEN None ELSE chunks[k]]]

IndexReceipt(bytes) == [total |-> Len(bytes), chunks |-> ChunkIndex(bytes)]
-----------------------------------------------------------------------------
(* The system: one image or one file of raw bytes at a time. *)

Modes == {"lazy", "greedy"}

Init == draft = <<>> /\ image = None /\ snapshot = None /\ raw = <<>>

GiveChunk(chunk) ==
  /\ image = None
  /\ Len(draft) < MaxChunks
  /\ draft' = Append(draft, chunk)
  /\ UNCHANGED <<image, snapshot, raw>>

\* createBlockImageDeclaration.
Declare ==
  /\ image = None
  /\ NormalizeDeclaration(draft) # None
  /\ image' = NormalizeDeclaration(draft)
  /\ UNCHANGED <<draft, snapshot, raw>>

Export(mode, view) ==
  /\ image # None
  /\ ExportSnapshot(image, mode, view) # None
  /\ snapshot' = ExportSnapshot(image, mode, view)
  /\ UNCHANGED <<draft, image, raw>>

\* What was exported takes the place of what was declared.
Import ==
  /\ snapshot # None
  /\ ImportSnapshot(snapshot) # None
  /\ image' = ImportSnapshot(snapshot)
  /\ UNCHANGED <<draft, snapshot, raw>>

\* Storage: the bytes grow, or one of them changes.
GrowRaw(byte) ==
  /\ Len(raw) < MaxBytes
  /\ raw' = Append(raw, byte)
  /\ UNCHANGED <<draft, image, snapshot>>

ChangeRaw(i, byte) ==
  /\ raw' = [raw EXCEPT ![i] = byte]
  /\ UNCHANGED <<draft, image, snapshot>>

Next ==
  \/ raw = <<>> /\ \E chunk \in Given : GiveChunk(chunk)
  \/ Declare
  \/ \E mode, view \in Modes : Export(mode, view)
  \/ Import
  \/ draft = <<>> /\ \E byte \in {0, 1, 255} :
       GrowRaw(byte) \/ \E i \in DOMAIN raw : ChangeRaw(i, byte)

Spec == Init /\ [][Next]_vars
-----------------------------------------------------------------------------
(* Properties. *)

\* Types of the state: an image is a list of valid chunks in order, each of
\* which goes by a label and, unless it is a hole, by a hash.
TypeOK ==
  /\ Len(draft) <= MaxChunks
  /\ image # None => \A i \in DOMAIN image : /\ image[i].label # None
                                            /\ image[i].sparse <=> image[i].contentHash = None
  /\ snapshot # None => snapshot.manifest.mode \in Modes
  /\ Len(raw) <= MaxBytes

\* "Sparse chunks are declared holes, not implicit gaps" (docs/PHASE-77):
\* every byte of an image is in one chunk, present or hole, and in no other,
\* in whatever order the chunks were given.
EveryByteHasOneChunk ==
  image # None =>
    \A at \in 0 .. TotalSize(image) - 1 :
      Cardinality({i \in DOMAIN image : /\ image[i].offset <= at
                                        /\ at < image[i].offset + image[i].size}) = 1

\* The order chunks are given in does not matter as long as they bring their
\* own labels: the same layout and content has the same identity, or is
\* refused, both ways round.
OrderDoesNotMatter ==
  (\A i \in DOMAIN draft : draft[i].label # None) =>
    LET forth == NormalizeDeclaration(draft)
        back == NormalizeDeclaration(Reverse(draft))
    IN  /\ (forth = None) = (back = None)
        /\ forth # None => IdentityReceipt(forth) = IdentityReceipt(back)

\* A declaration may be accepted with bytes that are not those of its hash,
\* but no snapshot of it is: what is exported is brought in order again, under
\* the hash it goes by.
SnapshotsAreHonest ==
  snapshot # None =>
    \A i \in DOMAIN snapshot.files.chunks :
      LET chunk == snapshot.files.chunks[i]
      IN  chunk.bytes # None => chunk.contentHash = chunk.bytes

\* "Imported back deterministically": what is exported can be imported, and is
\* the image that was declared, under the identity it had before.
SnapshotsComeBack ==
  snapshot # None => /\ ImportSnapshot(snapshot) = image
                     /\ snapshot.manifest.identity = IdentityReceipt(NormalizeDeclaration(draft))

\* An image is laid out without gap or overlap, whoever lists its chunks in
\* whatever order, and survives a snapshot as it was declared.
ImagesComeBack ==
  EveryByteHasOneChunk /\ OrderDoesNotMatter /\ SnapshotsAreHonest /\ SnapshotsComeBack

\* "Changed byte -> changed affected chunk receipt, changed index receipt"
\* (docs/PHASE-90), and no other chunk's.
DamageIsLocated ==
  [][(Len(raw') = Len(raw) /\ raw' # raw) =>
       /\ IndexReceipt(raw') # IndexReceipt(raw)
       /\ \A k \in DOMAIN ChunkIndex(raw) :
            ChunkIndex(raw')[k] # ChunkIndex(raw)[k]
              <=> \E i \in DOMAIN raw : raw'[i] # raw[i] /\ (i - 1) \div BlockSize = k - 1]_raw
=============================================================================
