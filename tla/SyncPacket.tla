----------------------------- MODULE SyncPacket -----------------------------
(***************************************************************************)
(* The sync packet court (sync_packet.js): what a packet is, when it is    *)
(* valid, and what applying it does to a peer's sync state.                *)
(*                                                                         *)
(* receipt_hash is a hash of all other fields.  It is taken as injective:  *)
(* "intact" says whether the carried hash is the one the fields have, and  *)
(* two intact packets have the same hash when they are the same packet.    *)
(***************************************************************************)
EXTENDS EditLog

PacketKinds == {"EDIT_LOG_SEGMENT", "MERGE_LOG_SEGMENT", "CONFLICT_RECORD",
                "BASE_RECEIPT", "ACK_RECEIPT", "REQUEST_MISSING_SEGMENT"}

Packet == [kind : PacketKinds \cup {"unknown"}, base : Nat,
           source : Peers, target : Peers, sequence : Nat,
           events : Seq(Event), conflicts : Seq(Event), intact : BOOLEAN]

CreatePacket(kind, base, source, target, sequence, events, conflicts) ==
  [kind |-> kind, base |-> base, source |-> source, target |-> target,
   sequence |-> sequence, events |-> events, conflicts |-> conflicts,
   intact |-> TRUE]

\* A packet damaged in transit: its fields no longer have the hash it carries.
Damaged(p) ==
  [CreatePacket(p.kind, p.base, p.source, p.target, p.sequence,
                p.events, p.conflicts) EXCEPT !.intact = FALSE]

\* Faults: the hash of a packet, or its base, is not looked at.
PacketErrorNoHash(p, expectedBase) ==
  IF p.kind \notin PacketKinds THEN "unknown-packet-kind"
  ELSE IF p.base # expectedBase THEN "base-receipt-mismatch"
  ELSE IF p.sequence = 0        THEN "invalid-sequence"
  ELSE "none"
PacketErrorNoBase(p, expectedBase) ==
  IF p.kind \notin PacketKinds THEN "unknown-packet-kind"
  ELSE IF p.sequence = 0        THEN "invalid-sequence"
  ELSE IF ~p.intact             THEN "invalid-receipt-hash"
  ELSE "none"

\* The first objection to a packet, in the order the code raises them.
PacketError(p, expectedBase) ==
  IF p.kind \notin PacketKinds THEN "unknown-packet-kind"
  ELSE IF p.base = 0            THEN "invalid-base-receipt"
  ELSE IF p.base # expectedBase THEN "base-receipt-mismatch"
  ELSE IF p.sequence = 0        THEN "invalid-sequence"
  ELSE IF ~p.intact             THEN "invalid-receipt-hash"
  ELSE "none"

ValidPacket(p, expectedBase) == PacketError(p, expectedBase) = "none"

----------------------------------------------------------------------------
(* Importing the events of a packet *)

\* seqMap takes the sequence number of an event at the sender to the number
\* its import has here; it and proposals are local to one packet.
ImportStart(log) == [log |-> log, seqMap |-> <<>>, proposals |-> {}]

Mapped(acc, s) == s \in DOMAIN acc.seqMap

\* The accumulator once event e has been imported by appending to the log.
Imported(acc, e, log) ==
  [acc EXCEPT !.log = log,
              !.seqMap = [s \in DOMAIN @ \cup {e.seq} |->
                            IF s = e.seq THEN Len(log) ELSE @[s]]]

ClonedCommit(e, source) ==
  [e EXCEPT !.from = IF e.from # NoPeer THEN e.from ELSE source,
            !.originalSeq = IF e.originalSeq # 0 THEN e.originalSeq ELSE e.seq]

\* Fault: undo and redo are swapped on import.
ImportEventSwapped(acc, e, source) ==
  CASE e.type = "proposal" ->
         [Imported(acc, e, AppendProposal(acc.log, e.key, e.text))
            EXCEPT !.proposals = @ \cup {e.seq}]
    [] e.type = "commit" ->
         Imported(acc, e, AppendImportedCommit(acc.log, ClonedCommit(e, source)))
    [] e.type = "undo" /\ Mapped(acc, e.commitSeq) ->
         Imported(acc, e, AppendRedo(acc.log, acc.seqMap[e.commitSeq]))
    [] e.type = "redo" /\ Mapped(acc, e.commitSeq) ->
         Imported(acc, e, AppendUndo(acc.log, acc.seqMap[e.commitSeq]))
    [] OTHER -> acc

ImportEvent(acc, e, source) ==
  CASE e.type = "proposal" ->
         [Imported(acc, e, AppendProposal(acc.log, e.key, e.text))
            EXCEPT !.proposals = @ \cup {e.seq}]
    [] e.type = "commit" ->
         Imported(acc, e,
           IF e.proposalSeq \in acc.proposals
           THEN CommitProposal(acc.log, acc.seqMap[e.proposalSeq])
           ELSE AppendImportedCommit(acc.log, ClonedCommit(e, source)))
    [] e.type = "undo" /\ Mapped(acc, e.commitSeq) ->
         Imported(acc, e, AppendUndo(acc.log, acc.seqMap[e.commitSeq]))
    [] e.type = "redo" /\ Mapped(acc, e.commitSeq) ->
         Imported(acc, e, AppendRedo(acc.log, acc.seqMap[e.commitSeq]))
    [] OTHER -> acc

ImportConflict(log, e) == AppendConflict(log, e.key, e.left, e.right)

ImportPacketEvents(log, p) ==
  FoldLeft(ImportConflict,
           FoldLeft(LAMBDA acc, e : ImportEvent(acc, e, p.source),
                    ImportStart(log), p.events).log,
           p.conflicts)

----------------------------------------------------------------------------
(* A peer's sync state: the base it accepts, its own name, the log it has  *)
(* imported, the packets it has applied and the sequence it applies next.  *)
(* seen_receipts and seen_lookup hold the same receipts; seen stands for   *)
(* both.                                                                   *)

\* Fault: sequences are counted from 0.
CreateSyncStateFromZero(base, local) ==
  [base |-> base, local |-> local, imported |-> <<>>, seen |-> <<>>, next |-> 0]

CreateSyncState(base, local) ==
  [base |-> base, local |-> local, imported |-> <<>>, seen |-> <<>>, next |-> 1]

Seen(state, p) == p \in ToSet(state.seen)

RequestMissingSegment(state, p) ==
  CreatePacket("REQUEST_MISSING_SEGMENT", state.base, state.local, p.source,
               state.next, <<>>, <<>>)

\* Faults: the sequence is looked at first, or not at all.
ApplyStatusGapFirst(state, p) ==
  IF ~ValidPacket(p, state.base)  THEN "rejected"
  ELSE IF p.sequence # state.next THEN "missing-sequence"
  ELSE IF Seen(state, p)          THEN "duplicate"
  ELSE "applied"
ApplyStatusAnyOrder(state, p) ==
  IF ~ValidPacket(p, state.base) THEN "rejected"
  ELSE IF Seen(state, p)         THEN "duplicate"
  ELSE "applied"

ApplyStatus(state, p) ==
  IF ~ValidPacket(p, state.base)  THEN "rejected"
  ELSE IF Seen(state, p)          THEN "duplicate"
  ELSE IF p.sequence # state.next THEN "missing-sequence"
  ELSE "applied"

\* Fault: the events of an early packet are imported before the gap is noticed.
ApplyPacketEagerly(state, p) ==
  IF ApplyStatus(state, p) = "applied"
  THEN [state EXCEPT !.imported = ImportPacketEvents(@, p),
                     !.seen = Append(@, p),
                     !.next = @ + 1]
  ELSE IF ApplyStatus(state, p) = "missing-sequence"
  THEN [state EXCEPT !.imported = ImportPacketEvents(@, p)]
  ELSE state

ApplyPacket(state, p) ==
  IF ApplyStatus(state, p) = "applied"
  THEN [state EXCEPT !.imported = ImportPacketEvents(@, p),
                     !.seen = Append(@, p),
                     !.next = @ + 1]
  ELSE state
=============================================================================
