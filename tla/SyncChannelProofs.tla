-------------------------- MODULE SyncChannelProofs --------------------------
(***************************************************************************)
(* Proofs about SyncChannel, for any set of senders, any bases and any     *)
(* bounds: packets are applied in order and exactly once, the channel      *)
(* implements OrderedDelivery, the imported log is what the applied        *)
(* packets make of an empty one and only grows, requests name the gap, and *)
(* the imported log of a single sender replays as the sender's own.        *)
(***************************************************************************)
EXTENDS SyncChannel, EditLogProofs

\* The folds that import a packet: over its events, for packets of a source,
\* over its conflicts, and over the packets that were applied.
Events == INSTANCE FoldTheorems
            WITH Step <- LAMBDA source, acc, e : ImportEvent(acc, e, source)
ConflictEvents == INSTANCE FoldTheorems
                    WITH Step <- LAMBDA c, log, e : ImportConflict(log, e)
Applied == INSTANCE FoldTheorems
             WITH Step <- LAMBDA c, log, p : ImportPacketEvents(log, p)

\* Types of the state, and which fields the sync state has.
ChannelTypeOK ==
  /\ TypeOK
  /\ DOMAIN sync = {"base", "local", "imported", "seen", "next"}

\* Senders number their packets 1, 2, 3, ...
SentNumbered ==
  \A s \in Senders : \A i \in DOMAIN sent[s] :
     /\ sent[s][i].sequence = i
     /\ sent[s][i].base = BaseOf[s]

\* A packet that passes for genuine is one a sender made.
Genuine(p) == p.intact => \E s \in Senders : \E i \in DOMAIN sent[s] :
  p = sent[s][i]

NothingForged ==
  /\ \A p \in carrier : Genuine(p)
  /\ \A i \in DOMAIN inbox : Genuine(inbox[i])

IInv == /\ ChannelTypeOK /\ SentNumbered /\ NothingForged
        /\ DeliveredInOrder /\ ImportedFromSeen

\* What every step does to the two lists OrderedDelivery is about.
PublishStep == \E s \in Senders :
  /\ Len(sent'[s]) = Len(sent[s]) + 1
  /\ sent' = [sent EXCEPT ![s] = Append(@, sent'[s][Len(@) + 1])]
  /\ sync' = sync

DeliverStep == \E s \in Senders :
  /\ Len(sync.seen) < Len(sent[s])
  /\ sync'.seen = Append(sync.seen, sent[s][Len(sync.seen) + 1])
  /\ sync'.imported \in Longer(sync.imported)
  /\ sent' = sent

----------------------------------------------------------------------------
(* Lemmas about the operators *)

\* A damaged packet is a packet that is not intact.
LEMMA DamagedIsPacket ==
  ASSUME NEW p \in Packet
  PROVE  Damaged(p) \in Packet /\ Damaged(p).intact = FALSE
  BY DEF Damaged, CreatePacket, Packet

\* What the events of a packet make of a log: a longer one, with the places
\* of what was imported and the proposals met.
Imports(log) == [log : Longer(log), seqMap :
  UNION {[D -> Nat] : D \in SUBSET Nat},
                 proposals : SUBSET Nat]

\* What importing one event makes of an import.
LEMMA ImportedTyped ==
  ASSUME NEW log \in Seq(Event), NEW acc \in Imports(log), NEW e \in Event,
         NEW longer \in Longer(acc.log)
  PROVE  /\ Imported(acc, e, longer) \in Imports(log)
         /\ [Imported(acc, e, longer) EXCEPT !.proposals = @ \cup {e.seq}]
              \in Imports(log)
<1>1. longer \in Longer(log) /\ Len(longer) \in Nat /\ e.seq \in Nat
  <2>1. acc.log \in Longer(log)  BY DEF Imports
  <2>2. longer \in Longer(log)  BY <2>1, LongerFacts
  <2> QED BY <2>2 DEF Longer, Event
<1>2. PICK D \in SUBSET Nat : acc.seqMap \in [D -> Nat]  BY DEF Imports
<1> DEFINE map == [s \in DOMAIN acc.seqMap \cup {e.seq} |->
                     IF s = e.seq THEN Len(longer) ELSE acc.seqMap[s]]
<1>3. map \in [D \cup {e.seq} -> Nat] /\ D \cup {e.seq} \in SUBSET Nat
  BY <1>1, <1>2
<1>4. map \in UNION {[C -> Nat] : C \in SUBSET Nat}
  <2> HIDE DEF map
  <2> QED BY <1>3
<1>5. acc.proposals \cup {e.seq} \in SUBSET Nat  BY <1>1 DEF Imports
<1>6. Imported(acc, e, longer)
        = [acc EXCEPT !.log = longer, !.seqMap = map]
  BY DEF Imported
<1> HIDE DEF map
<1> QED BY <1>1, <1>4, <1>5, <1>6 DEF Imports

\* Importing one event of a packet lengthens the log it imports to.
LEMMA ImportEventTyped ==
  ASSUME NEW log \in Seq(Event), NEW acc \in Imports(log), NEW e \in Event,
         NEW source \in Peers
  PROVE  ImportEvent(acc, e, source) \in Imports(log)
<1>1. acc.log \in Seq(Event)  BY DEF Imports, Longer
<1>2. ASSUME NEW s \in Nat, Mapped(acc, s)  PROVE acc.seqMap[s] \in Nat
  <2>1. PICK D \in SUBSET Nat : acc.seqMap \in [D -> Nat]  BY DEF Imports
  <2> QED BY <1>2, <2>1 DEF Mapped
<1>3. CASE e.type = "proposal"
  <2>1. AppendProposal(acc.log, e.key, e.text) \in Longer(acc.log)
    <3>1. [Blank("proposal") EXCEPT !.key = e.key, !.text = e.text] \in Event
      BY BlankTyped DEF EventTypes, Event
    <3> QED BY <1>1, <3>1, AppendEventTyped DEF AppendProposal
  <2>2. [Imported(acc, e, AppendProposal(acc.log, e.key, e.text))
           EXCEPT !.proposals = @ \cup {e.seq}] \in Imports(log)
    BY <2>1, ImportedTyped
  <2> QED BY <1>3, <2>2 DEF ImportEvent
<1>4. CASE e.type = "commit"
  <2> DEFINE longer == IF e.proposalSeq \in acc.proposals
                       THEN CommitProposal(acc.log, acc.seqMap[e.proposalSeq])
                       ELSE AppendImportedCommit(acc.log,
                         ClonedCommit(e, source))
  <2>1. ClonedCommit(e, source) \in Event
    <3>1. /\ (IF e.from # NoPeer THEN e.from ELSE source) \in Peers
               \cup {NoPeer}
          /\ (IF e.originalSeq # 0 THEN e.originalSeq ELSE e.seq) \in Nat
      BY DEF Event
    <3> QED BY <3>1 DEF ClonedCommit, Event
  <2>2. AppendImportedCommit(acc.log,
          ClonedCommit(e, source)) \in Longer(acc.log)
    BY <1>1, <2>1, ImportsTyped
  <2>3. CommitProposal(acc.log, acc.seqMap[e.proposalSeq]) \in Longer(acc.log)
    <3> DEFINE s == acc.seqMap[e.proposalSeq]
    <3>1. HasProposal(acc.log, s) => s \in Nat  BY <1>1 DEF HasProposal
    <3>2. CASE s \in Nat
      BY <1>1, <3>2, EditsTyped
    <3>3. CASE ~HasProposal(acc.log, s)
      BY <1>1, <3>3, LongerFacts DEF CommitProposal
    <3> QED BY <3>1, <3>2, <3>3
  <2>4. longer \in Longer(acc.log)  BY <2>2, <2>3
  <2>5. ImportEvent(acc, e, source) = Imported(acc, e, longer)
    BY <1>4 DEF ImportEvent
  <2> HIDE DEF longer
  <2> QED BY <2>4, <2>5, ImportedTyped
<1>5. CASE e.type \notin {"proposal", "commit"}
  <2>1. e.commitSeq \in Nat  BY DEF Event
  <2>2. ASSUME Mapped(acc, e.commitSeq)
        PROVE  /\ Imported(acc, e, AppendUndo(acc.log, acc.seqMap[e.commitSeq]))
                    \in Imports(log)
               /\ Imported(acc, e, AppendRedo(acc.log, acc.seqMap[e.commitSeq]))
                    \in Imports(log)
    <3>1. acc.seqMap[e.commitSeq] \in Nat  BY <1>2, <2>1, <2>2
    <3>2. /\ AppendUndo(acc.log, acc.seqMap[e.commitSeq]) \in Longer(acc.log)
          /\ AppendRedo(acc.log, acc.seqMap[e.commitSeq]) \in Longer(acc.log)
      BY <1>1, <3>1, EditsTyped
    <3> QED BY <3>2, ImportedTyped
  <2> QED BY <1>5, <2>2 DEF ImportEvent
<1> QED BY <1>3, <1>4, <1>5

\* Importing a packet only adds events to the log.
LEMMA ImportTyped ==
  ASSUME NEW log \in Seq(Event), NEW p \in Packet
  PROVE  ImportPacketEvents(log, p) \in Longer(log)
<1> DEFINE acc == FoldLeft(LAMBDA a, e : ImportEvent(a, e, p.source),
                           ImportStart(log), p.events)
<1>1. p.events \in Seq(Event) /\ p.conflicts \in Seq(Event)
        /\ p.source \in Peers
  BY DEF Packet
<1>2. acc \in Imports(log)
  <2>1. ImportStart(log) \in Imports(log)
    <3>1. <<>> \in [{} -> Nat] /\ {} \in SUBSET Nat  OBVIOUS
    <3>2. <<>> \in UNION {[D -> Nat] : D \in SUBSET Nat}  BY <3>1
    <3> QED BY <3>2, LongerFacts DEF ImportStart, Imports
  <2>2. \A a \in Imports(log), e \in Event :
          ImportEvent(a, e, p.source) \in Imports(log)
    BY <1>1, ImportEventTyped
  <2>3. Events!Fold(p.source, ImportStart(log), p.events) \in Imports(log)
    BY <1>1, <2>1, <2>2, Events!FoldKeeps
  <2>4. acc = Events!Fold(p.source, ImportStart(log), p.events)
    BY DEF Events!Fold, FoldLeft, MapThenFoldSet, Events!FoldLeft,
           Events!MapThenFoldSet, Max, Events!Max
  <2> QED BY <2>3, <2>4
<1>3. acc.log \in Longer(log) /\ acc.log \in Seq(Event)
  BY <1>2 DEF Imports, Longer
<1> HIDE DEF acc
<1>4. FoldLeft(ImportConflict, acc.log, p.conflicts) \in Longer(acc.log)
  <2>1. \A l \in Longer(acc.log), e \in Event :
          ImportConflict(l, e) \in Longer(acc.log)
    <3> SUFFICES ASSUME NEW l \in Longer(acc.log), NEW e \in Event
                 PROVE  ImportConflict(l, e) \in Longer(acc.log)
      OBVIOUS
    <3>1. e.key \in Keys \cup {NoKey} /\ e.left \in Side /\ e.right \in Side
      BY DEF Event
    <3>2. l \in Seq(Event)  BY DEF Longer
    <3>3. ImportConflict(l, e) \in Longer(l)
      BY <3>1, <3>2, ImportsTyped DEF ImportConflict
    <3> QED BY <1>3, <3>3, LongerFacts
  <2>2. ConflictEvents!Fold({}, acc.log, p.conflicts) \in Longer(acc.log)
    BY <1>1, <1>3, <2>1, LongerFacts, ConflictEvents!FoldKeeps
  <2>3. FoldLeft(ImportConflict, acc.log, p.conflicts)
          = ConflictEvents!Fold({}, acc.log, p.conflicts)
    BY DEF ConflictEvents!Fold, FoldLeft, MapThenFoldSet,
           ConflictEvents!FoldLeft,
           ConflictEvents!MapThenFoldSet, Max, ConflictEvents!Max
  <2> QED BY <2>2, <2>3
<1>5. ImportPacketEvents(log, p)
        = FoldLeft(ImportConflict, acc.log, p.conflicts)
  BY DEF ImportPacketEvents, acc
<1> QED BY <1>3, <1>4, <1>5, LongerFacts

\* What the applied packets make of an empty log, one packet at a time.
FromSeen(seen) == FoldLeft(ImportPacketEvents, <<>>, seen)

\* What the packets seen make of an empty log, packet by packet.
LEMMA FromSeenGrows ==
  /\ FromSeen(<<>>) = <<>>
  /\ \A seen \in Seq(Packet), p \in Packet :
       FromSeen(Append(seen, p)) = ImportPacketEvents(FromSeen(seen), p)
<1>1. \A seen : FromSeen(seen) = Applied!Fold({}, <<>>, seen)
  BY DEF FromSeen, Applied!Fold, FoldLeft, MapThenFoldSet, Applied!FoldLeft,
         Applied!MapThenFoldSet, Max, Applied!Max
<1>2. Applied!Fold({}, <<>>, <<>>) = <<>>  BY Applied!FoldEmpty
<1>3. ASSUME NEW seen \in Seq(Packet), NEW p \in Packet
      PROVE  Applied!Fold({}, <<>>, Append(seen, p))
               = ImportPacketEvents(Applied!Fold({}, <<>>, seen), p)
  BY Applied!FoldAppend
<1> QED BY <1>1, <1>2, <1>3

\* An applied packet is valid, and is the one whose turn it is.
LEMMA AppliedIsNext ==
  ASSUME NEW p, ApplyStatus(sync, p) = "applied"
  PROVE  /\ p.intact
         /\ p.base = sync.base
         /\ p.sequence = sync.next
  BY DEF ApplyStatus, ValidPacket, PacketError

\* A packet that does not apply changes nothing.
LEMMA NotApplied ==
  ASSUME NEW p, ApplyStatus(sync, p) # "applied"
  PROVE  ApplyPacket(sync, p) = sync
  BY DEF ApplyPacket

----------------------------------------------------------------------------
(* The invariant holds in the initial states *)

\* The invariant holds at first.
LEMMA InitIInv == Init => IInv
<1> SUFFICES ASSUME Init PROVE IInv
  OBVIOUS
<1>1. ChannelTypeOK
  BY PeersAssumption, BaseAssumption, LogsAssumption
     DEF Init, ChannelTypeOK, TypeOK, PacketsTyped, CreateSyncState
<1>2. SentNumbered
  BY DEF Init, SentNumbered
<1>3. NothingForged
  BY DEF Init, NothingForged
<1>4. DeliveredInOrder
  BY DEF Init, DeliveredInOrder, CreateSyncState
<1>5. ImportedFromSeen
  BY FromSeenGrows DEF Init, ImportedFromSeen, CreateSyncState, FromSeen
<1> QED BY <1>1, <1>2, <1>3, <1>4, <1>5 DEF IInv

----------------------------------------------------------------------------
(* The invariant is kept by every action *)

\* Editing changes nothing but the editor's log.
LEMMA EditKeeps ==
  ASSUME IInv, NEW s \in Senders, NEW log \in Seq(Event), EditTo(s, log)
  PROVE  IInv'
<1>1. ChannelTypeOK'
  BY DEF IInv, ChannelTypeOK, TypeOK, PacketsTyped, EditTo
<1>2. UNCHANGED <<sent, carrier, inbox, sync>>
  BY DEF EditTo
<1> QED BY <1>1, <1>2
      DEF IInv, SentNumbered, NothingForged, Genuine, DeliveredInOrder,
           ImportedFromSeen

\* Making a packet adds one to the sender's list and puts it on a carrier.
LEMMA PackKeeps ==
  ASSUME IInv, NEW s \in Senders, NEW p \in Packet,
         p.sequence = Len(sent[s]) + 1, p.base = BaseOf[s],
         sent' = [sent EXCEPT ![s] = Append(@, p)],
         carrier' = carrier \cup {p},
         cut' \in [Senders -> Nat],
         UNCHANGED <<logs, inbox, sync>>
  PROVE  IInv' /\ PublishStep
<1>1. ChannelTypeOK'
  <2>1. /\ sent' \in [Senders -> Seq(Packet)]
        /\ carrier' \subseteq Packet
    BY DEF IInv, ChannelTypeOK, TypeOK, PacketsTyped
  <2> QED BY <2>1 DEF IInv, ChannelTypeOK, TypeOK, PacketsTyped
<1>2. /\ \A t \in Senders : sent[t] \in Seq(Packet) /\ sent'[t] \in Seq(Packet)
      /\ \A t \in Senders : t # s => sent'[t] = sent[t]
      /\ sent'[s] = Append(sent[s], p)
  BY DEF IInv, ChannelTypeOK, TypeOK, PacketsTyped
<1>3. \A t \in Senders : \A i \in DOMAIN sent[t] :
         i \in DOMAIN sent'[t] /\ sent'[t][i] = sent[t][i]
  BY <1>2
<1>4. /\ Len(sent[s]) + 1 \in DOMAIN sent'[s]
      /\ sent'[s][Len(sent[s]) + 1] = p
      /\ Len(sent'[s]) = Len(sent[s]) + 1
  BY <1>2
<1>5. SentNumbered'
  <2> SUFFICES ASSUME NEW t \in Senders, NEW i \in DOMAIN sent'[t]
               PROVE  sent'[t][i].sequence = i /\ sent'[t][i].base = BaseOf[t]
    BY DEF SentNumbered
  <2>1. CASE i \in DOMAIN sent[t]
    BY <2>1, <1>3 DEF IInv, SentNumbered
  <2>2. CASE i \notin DOMAIN sent[t]
    <3>1. t = s /\ i = Len(sent[s]) + 1
      BY <2>2, <1>2
    <3> QED BY <3>1, <1>4
  <2> QED BY <2>1, <2>2
<1>6. ASSUME NEW q, Genuine(q) PROVE Genuine(q)'
  <2> SUFFICES ASSUME q.intact
               PROVE  \E t \in Senders : \E i \in DOMAIN sent'[t] :
                        q = sent'[t][i]
    BY DEF Genuine
  <2>1. PICK t \in Senders : \E i \in DOMAIN sent[t] : q = sent[t][i]
    BY <1>6 DEF Genuine
  <2>2. PICK i \in DOMAIN sent[t] : q = sent[t][i]
    BY <2>1
  <2>3. i \in DOMAIN sent'[t] /\ q = sent'[t][i]
    BY <2>2, <1>3
  <2> QED BY <2>3
<1>7. Genuine(p)'
  BY <1>4 DEF Genuine
<1>8. NothingForged'
  BY <1>6, <1>7 DEF IInv, NothingForged
<1>9. DeliveredInOrder'
  <2>1. DeliveredInOrder
    BY DEF IInv
  <2> QED BY <2>1, <1>3 DEF DeliveredInOrder
<1>10. ImportedFromSeen'
  BY DEF IInv, ImportedFromSeen
<1>11. PublishStep
  <2>1. sent' = [sent EXCEPT ![s] = Append(@, sent'[s][Len(@) + 1])]
    BY <1>4
  <2> QED BY <2>1, <1>4 DEF PublishStep
<1> QED BY <1>1, <1>5, <1>8, <1>9, <1>10, <1>11 DEF IInv

\* What carriers do to packets forges none.
LEMMA CarrierKeeps ==
  ASSUME IInv, carrier' \subseteq Packet,
         \A p \in carrier' : Genuine(p),
         UNCHANGED <<logs, cut, sent, inbox, sync>>
  PROVE  IInv'
BY DEF IInv, ChannelTypeOK, TypeOK, PacketsTyped, SentNumbered, NothingForged,
       Genuine, DeliveredInOrder,
           ImportedFromSeen

\* Applying a genuine packet leaves the state alone or fills the next slot.
LEMMA ApplyKeeps ==
  ASSUME IInv, NEW p \in Packet, Genuine(p), Apply(p),
         UNCHANGED <<logs, cut, sent, carrier>>,
         inbox' \in Seq(Packet),
         \A i \in DOMAIN inbox' : Genuine(inbox'[i])
  PROVE  IInv' /\ (DeliverStep \/ sync' = sync)
<1>1. CASE ApplyStatus(sync, p) # "applied"
  <2>1. sync' = sync
    BY <1>1, NotApplied DEF Apply
  <2> QED BY <2>1
        DEF IInv, ChannelTypeOK, TypeOK, PacketsTyped, SentNumbered,
            NothingForged, Genuine,
                      DeliveredInOrder, ImportedFromSeen
<1>2. CASE ApplyStatus(sync, p) = "applied"
  <2> DEFINE log == ImportPacketEvents(sync.imported, p)
  <2>1. /\ sync'.seen = Append(sync.seen, p)
        /\ sync'.next = sync.next + 1
        /\ DOMAIN sync' = DOMAIN sync
        /\ sync'.base = sync.base /\ sync'.local = sync.local
        /\ sync'.imported = log
    <3>1. sync' = [sync EXCEPT !.imported = log, !.seen = Append(@, p),
            !.next = @ + 1]
      BY <1>2 DEF Apply, ApplyPacket
    <3>2. DOMAIN sync = {"base", "local", "imported", "seen", "next"}
      BY DEF IInv, ChannelTypeOK, TypeOK, PacketsTyped
    <3> HIDE DEF log
    <3> QED BY <3>1, <3>2
  <2>10. log \in Longer(sync.imported) /\ log \in Seq(Event)
    <3>1. sync.imported \in Seq(Event)
      BY DEF IInv, ChannelTypeOK, TypeOK
    <3>2. log \in Longer(sync.imported)
      BY <3>1, ImportTyped
    <3> QED BY <3>2 DEF Longer
  <2>11. ImportedFromSeen'
    <3>1. sync.seen \in Seq(Packet) /\ sync.imported = FromSeen(sync.seen)
      BY DEF IInv, ChannelTypeOK, TypeOK, PacketsTyped, ImportedFromSeen,
             FromSeen
    <3>2. FromSeen(sync'.seen) = log
      BY <2>1, <3>1, FromSeenGrows
    <3> HIDE DEF log
    <3> QED BY <2>1, <3>2 DEF ImportedFromSeen, FromSeen
  <2> HIDE DEF log
  <2>2. PICK s \in Senders : \E i \in DOMAIN sent[s] : p = sent[s][i]
    BY <1>2, AppliedIsNext DEF Genuine
  <2>3. PICK i \in DOMAIN sent[s] : p = sent[s][i]
    BY <2>2
  <2>4. /\ p.sequence = i /\ p.base = BaseOf[s]
        /\ sent[s] \in Seq(Packet) /\ sync.seen \in Seq(Packet)
    <3>1. p.sequence = i /\ p.base = BaseOf[s]  BY <2>3 DEF IInv, SentNumbered
    <3>2. sent[s] \in Seq(Packet) /\ sync.seen \in Seq(Packet)
      BY DEF IInv, ChannelTypeOK, TypeOK, PacketsTyped
    <3> QED BY <3>1, <3>2
  <2>5. i = Len(sync.seen) + 1 /\ BaseOf[s] = Base
    <3>1. p.base = sync.base /\ p.sequence = sync.next  BY <1>2, AppliedIsNext
    <3>2. sync.next = Len(sync.seen) + 1  BY DEF IInv, DeliveredInOrder
    <3>3. sync.base = Base
      BY DEF IInv, ChannelTypeOK, TypeOK, PacketsTyped
    <3> QED BY <2>4, <3>1, <3>2, <3>3
  <2>6. DeliverStep
    <3>1. Len(sync.seen) < Len(sent[s])
      BY <2>3, <2>4, <2>5
    <3> QED BY <3>1, <2>1, <2>3, <2>5, <2>10 DEF DeliverStep
  <2>7. ChannelTypeOK'
    BY <2>1, <2>10 DEF IInv, ChannelTypeOK, TypeOK, PacketsTyped
  <2>8. DeliveredInOrder'
    <3>1. sync'.next = Len(sync'.seen) + 1
      BY <2>1, <2>4 DEF IInv, DeliveredInOrder
    <3>2. ASSUME NEW n \in DOMAIN sync'.seen
          PROVE  \E t \in Senders : /\ BaseOf[t] = Base
                                    /\ n \in DOMAIN sent'[t]
                                    /\ sync'.seen[n] = sent'[t][n]
      <4>1. CASE n \in DOMAIN sync.seen
        <5>1. sync'.seen[n] = sync.seen[n]
          BY <4>1, <2>1, <2>4
        <5> QED BY <4>1, <5>1 DEF IInv, DeliveredInOrder
      <4>2. CASE n \notin DOMAIN sync.seen
        <5>1. n = i /\ sync'.seen[n] = p
          BY <4>2, <2>1, <2>4, <2>5
        <5> QED BY <5>1, <2>3, <2>5
      <4> QED BY <4>1, <4>2
    <3> QED BY <3>1, <3>2 DEF DeliveredInOrder
  <2>9. SentNumbered' /\ NothingForged'
    BY DEF IInv, SentNumbered, NothingForged, Genuine
  <2> QED BY <2>6, <2>7, <2>8, <2>9, <2>11 DEF IInv
<1> QED BY <1>1, <1>2

\* A segment makes a packet that carries the sender's next number.
LEMMA SegmentIsPacket ==
  ASSUME IInv, NEW s \in Senders, NEW segment \in Seq(Event)
  PROVE  /\ SegmentPacket(s, segment) \in Packet
         /\ SegmentPacket(s, segment).sequence = Len(sent[s]) + 1
         /\ SegmentPacket(s, segment).base = BaseOf[s]
<1> DEFINE kind == IF Conflicts(segment) = <<>> THEN "EDIT_LOG_SEGMENT"
                                                 ELSE "MERGE_LOG_SEGMENT"
<1>1. LogEvents(segment) \in Seq(Event) /\ Conflicts(segment) \in Seq(Event)
  BY SubsequenceHolds DEF LogEvents, Conflicts
<1>2. kind \in PacketKinds \cup {"unknown"}
  BY DEF PacketKinds
<1>3. Len(sent[s]) + 1 \in Nat
  BY DEF IInv, ChannelTypeOK, TypeOK, PacketsTyped
<1>4. BaseOf[s] \in Nat /\ s \in Peers /\ Local \in Peers
  BY BaseAssumption, PeersAssumption
<1>5. SegmentPacket(s, segment)
        = CreatePacket(kind, BaseOf[s], s, Local, Len(sent[s]) + 1,
                       LogEvents(segment), Conflicts(segment))
  BY DEF SegmentPacket
<1> HIDE DEF kind
<1>6. /\ SegmentPacket(s, segment) \in Packet
      /\ SegmentPacket(s, segment).sequence = Len(sent[s]) + 1
      /\ SegmentPacket(s, segment).base = BaseOf[s]
  BY <1>1, <1>2, <1>3, <1>4, <1>5 DEF CreatePacket, Packet
<1> QED BY <1>6

\* What a peer does keeps the invariant.
LEMMA PeerKeeps ==
  ASSUME IInv, NEW s \in Senders, Peer(s)
  PROVE  IInv' /\ (PublishStep \/ UNCHANGED <<sent, sync>>)
<1>0. /\ logs[s] \in Seq(Event)
      /\ DOMAIN logs[s] \subseteq Nat
      /\ cut \in [Senders -> Nat] /\ cut[s] \in Nat
      /\ sent[s] \in Seq(Packet)
  BY DEF IInv, ChannelTypeOK, TypeOK, PacketsTyped
<1>1. CASE Propose(s) \/ Commit(s) \/ Undo(s) \/ Redo(s)
  <2>1. PICK log \in Seq(Event) : EditTo(s, log)
    BY <1>0, <1>1, EditsTyped DEF Propose, Commit, Undo, Redo, Longer
  <2> QED BY <2>1, EditKeeps DEF EditTo
<1>2. CASE Send(s)
  <2> DEFINE segment == SubSeq(logs[s], cut[s] + 1, Len(logs[s]))
  <2>1. segment \in Seq(Event)
    BY <1>0
  <2>2. [cut EXCEPT ![s] = Len(logs[s])] \in [Senders -> Nat]
    BY <1>0
  <2> QED BY <1>2, <2>1, <2>2, SegmentIsPacket, PackKeeps DEF Send
<1>3. CASE Announce(s)
  <2> DEFINE p == CreatePacket("ACK_RECEIPT", BaseOf[s], s, Local,
                               Len(sent[s]) + 1, <<>>, <<>>)
  <2>1. /\ p \in Packet
        /\ p.sequence = Len(sent[s]) + 1 /\ p.base = BaseOf[s]
    <3>1. Len(sent[s]) + 1 \in Nat /\ "ACK_RECEIPT" \in PacketKinds
      BY <1>0 DEF PacketKinds
    <3>2. BaseOf[s] \in Nat /\ s \in Peers /\ Local \in Peers
      BY BaseAssumption, PeersAssumption
    <3> QED BY <3>1, <3>2 DEF CreatePacket, Packet
  <2> HIDE DEF p
  <2>2. /\ sent' = [sent EXCEPT ![s] = Append(@, p)]
        /\ carrier' = carrier \cup {p}
        /\ UNCHANGED <<logs, cut, inbox, sync>>
    BY <1>3 DEF Announce, p
  <2> QED BY <1>0, <2>1, <2>2, PackKeeps
<1>4. ASSUME NEW i \in DOMAIN sent[s], Resend(s, i)
      PROVE  IInv' /\ UNCHANGED <<sent, sync>>
  <2>1. sent[s][i] \in Packet /\ Genuine(sent[s][i])
    BY <1>0 DEF Genuine
  <2>2. /\ carrier' = carrier \cup {sent[s][i]}
        /\ UNCHANGED <<logs, cut, sent, inbox, sync>>
    BY <1>4 DEF Resend, senderVars
  <2>3. carrier' \subseteq Packet /\ \A p \in carrier' : Genuine(p)
    BY <2>1, <2>2 DEF IInv, ChannelTypeOK, TypeOK, PacketsTyped, NothingForged
  <2> QED BY <2>2, <2>3, CarrierKeeps
<1> QED BY <1>1, <1>2, <1>3, <1>4 DEF Peer

\* What the carrier does keeps the invariant.
LEMMA CarrierActionKeeps ==
  ASSUME IInv, NEW p \in carrier, Lose(p) \/ Damage(p)
  PROVE  IInv' /\ UNCHANGED <<sent, sync>>
<1>1. p \in Packet /\ carrier \subseteq Packet
  BY DEF IInv, ChannelTypeOK, TypeOK, PacketsTyped
<1>2. UNCHANGED <<logs, cut, sent, inbox, sync>>
  BY DEF Lose, Damage, senderVars
<1>3. carrier' \subseteq carrier \cup {Damaged(p)}
  BY DEF Lose, Damage
<1>4. Genuine(Damaged(p)) /\ Damaged(p) \in Packet
  BY <1>1, DamagedIsPacket DEF Genuine
<1>5. carrier' \subseteq Packet /\ \A q \in carrier' : Genuine(q)
  BY <1>1, <1>3, <1>4 DEF IInv, NothingForged
<1> QED BY <1>2, <1>5, CarrierKeeps

\* Reading a packet, one or out of a bundle.
LEMMA LocalKeeps ==
  ASSUME IInv,
         (\E p \in carrier : Receive(p)) \/ OpenBundle \/ ApplyFromBundle
  PROVE  IInv' /\ (DeliverStep \/ UNCHANGED <<sent, sync>>)
<1>0. /\ carrier \subseteq Packet /\ inbox \in Seq(Packet)
      /\ \A p \in carrier : Genuine(p)
      /\ \A i \in DOMAIN inbox : Genuine(inbox[i])
  BY DEF IInv, ChannelTypeOK, TypeOK, PacketsTyped, NothingForged
<1>1. ASSUME NEW p \in carrier, Receive(p)
      PROVE  IInv' /\ (DeliverStep \/ UNCHANGED <<sent, sync>>)
  <2>1. Apply(p) /\ UNCHANGED <<logs, cut, sent, carrier, inbox>>
    BY <1>1 DEF Receive, ReceivePacket, RejectPacket, senderVars
  <2>2. inbox' \in Seq(Packet) /\ \A i \in DOMAIN inbox' : Genuine(inbox'[i])
    BY <1>0, <2>1
  <2> QED BY <1>0, <2>1, <2>2, ApplyKeeps
<1>2. CASE OpenBundle
  <2>1. PICK p \in carrier, q \in carrier : inbox' = <<p, q>>
    BY <1>2 DEF OpenBundle
  <2>2. UNCHANGED <<logs, cut, sent, carrier, sync>>
    BY <1>2 DEF OpenBundle, senderVars
  <2>3. inbox' \in Seq(Packet) /\ \A i \in DOMAIN inbox' : Genuine(inbox'[i])
    BY <1>0, <2>1
  <2> QED BY <2>2, <2>3
        DEF IInv, ChannelTypeOK, TypeOK, PacketsTyped, SentNumbered,
            NothingForged,
                            Genuine, DeliveredInOrder,
           ImportedFromSeen
<1>3. CASE ApplyFromBundle
  <2>1. /\ inbox # <<>> /\ Apply(Head(inbox)) /\ inbox' = Tail(inbox)
        /\ UNCHANGED <<logs, cut, sent, carrier>>
    BY <1>3 DEF ApplyFromBundle, senderVars
  <2>2. Head(inbox) \in Packet /\ Genuine(Head(inbox))
    BY <1>0, <2>1
  <2>3. inbox' \in Seq(Packet) /\ \A i \in DOMAIN inbox' : Genuine(inbox'[i])
    BY <1>0, <2>1
  <2> QED BY <2>1, <2>2, <2>3, ApplyKeeps
<1> QED BY <1>1, <1>2, <1>3

\* Every step keeps the invariant, and publishes, delivers or does neither.
LEMMA StepKeeps ==
  ASSUME IInv, [Next]_vars
  PROVE  IInv' /\ (PublishStep \/ DeliverStep \/ UNCHANGED <<sent, sync>>)
<1>1. CASE Next
  BY <1>1, PeerKeeps, CarrierActionKeeps, LocalKeeps DEF Next
<1>2. CASE UNCHANGED vars
  BY <1>2 DEF vars, IInv, ChannelTypeOK, TypeOK, PacketsTyped, SentNumbered,
     NothingForged, Genuine,
              DeliveredInOrder, ImportedFromSeen
<1> QED BY <1>1, <1>2

----------------------------------------------------------------------------
(* Theorems *)

\* The inductive invariant: types, numbering, nothing forged, order.
THEOREM Invariance == Spec => []IInv
<1>1. IInv /\ [Next]_vars => IInv'
  BY StepKeeps
<1> QED BY <1>1, InitIInv, PTL DEF Spec

\* Packets are applied exactly once and in order (applyPacket,
\* workbench/src/sync_packet.js), for any number of peers and packets and
\* whatever the carriers do.
THEOREM InOrder == Spec => []DeliveredInOrder
<1>1. IInv => DeliveredInOrder
  BY DEF IInv
<1> QED BY <1>1, Invariance, PTL

\* Types of the whole state, the imported log included.
THEOREM Types == Spec => []TypeOK
<1>1. IInv => TypeOK
  BY DEF IInv, ChannelTypeOK
<1> QED BY <1>1, Invariance, PTL

\* The imported log is what the applied packets alone make of an empty log
\* (importPacketEvents, sync_packet.js): rejected, repeated and early packets
\* leave nothing in it.
THEOREM FromAppliedOnly == Spec => []ImportedFromSeen
<1>1. IInv => ImportedFromSeen
  BY DEF IInv
<1> QED BY <1>1, Invariance, PTL

\* No step takes anything out of the imported log or the list of applied
\* packets, and the log changes only with the list.
THEOREM Growth == Spec => AppendOnly
<1>1. IInv /\ [Next]_vars =>
        [ /\ IsPrefix(sync.imported, sync'.imported)
          /\ IsPrefix(sync.seen, sync'.seen)
          /\ sync.imported # sync'.imported => sync.seen # sync'.seen ]_sync
  <2> SUFFICES ASSUME IInv, [Next]_vars, sync' # sync
               PROVE  /\ IsPrefix(sync.imported, sync'.imported)
                      /\ IsPrefix(sync.seen, sync'.seen)
                      /\ sync.seen # sync'.seen
    OBVIOUS
  <2>1. DeliverStep
    BY StepKeeps DEF PublishStep
  <2>2. sync.seen \in Seq(Packet) /\ sent \in [Senders -> Seq(Packet)]
    BY DEF IInv, ChannelTypeOK, TypeOK, PacketsTyped
  <2>3. PICK p \in Packet : sync'.seen = Append(sync.seen, p)
    BY <2>1, <2>2 DEF DeliverStep
  <2>4. IsPrefix(sync.seen, sync'.seen) /\ sync.seen # sync'.seen
    BY <2>2, <2>3 DEF IsPrefix
  <2>5. IsPrefix(sync.imported, sync'.imported)
    BY <2>1 DEF DeliverStep, Longer
  <2> QED BY <2>4, <2>5
<1> QED BY <1>1, Invariance, PTL DEF Spec, AppendOnly

\* The channel implements ordered delivery: what senders make is published,
\* and every step of the local peer delivers the next packet or nothing.
THEOREM Implementation == Spec => ImplementsDelivery
<1>1. Init => Delivery!Init
  BY DEF Init, Delivery!Init, CreateSyncState
<1>2. IInv /\ [Next]_vars => [Delivery!Next]_(Delivery!vars)
  <2> SUFFICES ASSUME IInv, [Next]_vars
               PROVE  [Delivery!Next]_(Delivery!vars)
    OBVIOUS
  <2>1. CASE PublishStep
    BY <2>1 DEF PublishStep, Delivery!Next, Delivery!Publish
  <2>2. CASE DeliverStep
    BY <2>2 DEF DeliverStep, Delivery!Next, Delivery!Deliver
  <2>3. CASE UNCHANGED <<sent, sync>>
    BY <2>3 DEF Delivery!vars
  <2> QED BY <2>1, <2>2, <2>3, StepKeeps
<1> QED BY <1>1, <1>2, Invariance, PTL
      DEF Spec, ImplementsDelivery, Delivery!Spec

\* Only applyPacket emits requests, and it emits one when it applies nothing.
LEMMA RequestStep ==
  ASSUME [Next]_vars
  PROVE  (\E p : Apply(p)) \/ UNCHANGED <<sync, asked>>
<1>1. ASSUME NEW s \in Senders, Peer(s) PROVE UNCHANGED <<sync, asked>>
  BY <1>1 DEF Peer, Propose, Commit, Undo, Redo, EditTo, Send, Announce, Resend
<1>2. ASSUME NEW p \in carrier, Lose(p)
                   \/ Damage(p) PROVE UNCHANGED <<sync, asked>>
  BY <1>2 DEF Lose, Damage
<1>3. ASSUME NEW p \in carrier, Receive(p) PROVE Apply(p)
  BY <1>3 DEF Receive, ReceivePacket, RejectPacket
<1>4. OpenBundle => UNCHANGED <<sync, asked>>
  BY DEF OpenBundle
<1>5. ApplyFromBundle => Apply(Head(inbox))
  BY DEF ApplyFromBundle
<1>6. CASE UNCHANGED vars
  BY <1>6 DEF vars
<1> QED BY <1>1, <1>2, <1>3, <1>4, <1>5, <1>6 DEF Next

\* A packet is missing its predecessor only if it is not the awaited one, nor
\* seen.
LEMMA MissingIsGap ==
  ASSUME NEW p, ApplyStatus(sync, p) = "missing-sequence"
  PROVE  ~Seen(sync, p) /\ p.sequence # sync.next
  BY DEF ApplyStatus

\* A missing-segment request (requestMissingSegment, sync_packet.js) asks the
\* source of a valid, unseen packet for exactly the awaited sequence.
THEOREM Requests == Spec => []RequestsNameTheGap
<1>1. Init => RequestsNameTheGap
  BY DEF Init, RequestsNameTheGap
<1>2. RequestsNameTheGap /\ [Next]_vars => RequestsNameTheGap'
  <2> SUFFICES ASSUME RequestsNameTheGap, [Next]_vars
               PROVE  RequestsNameTheGap'
    OBVIOUS
  <2>1. CASE UNCHANGED <<sync, asked>>
    BY <2>1 DEF RequestsNameTheGap, Seen
  <2>2. ASSUME NEW p, Apply(p) PROVE RequestsNameTheGap'
    <3>1. CASE ApplyStatus(sync, p) # "missing-sequence"
      BY <2>2, <3>1 DEF Apply, RequestsNameTheGap
    <3>2. CASE ApplyStatus(sync, p) = "missing-sequence"
      <4>1. /\ sync' = sync
            /\ asked' = [packet |-> p,
                 emitted |-> RequestMissingSegment(sync, p)]
        BY <2>2, <3>2, NotApplied DEF Apply
      <4>2. ~Seen(sync, p) /\ p.sequence # sync.next
        BY <3>2, MissingIsGap
      <4>3. /\ RequestMissingSegment(sync, p).sequence = sync.next
            /\ RequestMissingSegment(sync, p).target = p.source
        BY DEF RequestMissingSegment, CreatePacket
      <4> QED BY <4>1, <4>2, <4>3 DEF RequestsNameTheGap, Seen
    <3> QED BY <3>1, <3>2
  <2> QED BY <2>1, <2>2, RequestStep
<1> QED BY <1>1, <1>2, PTL DEF Spec
-----------------------------------------------------------------------------
(* What a peer imports replays to what the sender had *)

\* A log whose events are numbered, and in which a commit of a proposal of the
\* log has its text.
Faithful(log) ==
  /\ Numbered(log)
  /\ \A i \in DOMAIN log :
       /\ log[i].type = "commit" /\ log[i].proposalSeq < i
       /\ HasProposal(log, log[i].proposalSeq)
       => log[log[i].proposalSeq].text = log[i].text

\* The log that was imported so far is the twin of the sender's, and seqMap
\* has the events of the segment after place from: commits with their twins,
\* other events with events that are no commits, proposals with proposals of
\* the same text.
Paired(R, from, log, acc) ==
  /\ Twins(R, log, acc.log)
  /\ \A i \in DOMAIN acc.seqMap :
       /\ i \in DOMAIN log
       /\ acc.seqMap[i] \in DOMAIN acc.log
       /\ log[i].type = "commit" => <<i, acc.seqMap[i]>> \in R
       /\ log[i].type # "commit" => acc.log[acc.seqMap[i]].type # "commit"
  /\ \A i \in acc.proposals :
       /\ i \in DOMAIN acc.seqMap
       /\ log[i].type = "proposal"
       /\ acc.log[acc.seqMap[i]].type = "proposal"
       /\ acc.log[acc.seqMap[i]].text = log[i].text
  /\ \A i \in Commitments(log) : from < i => i \in DOMAIN acc.seqMap

\* Imports stay paired when an event and its import are appended.
LEMMA PairedGrows ==
  ASSUME NEW log \in Seq(Event), NEW e \in Event, NEW from \in Nat,
         NEW acc, acc.log \in Seq(Event), NEW f \in Event, NEW new,
         NEW R, Paired(R, from, log, acc),
         NEW Q, R \subseteq Q, Twins(Q, Append(log, e), Append(acc.log, f)),
         e.type = "commit" <=> f.type = "commit",
         e.type = "commit" => <<Len(log) + 1, Len(acc.log) + 1>> \in Q,
         new.log = Append(acc.log, f),
         new.seqMap = [i \in DOMAIN acc.seqMap \cup {Len(log) + 1} |->
                         IF i = Len(log) + 1 THEN Len(acc.log) + 1
                         ELSE acc.seqMap[i]],
         \/ new.proposals = acc.proposals
         \/ /\ new.proposals = acc.proposals \cup {Len(log) + 1}
            /\ e.type = "proposal" /\ f.type = "proposal" /\ e.text = f.text
  PROVE  Paired(Q, from, Append(log, e), new)
<1> DEFINE n == Len(log) + 1
           m == Len(acc.log) + 1
           longer == Append(log, e)
           imported == Append(acc.log, f)
<1>1. /\ DOMAIN longer = DOMAIN log \cup {n} /\ longer[n] = e
           /\ n \notin DOMAIN log
      /\ \A i \in DOMAIN log : longer[i] = log[i]
  OBVIOUS
<1>2. /\ DOMAIN imported = DOMAIN acc.log \cup {m} /\ imported[m] = f
      /\ \A i \in DOMAIN acc.log : imported[i] = acc.log[i]
  OBVIOUS
<1>3. /\ DOMAIN new.seqMap = DOMAIN acc.seqMap \cup {n}
      /\ new.seqMap[n] = m
      /\ \A i \in DOMAIN acc.seqMap : i # n => new.seqMap[i] = acc.seqMap[i]
  OBVIOUS
<1>4. Commitments(longer) \subseteq Commitments(log) \cup {n}
  BY <1>1 DEF Commitments
<1>5. /\ Twins(Q, longer, imported) /\ new.log = imported
      /\ e.type = "commit" => <<n, m>> \in Q
      /\ new.proposals \subseteq acc.proposals \cup {n}
      /\ n \in new.proposals =>
           \/ n \in acc.proposals
           \/ e.type = "proposal" /\ f.type = "proposal" /\ e.text = f.text
  OBVIOUS
<1>6. /\ \A i \in DOMAIN acc.seqMap :
           /\ i \in DOMAIN log
           /\ acc.seqMap[i] \in DOMAIN acc.log
           /\ log[i].type = "commit" => <<i, acc.seqMap[i]>> \in R
           /\ log[i].type # "commit" => acc.log[acc.seqMap[i]].type # "commit"
      /\ \A i \in acc.proposals :
           /\ i \in DOMAIN acc.seqMap
           /\ log[i].type = "proposal"
           /\ acc.log[acc.seqMap[i]].type = "proposal"
           /\ acc.log[acc.seqMap[i]].text = log[i].text
      /\ \A i \in Commitments(log) : from < i => i \in DOMAIN acc.seqMap
  BY DEF Paired
<1>11. R \subseteq Q  OBVIOUS
<1> HIDE DEF n, m, longer, imported
<1>7. ASSUME NEW i \in DOMAIN new.seqMap
      PROVE  /\ i \in DOMAIN longer
             /\ new.seqMap[i] \in DOMAIN imported
             /\ longer[i].type = "commit" => <<i, new.seqMap[i]>> \in Q
             /\ longer[i].type # "commit"
                  => imported[new.seqMap[i]].type # "commit"
  <2>1. CASE i = n  BY <1>1, <1>2, <1>3, <1>5, <2>1
  <2>2. CASE i # n
    <3>1. i \in DOMAIN acc.seqMap /\ new.seqMap[i] = acc.seqMap[i]
      BY <1>3, <2>2
    <3>2. i \in DOMAIN log /\ acc.seqMap[i] \in DOMAIN acc.log
      BY <1>6, <3>1
    <3>3. longer[i] = log[i] /\ imported[acc.seqMap[i]] = acc.log[acc.seqMap[i]]
      BY <1>1, <1>2, <3>2
    <3>4. log[i].type = "commit" => <<i, acc.seqMap[i]>> \in Q
      BY <1>11, <1>6, <3>1
    <3>5. log[i].type # "commit" => acc.log[acc.seqMap[i]].type # "commit"
      BY <1>6, <3>1
    <3> QED BY <1>1, <1>2, <3>1, <3>2, <3>3, <3>4, <3>5
  <2> QED BY <2>1, <2>2
<1>8. ASSUME NEW i \in new.proposals
      PROVE  /\ i \in DOMAIN new.seqMap
             /\ longer[i].type = "proposal"
             /\ imported[new.seqMap[i]].type = "proposal"
             /\ imported[new.seqMap[i]].text = longer[i].text
  <2>1. CASE i = n  BY <1>1, <1>2, <1>3, <1>5, <1>6, <2>1
  <2>2. CASE i # n
    <3>1. i \in acc.proposals /\ i \in DOMAIN acc.seqMap
      BY <1>5, <1>6, <2>2
    <3>2. new.seqMap[i] = acc.seqMap[i] /\ i \in DOMAIN new.seqMap
      BY <1>3, <2>2, <3>1
    <3>3. i \in DOMAIN log /\ acc.seqMap[i] \in DOMAIN acc.log
      BY <1>6, <3>1
    <3>4. longer[i] = log[i] /\ imported[acc.seqMap[i]] = acc.log[acc.seqMap[i]]
      BY <1>1, <1>2, <3>3
    <3> QED BY <1>6, <3>1, <3>2, <3>4
  <2> QED BY <2>1, <2>2
<1>9. \A i \in Commitments(longer) : from < i => i \in DOMAIN new.seqMap
  BY <1>3, <1>4, <1>6
<1>10. Paired(Q, from, longer, new)  BY <1>5, <1>7, <1>8, <1>9 DEF Paired
<1> QED BY <1>10 DEF longer

\* What one appended event is.
LEMMA Appended ==
  ASSUME NEW log \in Seq(Event), NEW e \in Event
  PROVE  /\ AppendEvent(log, e) = Append(log, [e EXCEPT !.seq = Len(log) + 1])
         /\ [e EXCEPT !.seq = Len(log) + 1] \in Event
         /\ [e EXCEPT !.seq = Len(log) + 1].seq = Len(log) + 1
         /\ [e EXCEPT !.seq = Len(log) + 1].type = e.type
         /\ [e EXCEPT !.seq = Len(log) + 1].text = e.text
         /\ [e EXCEPT !.seq = Len(log) + 1].commitSeq = e.commitSeq
         /\ [e EXCEPT !.seq = Len(log) + 1].proposalSeq = e.proposalSeq
<1>1. Len(log) + 1 \in Nat  OBVIOUS
<1>2. \A n \in Nat : [e EXCEPT !.seq = n] \in Event  BY DEF Event
<1> QED BY <1>1, <1>2 DEF AppendEvent, Event

\* What the append functions append: an event of their type, with the next
\* number, and the text or the commit it is to have.
Adds(longer, log, type, text, commit, proposal) ==
  \E e \in Event : /\ longer = Append(log, e)
                   /\ e.seq = Len(log) + 1 /\ e.type = type
                   /\ e.text = text
                   /\ e.commitSeq = commit /\ e.proposalSeq = proposal

\* What each append function adds.
LEMMA AppendsAdd ==
  ASSUME NEW log \in Seq(Event)
  PROVE  /\ \A k \in Keys \cup {NoKey}, t \in Texts \cup {NoText} :
              Adds(AppendProposal(log, k, t), log, "proposal", t, 0, 0)
         /\ \A i \in Nat : HasProposal(log, i) =>
              Adds(CommitProposal(log, i), log, "commit", log[i].text, 0, i)
         /\ \A c \in Nat : Adds(AppendUndo(log, c), log, "undo", NoText, c, 0)
         /\ \A c \in Nat : Adds(AppendRedo(log, c), log, "redo", NoText, c, 0)
         /\ \A e \in Event : Adds(AppendImportedCommit(log, e), log, "commit",
                                  e.text, 0, e.proposalSeq)
         /\ \A k \in Keys \cup {NoKey}, left \in Side, right \in Side :
              Adds(AppendConflict(log, k, left, right), log, "conflict",
                   NoText, 0, 0)
<1>0. ASSUME NEW e \in Event, NEW type, NEW text, NEW c, NEW i,
             e.type = type, e.text = text, e.commitSeq = c, e.proposalSeq = i
      PROVE  Adds(AppendEvent(log, e), log, type, text, c, i)
  BY <1>0, Appended, Zenon DEF Adds
<1>1. \A type \in EventTypes :
        /\ Blank(type) \in Event /\ Blank(type).type = type
        /\ Blank(type).text = NoText /\ Blank(type).commitSeq = 0
        /\ Blank(type).proposalSeq = 0
  BY BlankTyped DEF Blank
<1>2. ASSUME NEW k \in Keys \cup {NoKey}, NEW t \in Texts \cup {NoText}
      PROVE  Adds(AppendProposal(log, k, t), log, "proposal", t, 0, 0)
  <2> DEFINE e == [Blank("proposal") EXCEPT !.key = k, !.text = t]
  <2>1. /\ e \in Event /\ e.type = "proposal" /\ e.text = t
        /\ e.commitSeq = 0 /\ e.proposalSeq = 0
    BY <1>1 DEF EventTypes, Event
  <2> HIDE DEF e
  <2>2. Adds(AppendEvent(log, e), log, "proposal", t, 0, 0)  BY <1>0, <2>1
  <2> QED BY <2>2 DEF AppendProposal, e
<1>3. ASSUME NEW i \in Nat, HasProposal(log, i)
      PROVE  Adds(CommitProposal(log, i), log, "commit", log[i].text, 0, i)
  <2> DEFINE e == [Blank("commit") EXCEPT !.key = log[i].key,
                                          !.text = log[i].text,
                                          !.proposalSeq = i]
  <2>0. log[i] \in Event  BY <1>3 DEF HasProposal
  <2>1. /\ e \in Event /\ e.type = "commit" /\ e.text = log[i].text
        /\ e.commitSeq = 0 /\ e.proposalSeq = i
    BY <1>1, <2>0 DEF EventTypes, Event
  <2> HIDE DEF e
  <2>2. Adds(AppendEvent(log, e), log, "commit", log[i].text, 0, i)
    BY <1>0, <2>1
  <2> QED BY <1>3, <2>2 DEF CommitProposal, e
<1>4. ASSUME NEW c \in Nat
      PROVE  Adds(AppendUndo(log, c), log, "undo", NoText, c, 0)
  <2> DEFINE e == [Blank("undo") EXCEPT !.commitSeq = c]
  <2>1. /\ e \in Event /\ e.type = "undo" /\ e.text = NoText
        /\ e.commitSeq = c /\ e.proposalSeq = 0
    BY <1>1 DEF EventTypes, Event
  <2> HIDE DEF e
  <2>2. Adds(AppendEvent(log, e), log, "undo", NoText, c, 0)  BY <1>0, <2>1
  <2> QED BY <2>2 DEF AppendUndo, e
<1>5. ASSUME NEW c \in Nat
      PROVE  Adds(AppendRedo(log, c), log, "redo", NoText, c, 0)
  <2> DEFINE e == [Blank("redo") EXCEPT !.commitSeq = c]
  <2>1. /\ e \in Event /\ e.type = "redo" /\ e.text = NoText
        /\ e.commitSeq = c /\ e.proposalSeq = 0
    BY <1>1 DEF EventTypes, Event
  <2> HIDE DEF e
  <2>2. Adds(AppendEvent(log, e), log, "redo", NoText, c, 0)  BY <1>0, <2>1
  <2> QED BY <2>2 DEF AppendRedo, e
<1>6. ASSUME NEW commit \in Event
      PROVE  Adds(AppendImportedCommit(log, commit), log, "commit", commit.text,
               0,
                  commit.proposalSeq)
  <2> DEFINE original == IF commit.originalSeq # 0 THEN commit.originalSeq
                                                   ELSE commit.seq
             e == [Blank("commit") EXCEPT
                     !.key = commit.key, !.text = commit.text,
                     !.proposalSeq = commit.proposalSeq, !.from = commit.from,
                     !.originalSeq = original]
  <2>0. original \in Nat  BY DEF Event
  <2> HIDE DEF original
  <2>1. /\ e \in Event /\ e.type = "commit" /\ e.text = commit.text
        /\ e.commitSeq = 0 /\ e.proposalSeq = commit.proposalSeq
    BY <1>1, <2>0 DEF EventTypes, Event
  <2> HIDE DEF e
  <2>2. Adds(AppendEvent(log, e), log, "commit", commit.text, 0,
             commit.proposalSeq)
    BY <1>0, <2>1
  <2> QED BY <2>2 DEF AppendImportedCommit, e, original
<1>7. ASSUME NEW k \in Keys \cup {NoKey}, NEW left \in Side, NEW right \in Side
      PROVE  Adds(AppendConflict(log, k, left, right), log, "conflict",
                  NoText, 0, 0)
  <2> DEFINE e == [Blank("conflict") EXCEPT !.key = k, !.left = left,
                                            !.right = right]
  <2>1. /\ e \in Event /\ e.type = "conflict" /\ e.text = NoText
        /\ e.commitSeq = 0 /\ e.proposalSeq = 0
    BY <1>1 DEF EventTypes, Event
  <2> HIDE DEF e
  <2>2. Adds(AppendEvent(log, e), log, "conflict", NoText, 0, 0)
    BY <1>0, <2>1
  <2> QED BY <2>2 DEF AppendConflict, e
<1> QED BY <1>2, <1>3, <1>4, <1>5, <1>6, <1>7

\* Importing an event of a segment keeps the import paired with the segment,
\* when what the event masks is in the segment.
LEMMA ImportPaired ==
  ASSUME NEW log \in Seq(Event), NEW e \in Event, Faithful(Append(log, e)),
         NEW from \in Nat, NEW first \in Seq(Event), NEW acc \in Imports(first),
         NEW source \in Peers, NEW R, Paired(R, from, log, acc),
         e.type # "conflict",
         e.type \in {"undo", "redo"} => from < e.commitSeq
  PROVE  \E Q : Paired(Q, from, Append(log, e), ImportEvent(acc, e, source))
<1> DEFINE n == Len(log) + 1
           m == Len(acc.log) + 1
           c == e.commitSeq
           k == acc.seqMap[c]
<1>1. acc.log \in Seq(Event) /\ n \in Nat /\ m \in Nat
        /\ DOMAIN log \subseteq Nat
      /\ DOMAIN acc.log \subseteq Nat
  BY DEF Imports, Longer
<1>2. /\ Append(log, e)[n] = e /\ n \in DOMAIN Append(log, e)
      /\ \A i \in DOMAIN log : Append(log, e)[i] = log[i] /\ i < n
                               /\ i \in DOMAIN Append(log, e)
  OBVIOUS
<1>3. e.seq = n  BY <1>2 DEF Faithful, Numbered
<1>4. /\ Twins(R, log, acc.log) /\ Numbered(log) /\ Numbered(acc.log)
  BY DEF Paired, Twins
<1>5. /\ DOMAIN acc = {"log", "seqMap", "proposals"}
      /\ acc = [log |-> acc.log, seqMap |-> acc.seqMap,
                proposals |-> acc.proposals]
  BY DEF Imports
<1> DEFINE map == [i \in DOMAIN acc.seqMap \cup {n} |->
                     IF i = n THEN m ELSE acc.seqMap[i]]
<1>6. ASSUME NEW longer, Len(longer) = m
      PROVE  /\ Imported(acc, e, longer).log = longer
             /\ Imported(acc, e, longer).seqMap = map
             /\ Imported(acc, e, longer).proposals = acc.proposals
             /\ [Imported(acc, e, longer) EXCEPT !.proposals
                  = @ \cup {e.seq}].log
                  = longer
             /\ [Imported(acc, e, longer) EXCEPT !.proposals
                  = @ \cup {e.seq}].seqMap
                  = map
             /\ [Imported(acc, e, longer)
                   EXCEPT !.proposals = @ \cup {e.seq}].proposals
                  = acc.proposals \cup {n}
  <2> HIDE DEF n, m
  <2>1. Imported(acc, e, longer)
          = [log |-> longer, seqMap |-> map, proposals |-> acc.proposals]
    <3>1. [i \in DOMAIN acc.seqMap \cup {e.seq} |->
             IF i = e.seq THEN Len(longer) ELSE acc.seqMap[i]] = map
      BY <1>3, <1>6
    <3>2. Imported(acc, e, longer) = [acc EXCEPT !.log = longer, !.seqMap = map]
      BY <3>1 DEF Imported
    <3> HIDE DEF map
    <3> QED BY <1>5, <3>2
  <2> HIDE DEF map
  <2> QED BY <1>3, <2>1
<1> HIDE DEF n, m
<1>7. ASSUME NEW f \in Event
      PROVE  /\ Len(Append(acc.log, f)) = m
             /\ Append(acc.log, f) \in Seq(Event)
  BY <1>1 DEF m
<1>8. ASSUME NEW f \in Event, NEW new, NEW Q, R \subseteq Q,
             Twins(Q, Append(log, e), Append(acc.log, f)),
             e.type = "commit" <=> f.type = "commit",
             e.type = "commit" => <<n, m>> \in Q,
             new.log = Append(acc.log, f), new.seqMap = map,
             \/ new.proposals = acc.proposals
             \/ /\ new.proposals = acc.proposals \cup {n}
                /\ e.type = "proposal" /\ f.type = "proposal"
                /\ e.text = f.text
      PROVE  Paired(Q, from, Append(log, e), new)
  BY <1>1, <1>8, PairedGrows, Zenon DEF n, m, map
<1>9. CASE e.type = "proposal"
  <2> DEFINE longer == AppendProposal(acc.log, e.key, e.text)
             new == [Imported(acc, e, longer) EXCEPT !.proposals
               = @ \cup {e.seq}]
  <2>1. ImportEvent(acc, e, source) = new  BY <1>9 DEF ImportEvent
  <2>2. PICK f \in Event : longer = Append(acc.log, f) /\ f.seq = m
                           /\ f.type = "proposal" /\ f.text = e.text
    <3>1. e.key \in Keys \cup {NoKey} /\ e.text \in Texts \cup {NoText}
      BY DEF Event
    <3>2. Adds(longer, acc.log, "proposal", e.text, 0, 0)
      BY <1>1, <3>1, AppendsAdd
    <3> HIDE DEF longer
    <3> QED BY <3>2 DEF Adds, m
  <2>3. /\ new.log = longer
        /\ new.seqMap = map
        /\ new.proposals = acc.proposals \cup {n}
    <3> HIDE DEF longer, map
    <3>1. Len(longer) = m  BY <1>7, <2>2
    <3> QED BY <1>6, <3>1, Zenon
  <2> HIDE DEF longer, new
  <2>4. Unmoved(log, Append(log, e))
    BY <1>3, <1>4, <1>9, IdleUnmoved DEF Idle, n
  <2>5. Unmoved(acc.log, Append(acc.log, f))
    BY <1>1, <1>4, <2>2, IdleUnmoved DEF Idle, m
  <2>6. Twins(R, Append(log, e), Append(acc.log, f))
    BY <1>4, <2>4, <2>5, TwinsUnmoved
  <2>7. Paired(R, from, Append(log, e), new)
    <3>1. /\ R \subseteq R /\ ~(e.type = "commit") /\ ~(f.type = "commit")
          /\ e.type = f.type /\ e.text = f.text
      BY <1>9, <2>2
    <3> QED BY <1>8, <1>9, <2>2, <2>3, <2>6, <3>1, Zenon
  <2> QED BY <2>1, <2>7
<1>10. CASE e.type = "commit"
  <2> DEFINE longer == IF e.proposalSeq \in acc.proposals
                       THEN CommitProposal(acc.log, acc.seqMap[e.proposalSeq])
                       ELSE AppendImportedCommit(acc.log,
                         ClonedCommit(e, source))
             new == Imported(acc, e, longer)
             Q == R \cup {<<n, m>>}
  <2>1. ImportEvent(acc, e, source) = new  BY <1>10 DEF ImportEvent
  <2>2. PICK f \in Event : longer = Append(acc.log, f) /\ f.seq = m
                           /\ f.type = "commit" /\ f.text = e.text
    <3>1. CASE e.proposalSeq \in acc.proposals
      <4> DEFINE p == e.proposalSeq
                 i == acc.seqMap[p]
      <4>1. /\ p \in DOMAIN acc.seqMap /\ log[p].type = "proposal"
            /\ acc.log[i].type = "proposal" /\ acc.log[i].text = log[p].text
            /\ p \in DOMAIN log /\ i \in DOMAIN acc.log
        BY <3>1 DEF Paired
      <4>2. i \in Nat /\ HasProposal(acc.log, i)  BY <1>1, <4>1 DEF HasProposal
      <4>3. log[p].text = e.text
        <5>1. p < n /\ HasProposal(Append(log, e), p)
          BY <1>2, <4>1 DEF HasProposal
        <5>2. Append(log, e)[p].text = Append(log, e)[n].text
          BY <1>2, <1>10, <5>1 DEF Faithful
        <5> QED BY <1>2, <4>1, <5>2
      <4> HIDE DEF i
      <4>4. Adds(CommitProposal(acc.log, i), acc.log, "commit", e.text, 0, i)
        BY <1>1, <4>1, <4>2, <4>3, AppendsAdd
      <4>5. longer = CommitProposal(acc.log, i)  BY <3>1 DEF i
      <4> HIDE DEF longer
      <4> QED BY <4>4, <4>5 DEF Adds, m
    <3>2. CASE e.proposalSeq \notin acc.proposals
      <4> DEFINE commit == ClonedCommit(e, source)
      <4>1. commit \in Event /\ commit.text = e.text
        <5>1. /\ (IF e.from # NoPeer THEN e.from ELSE source)
                    \in Peers \cup {NoPeer}
              /\ (IF e.originalSeq # 0 THEN e.originalSeq ELSE e.seq) \in Nat
          BY DEF Event
        <5> QED BY <5>1 DEF ClonedCommit, Event
      <4>2. longer = AppendImportedCommit(acc.log, commit)  BY <3>2
      <4> HIDE DEF longer, commit
      <4>3. Adds(longer, acc.log, "commit", e.text, 0, commit.proposalSeq)
        BY <1>1, <4>1, <4>2, AppendsAdd
      <4> QED BY <4>3 DEF Adds, m
    <3> QED BY <3>1, <3>2
  <2>3. /\ new.log = longer
        /\ new.seqMap = map
        /\ new.proposals = acc.proposals
    <3> HIDE DEF longer, map
    <3>1. Len(longer) = m  BY <1>7, <2>2
    <3> QED BY <1>6, <3>1, Zenon
  <2> HIDE DEF longer, new
  <2>4. Twins(Q, Append(log, e), Append(acc.log, f))
    BY <1>1, <1>3, <1>4, <1>10, <2>2, TwinsCommit DEF n, m
  <2>5. R \subseteq Q /\ <<n, m>> \in Q  OBVIOUS
  <2> HIDE DEF Q
  <2>6. Paired(Q, from, Append(log, e), new)
    <3> HIDE DEF map
    <3> QED BY <1>8, <1>10, <2>2, <2>3, <2>4, <2>5, Zenon
  <2> QED BY <2>1, <2>6
<1>11. CASE e.type \in {"undo", "redo"} /\ Mapped(acc, c)
  <2> DEFINE longer == IF e.type = "undo" THEN AppendUndo(acc.log, k)
                                          ELSE AppendRedo(acc.log, k)
             new == Imported(acc, e, longer)
  <2>1. ImportEvent(acc, e, source) = new  BY <1>11 DEF ImportEvent
  <2>2. /\ c \in DOMAIN log /\ k \in DOMAIN acc.log /\ k \in Nat
        /\ log[c].type = "commit" => <<c, k>> \in R
        /\ log[c].type # "commit" => acc.log[k].type # "commit"
    BY <1>1, <1>11 DEF Mapped, Paired
  <2> HIDE DEF k
  <2>3. PICK f \in Event : longer = Append(acc.log, f) /\ f.seq = m
                           /\ f.type = e.type /\ f.commitSeq = k
    <3>1. Adds(longer, acc.log, e.type, NoText, k, 0)
      BY <1>1, <1>11, <2>2, AppendsAdd
    <3> HIDE DEF longer
    <3> QED BY <3>1 DEF Adds, m
  <2>4. /\ new.log = longer
        /\ new.seqMap = map
        /\ new.proposals = acc.proposals
    <3> HIDE DEF longer, map
    <3>1. Len(longer) = m  BY <1>7, <2>3
    <3> QED BY <1>6, <3>1, Zenon
  <2> HIDE DEF longer, new
  <2>5. Twins(R, Append(log, e), Append(acc.log, f))
    <3>1. CASE log[c].type = "commit"
      BY <1>1, <1>3, <1>4, <1>11, <2>2, <2>3, <3>1, TwinsMask DEF n, m
    <3>2. CASE log[c].type # "commit"
      <4>1. Unmoved(log, Append(log, e))
        BY <1>3, <1>4, <1>11, <3>2, IdleUnmoved DEF Idle, Commitments, n
      <4>2. Unmoved(acc.log, Append(acc.log, f))
        BY <1>1, <1>4, <1>11, <2>2, <2>3, <3>2, IdleUnmoved
           DEF Idle, Commitments, m
      <4> QED BY <1>4, <4>1, <4>2, TwinsUnmoved
    <3> QED BY <3>1, <3>2
  <2>6. Paired(R, from, Append(log, e), new)
    <3>1. ~(e.type = "commit") /\ ~(f.type = "commit") /\ R \subseteq R
      BY <1>11, <2>3
    <3> HIDE DEF map
    <3> QED BY <1>8, <2>3, <2>4, <2>5, <3>1, Zenon
  <2> QED BY <2>1, <2>6
<1>12. CASE e.type \in {"undo", "redo"} /\ ~Mapped(acc, c)
  <2>1. ImportEvent(acc, e, source) = acc  BY <1>12 DEF ImportEvent
  <2>2. c \notin Commitments(log)
    BY <1>12 DEF Mapped, Paired
  <2>3. Unmoved(log, Append(log, e))
    BY <1>3, <1>4, <1>12, <2>2, IdleUnmoved DEF Idle, n
  <2>4. Twins(R, Append(log, e), acc.log)
    BY <1>4, <2>3, TwinsUnmoved
  <2>5. Paired(R, from, Append(log, e), acc)
    BY <1>2, <2>3, <2>4 DEF Paired, Unmoved
  <2> QED BY <2>1, <2>5
<1> QED BY <1>9, <1>10, <1>11, <1>12 DEF Event, EventTypes

\* A stretch of a log with the event that comes after it.
LEMMA StretchGrows ==
  ASSUME NEW log \in Seq(Event), NEW a \in Nat, NEW k \in Nat,
         a <= k, k + 1 <= Len(log)
  PROVE  /\ log[k + 1] \in Event
         /\ SubSeq(log, a + 1, k) \in Seq(Event)
         /\ SubSeq(log, a + 1, k + 1)
              = Append(SubSeq(log, a + 1, k), log[k + 1])
         /\ Len(SubSeq(log, a + 1, k)) = k - a
         /\ \A j \in DOMAIN SubSeq(log, a + 1, k) :
              SubSeq(log, a + 1, k)[j] = log[a + j]
<1>1. k + 1 \in DOMAIN log  OBVIOUS
<1>2. \A j \in 1 .. k - a :
        a + j \in DOMAIN log /\ log[a + j] \in Event  OBVIOUS
<1> DEFINE seg == SubSeq(log, a + 1, k)
           more == SubSeq(log, a + 1, k + 1)
<1>3. /\ seg \in Seq(Event) /\ Len(seg) = k - a
      /\ \A j \in 1 .. k - a : seg[j] = log[a + j]
  BY <1>2
<1>4. /\ Len(more) = (k - a) + 1 /\ more \in Seq(Event)
      /\ \A j \in 1 .. (k - a) + 1 : more[j] = log[a + j]
  BY <1>1, <1>2
<1>5. more = Append(seg, log[k + 1])
  <2> DEFINE longer == Append(seg, log[k + 1])
             n == k - a
  <2>1. n \in Nat /\ log[k + 1] \in Event /\ a + (n + 1) = k + 1  BY <1>1
  <2>2. /\ longer \in Seq(Event) /\ Len(longer) = n + 1
        /\ \A j \in 1 .. n : longer[j] = seg[j]
        /\ longer[n + 1] = log[k + 1]
    BY <1>3, <2>1
  <2>3. \A j \in 1 .. n + 1 : longer[j] = more[j]
    BY <1>3, <1>4, <2>1, <2>2
  <2> HIDE DEF longer, more, n, seg
  <2>4. Len(more) = n + 1 /\ more \in Seq(Event)  BY <1>4 DEF n
  <2> QED BY <2>2, <2>3, <2>4 DEF longer
<1> QED BY <1>1, <1>3, <1>5

\* A stretch ends where it begins.
LEMMA StretchEmpty ==
  ASSUME NEW log \in Seq(Event), NEW a \in Nat
  PROVE  SubSeq(log, a + 1, a) = <<>>
OBVIOUS

\* What the events and the conflicts of a segment are with one more event.
LEMMA CutGrows ==
  ASSUME NEW seg \in Seq(Event), NEW e \in Event
  PROVE  /\ LogEvents(Append(seg, e))
              = IF IsConflict(e) THEN LogEvents(seg) ELSE Append(LogEvents(seg),
                e)
         /\ Conflicts(Append(seg, e))
              = IF IsConflict(e) THEN Append(Conflicts(seg),
                e) ELSE Conflicts(seg)
         /\ LogEvents(seg) \in Seq(Event) /\ Conflicts(seg) \in Seq(Event)
<1> DEFINE t == Append(seg, e)
           n == Len(seg) + 1
           I == {i \in DOMAIN t : ~IsConflict(t[i])}
           J == {i \in DOMAIN t : IsConflict(t[i])}
<1>1. /\ DOMAIN t = DOMAIN seg \cup {n} /\ t[n] = e /\ n \notin DOMAIN seg
      /\ \A i \in DOMAIN seg : t[i] = seg[i]
  OBVIOUS
<1> HIDE DEF t, n
<1>2. /\ I \cap DOMAIN seg
           = {i \in DOMAIN seg : ~IsConflict(seg[i])} \cap DOMAIN seg
      /\ J \cap DOMAIN seg
           = {i \in DOMAIN seg : IsConflict(seg[i])} \cap DOMAIN seg
      /\ n \in I <=> ~IsConflict(e)
      /\ n \in J <=> IsConflict(e)
  BY <1>1
<1>3. LogEvents(seg) = Subsequence(seg, I)
        /\ Conflicts(seg) = Subsequence(seg, J)
  <2> HIDE DEF I, J
  <2> QED BY <1>2, SubsequenceDepends DEF LogEvents, Conflicts
<1>4. LogEvents(t) = Subsequence(t, I) /\ Conflicts(t) = Subsequence(t, J)
  BY DEF LogEvents, Conflicts
<1> HIDE DEF I, J
<1>5. /\ Subsequence(t, I) = IF n \in I THEN Append(Subsequence(seg, I), e)
                                        ELSE Subsequence(seg, I)
      /\ Subsequence(t, J) = IF n \in J THEN Append(Subsequence(seg, J), e)
                                        ELSE Subsequence(seg, J)
  BY SubsequenceGrows DEF t, n
<1>6. LogEvents(seg) \in Seq(Event) /\ Conflicts(seg) \in Seq(Event)
  BY SubsequenceHolds DEF LogEvents, Conflicts
<1>7. /\ LogEvents(t) = IF IsConflict(e) THEN LogEvents(seg)
                                         ELSE Append(LogEvents(seg), e)
      /\ Conflicts(t) = IF IsConflict(e) THEN Append(Conflicts(seg), e)
                                         ELSE Conflicts(seg)
  BY <1>2, <1>3, <1>4, <1>5
<1> QED BY <1>6, <1>7 DEF t

\* An empty segment has neither.
LEMMA CutEmpty == LogEvents(<<>>) = <<>> /\ Conflicts(<<>>) = <<>>
BY SubsequenceEmpty DEF LogEvents, Conflicts

\* A packet carries every event of its segment, here or there.
LEMMA CutWhole ==
  ASSUME NEW seg \in Seq(Event)
  PROVE  Len(LogEvents(seg)) + Len(Conflicts(seg)) = Len(seg)
<1> DEFINE T == {s \in Seq(Event) :
                   Len(LogEvents(s)) + Len(Conflicts(s)) = Len(s)}
<1>1. <<>> \in T
  <2> DEFINE none == <<>>
  <2>1. none \in Seq(Event) /\ Len(none) = 0  OBVIOUS
  <2>2. LogEvents(none) = none /\ Conflicts(none) = none  BY CutEmpty
  <2> HIDE DEF none
  <2>3. none \in T  BY <2>1, <2>2
  <2> QED BY <2>3 DEF none
<1>2. ASSUME NEW s \in Seq(Event), s \in T, NEW e \in Event
      PROVE Append(s, e) \in T
  <2>1. Append(s, e) \in Seq(Event) /\ Len(Append(s, e)) = Len(s) + 1  OBVIOUS
  <2>2. /\ LogEvents(s) \in Seq(Event) /\ Conflicts(s) \in Seq(Event)
        /\ Len(LogEvents(s)) + Len(Conflicts(s)) = Len(s)
    BY <1>2, CutGrows
  <2>3. /\ Len(Append(LogEvents(s), e)) = Len(LogEvents(s)) + 1
        /\ Len(Append(Conflicts(s), e)) = Len(Conflicts(s)) + 1
        /\ Len(LogEvents(s)) \in Nat /\ Len(Conflicts(s)) \in Nat
    BY <2>2
  <2>4. CASE IsConflict(e)  BY <2>1, <2>2, <2>3, <2>4, CutGrows
  <2>5. CASE ~IsConflict(e)  BY <2>1, <2>2, <2>3, <2>5, CutGrows
  <2> QED BY <2>4, <2>5
<1>3. Seq(Event) \subseteq T
  <2> HIDE DEF T
  <2> QED BY <1>1, <1>2, Applied!SequencesGrow
<1> QED BY <1>3

\* A log from its beginning up to some event of it is as faithful.
LEMMA FaithfulPrefix ==
  ASSUME NEW log \in Seq(Event), Faithful(log), NEW k \in Nat, k <= Len(log)
  PROVE  Faithful(SubSeq(log, 1, k))
<1> DEFINE s == SubSeq(log, 1, k)
<1>1. /\ DOMAIN s = 1 .. k /\ \A i \in 1 .. k :
           s[i] = log[i] /\ i \in DOMAIN log
  OBVIOUS
<1> HIDE DEF s
<1>2. Numbered(s)  BY <1>1 DEF Faithful, Numbered
<1>3. ASSUME NEW i \in DOMAIN s, s[i].type = "commit", s[i].proposalSeq < i,
             HasProposal(s, s[i].proposalSeq)
      PROVE  s[s[i].proposalSeq].text = s[i].text
  BY <1>1, <1>3 DEF Faithful, HasProposal
<1>4. Faithful(s)  BY <1>2, <1>3 DEF Faithful
<1> QED BY <1>4 DEF s

\* Importing a segment whose masks are of its own commits goes on pairing the
\* imported log with the sender's.
LEMMA SegmentImported ==
  ASSUME NEW log \in Seq(Event), Faithful(log),
         NEW a \in Nat, NEW b \in Nat, a <= b, b <= Len(log),
         Closed(SubSeq(log, a + 1, b)),
         NEW imported \in Seq(Event),
         NEW R, Twins(R, SubSeq(log, 1, a), imported),
         NEW p \in Packet,
         p.events = LogEvents(SubSeq(log, a + 1, b)),
         p.conflicts = Conflicts(SubSeq(log, a + 1, b))
  PROVE  \E Q : Twins(Q, SubSeq(log, 1, b), ImportPacketEvents(imported, p))
<1> DEFINE Segment(j) == SubSeq(log, a + 1, a + j)
           Upto(j) == SubSeq(log, 1, a + j)
           Import(j) == Events!Fold(p.source, ImportStart(imported),
                                    LogEvents(Segment(j)))
           T == {j \in Nat : a + j <= b =>
                   /\ Import(j) \in Imports(imported)
                   /\ \E Q : Paired(Q, a, Upto(j), Import(j))}
<1>0. p.source \in Peers /\ p.events \in Seq(Event)
        /\ p.conflicts \in Seq(Event)
  BY DEF Packet
<1>1. 0 \in T
  <2>1. Segment(0) = <<>>  BY StretchEmpty
  <2>2. Import(0) = ImportStart(imported)  BY <2>1, CutEmpty, Events!FoldEmpty
  <2>3. ImportStart(imported) \in Imports(imported)
    <3>1. <<>> \in [{} -> Nat] /\ {} \in SUBSET Nat  OBVIOUS
    <3>2. <<>> \in UNION {[D -> Nat] : D \in SUBSET Nat}  BY <3>1
    <3> QED BY <3>2, LongerFacts DEF ImportStart, Imports
  <2>4. Paired(R, a, SubSeq(log, 1, a), ImportStart(imported))
    <3>1. /\ ImportStart(imported).log = imported
          /\ DOMAIN ImportStart(imported).seqMap = {}
          /\ ImportStart(imported).proposals = {}
      BY DEF ImportStart
    <3>2. \A i \in Commitments(SubSeq(log, 1, a)) : ~ a < i
      BY DEF Commitments
    <3> QED BY <3>1, <3>2 DEF Paired
  <2>5. Upto(0) = SubSeq(log, 1, a)  OBVIOUS
  <2> QED BY <2>2, <2>3, <2>4, <2>5
<1>2. ASSUME NEW j \in Nat, j \in T  PROVE j + 1 \in T
  <2> SUFFICES ASSUME a + (j + 1) <= b
               PROVE  /\ Import(j + 1) \in Imports(imported)
                      /\ \E Q : Paired(Q, a, Upto(j + 1), Import(j + 1))
    OBVIOUS
  <2> DEFINE k == a + j
             e == log[k + 1]
  <2>1. k \in Nat /\ a <= k /\ k + 1 <= Len(log) /\ k <= Len(log)
        /\ a + (j + 1) = k + 1 /\ k + 1 <= b
    OBVIOUS
  <2>2. PICK Q : Paired(Q, a, Upto(j), Import(j))
    BY <1>2, <2>1
  <2>3. Import(j) \in Imports(imported)  BY <1>2, <2>1
  <2>4. /\ e \in Event /\ Segment(j) \in Seq(Event)
        /\ Segment(j + 1) = Append(Segment(j), e)
    <3> HIDE DEF k
    <3>1. /\ e \in Event /\ SubSeq(log, a + 1, k) \in Seq(Event)
          /\ SubSeq(log, a + 1, k + 1) = Append(SubSeq(log, a + 1, k), e)
      BY <2>1, StretchGrows
    <3> QED BY <2>1, <3>1 DEF k
  <2>5. Upto(j) \in Seq(Event) /\ Upto(j + 1) = Append(Upto(j), e)
    <3> HIDE DEF k
    <3>1. /\ SubSeq(log, 0 + 1, k) \in Seq(Event)
          /\ SubSeq(log, 0 + 1, k + 1) = Append(SubSeq(log, 0 + 1, k), e)
      BY <2>1, StretchGrows
    <3>2. 0 + 1 = 1  OBVIOUS
    <3> QED BY <2>1, <3>1, <3>2 DEF k
  <2>6. Faithful(Append(Upto(j), e))
    <3>1. Faithful(SubSeq(log, 1, k + 1))  BY <2>1, FaithfulPrefix
    <3>2. SubSeq(log, 1, k + 1) = Upto(j + 1)  BY <2>1
    <3> QED BY <2>5, <3>1, <3>2
  <2>7. e.type \in {"undo", "redo"} => a < e.commitSeq
    <3> SUFFICES ASSUME e.type \in {"undo", "redo"}  PROVE a < e.commitSeq
      OBVIOUS
    <3> DEFINE seg == SubSeq(log, a + 1, b)
    <3>1. /\ DOMAIN seg = 1 .. b - a
          /\ \A i \in 1 .. b - a : seg[i] = log[a + i] /\ a + i \in DOMAIN log
      OBVIOUS
    <3>2. j + 1 \in 1 .. b - a /\ a + (j + 1) = k + 1  BY <2>1
    <3>3. seg[j + 1] = e  BY <3>1, <3>2
    <3> HIDE DEF seg
    <3>4. PICK i \in DOMAIN seg : seg[i].seq = e.commitSeq
      <4>1. Closed(seg)  BY DEF seg
      <4>2. j + 1 \in DOMAIN seg  BY <3>1, <3>2
      <4> QED BY <3>3, <4>1, <4>2 DEF Closed
    <3>5. seg[i].seq = a + i  BY <3>1 DEF Faithful, Numbered
    <3> QED BY <3>1, <3>4, <3>5
  <2> HIDE DEF Upto, Segment, e, k
  <2>8. CASE IsConflict(e)
    <3>1. Import(j + 1) = Import(j)  BY <2>4, <2>8, CutGrows
    <3>2. Numbered(Upto(j)) /\ Twins(Q, Upto(j), Import(j).log)
      BY <2>2 DEF Paired, Twins
    <3>3. e.seq = Len(Upto(j)) + 1
      <4>1. /\ Append(Upto(j), e)[Len(Upto(j)) + 1] = e
            /\ Len(Upto(j)) + 1 \in DOMAIN Append(Upto(j), e)
        BY <2>5
      <4> QED BY <2>6, <4>1 DEF Faithful, Numbered
    <3>4. Unmoved(Upto(j), Append(Upto(j), e))
      BY <2>4, <2>5, <2>8, <3>2, <3>3, IdleUnmoved DEF Idle, IsConflict
    <3>5. Twins(Q, Append(Upto(j), e), Import(j).log)
      BY <3>2, <3>4, TwinsUnmoved
    <3> HIDE DEF Import
    <3>6. Paired(Q, a, Append(Upto(j), e), Import(j))
      BY <2>2, <3>4, <3>5 DEF Paired, Unmoved
    <3> QED BY <2>3, <2>5, <3>1, <3>6
  <2>9. CASE ~IsConflict(e)
    <3>1. LogEvents(Segment(j)) \in Seq(Event)
          /\ LogEvents(Segment(j + 1)) = Append(LogEvents(Segment(j)), e)
      BY <2>4, <2>9, CutGrows
    <3>2. Import(j + 1) = ImportEvent(Import(j), e, p.source)
      <4> DEFINE events == LogEvents(Segment(j))
                 start == ImportStart(imported)
      <4> HIDE DEF events, start
      <4>1. Events!Fold(p.source, start, Append(events, e))
              = ImportEvent(Events!Fold(p.source, start, events), e, p.source)
        BY <2>4, <3>1, Events!FoldAppend DEF events
      <4> QED BY <3>1, <4>1 DEF events, start
    <3> HIDE DEF Import
    <3>3. Import(j + 1) \in Imports(imported)
      BY <1>0, <2>3, <2>4, <3>2, ImportEventTyped
    <3>4. \E P : Paired(P, a, Append(Upto(j), e), Import(j + 1))
      BY <1>0, <2>2, <2>3, <2>4, <2>5, <2>6, <2>7, <2>9, <3>2, ImportPaired
         DEF IsConflict
    <3> QED BY <2>5, <3>3, <3>4
  <2> QED BY <2>8, <2>9
<1>3. Nat \subseteq T
  <2> HIDE DEF T
  <2> QED BY <1>1, <1>2, Applied!Induction
<1> DEFINE acc == FoldLeft(LAMBDA x, e : ImportEvent(x, e, p.source),
                           ImportStart(imported), p.events)
<1>4. acc.log \in Seq(Event) /\ \E Q : Twins(Q, SubSeq(log, 1, b), acc.log)
  <2>1. b - a \in Nat /\ a + (b - a) = b  OBVIOUS
  <2>2. b - a \in T  BY <1>3, <2>1
  <2>3. Upto(b - a) = SubSeq(log, 1, b)
          /\ Segment(b - a) = SubSeq(log, a + 1, b)
    BY <2>1
  <2>4. acc = Import(b - a)
    BY <2>3 DEF Events!Fold, FoldLeft, MapThenFoldSet, Events!FoldLeft,
                Events!MapThenFoldSet, Max, Events!Max
  <2> HIDE DEF acc, Upto, Import
  <2>5. /\ Import(b - a) \in Imports(imported)
        /\ \E Q : Paired(Q, a, Upto(b - a), Import(b - a))
    BY <2>1, <2>2
  <2> QED BY <2>3, <2>4, <2>5 DEF Paired, Imports, Longer
<1>5. PICK Q : Twins(Q, SubSeq(log, 1, b), acc.log)  BY <1>4
<1> HIDE DEF acc
<1> DEFINE A == {l \in Seq(Event) : Twins(Q, SubSeq(log, 1, b), l)}
           done == FoldLeft(ImportConflict, acc.log, p.conflicts)
<1>6. \A l \in A, e \in Event : ImportConflict(l, e) \in A
  <2> SUFFICES ASSUME NEW l \in Seq(Event), Twins(Q, SubSeq(log, 1, b), l),
                      NEW e \in Event
               PROVE  ImportConflict(l, e) \in A
    OBVIOUS
  <2>1. e.key \in Keys \cup {NoKey} /\ e.left \in Side /\ e.right \in Side
    BY DEF Event
  <2>2. PICK f \in Event : /\ ImportConflict(l, e) = Append(l, f)
                           /\ f.seq = Len(l) + 1 /\ f.type = "conflict"
    <3>1. Adds(AppendConflict(l, e.key, e.left, e.right), l, "conflict",
               NoText, 0, 0)
      BY <2>1, AppendsAdd
    <3> QED BY <3>1 DEF ImportConflict, Adds
  <2>3. Numbered(l)  BY DEF Twins
  <2>4. Unmoved(l, Append(l, f))  BY <2>2, <2>3, IdleUnmoved DEF Idle
  <2>5. Twins(Q, SubSeq(log, 1, b), Append(l, f))  BY <2>4, TwinsUnmoved
  <2>6. Append(l, f) \in Seq(Event)  OBVIOUS
  <2> QED BY <2>2, <2>5, <2>6
<1>7. done \in A
  <2>1. acc.log \in A  BY <1>5, <1>4
  <2> HIDE DEF A
  <2>2. ConflictEvents!Fold({}, acc.log, p.conflicts) \in A
    BY <1>0, <1>6, <2>1, ConflictEvents!FoldKeeps
  <2>3. done = ConflictEvents!Fold({}, acc.log, p.conflicts)
    BY DEF ConflictEvents!Fold, FoldLeft, MapThenFoldSet,
           ConflictEvents!FoldLeft,
           ConflictEvents!MapThenFoldSet, Max, ConflictEvents!Max
  <2> QED BY <2>2, <2>3
<1>8. ImportPacketEvents(imported, p) = done
  BY DEF ImportPacketEvents, acc
<1> HIDE DEF done
<1> QED BY <1>7, <1>8

\* How many events the first n of some packets hold.
Packs == INSTANCE FoldTheorems
           WITH Step <- LAMBDA c, sum, p :
             sum + (Len(p.events) + Len(p.conflicts))
Packed(packets, n) ==
  FoldLeft(LAMBDA sum, p : sum + (Len(p.events) + Len(p.conflicts)), 0,
           SubSeq(packets, 1, n))

\* PackedBy counts the packets a sender has sent.
LEMMA PackedIsPackedBy ==
  ASSUME NEW s, NEW n  PROVE PackedBy(s, n) = Packed(sent[s], n)
BY DEF PackedBy, Packed

\* What is packed adds up, and one more packet at the end changes none of it.
LEMMA PackedGrows ==
  ASSUME NEW packets \in Seq(Packet)
  PROVE  /\ Packed(packets, 0) = 0
         /\ \A n \in 0 .. Len(packets) : Packed(packets, n) \in Nat
         /\ \A n \in 1 .. Len(packets) :
              Packed(packets, n) = Packed(packets, n - 1)
                                     + (Len(packets[n].events)
                                          + Len(packets[n].conflicts))
         /\ \A p \in Packet : \A n \in 0 .. Len(packets) :
              Packed(Append(packets, p), n) = Packed(packets, n)
<1> DEFINE F(t) == Packs!Fold({}, 0, t)
<1>1. \A n : Packed(packets, n) = F(SubSeq(packets, 1, n))
  BY DEF Packed, Packs!Fold, FoldLeft, MapThenFoldSet, Packs!FoldLeft,
         Packs!MapThenFoldSet, Max, Packs!Max
<1>2. Packed(packets, 0) = 0
  <2>1. SubSeq(packets, 1, 0) = <<>>  OBVIOUS
  <2>2. F(<<>>) = 0  BY Packs!FoldEmpty
  <2> QED BY <1>1, <2>1, <2>2
<1>3. ASSUME NEW n \in 0 .. Len(packets)  PROVE Packed(packets, n) \in Nat
  <2>1. SubSeq(packets, 1, n) \in Seq(Packet)  OBVIOUS
  <2>2. \A sum \in Nat, p \in Packet :
          sum + (Len(p.events) + Len(p.conflicts)) \in Nat
    <3> SUFFICES ASSUME NEW sum \in Nat, NEW p \in Packet
                 PROVE  sum + (Len(p.events) + Len(p.conflicts)) \in Nat
      OBVIOUS
    <3>1. p.events \in Seq(Event) /\ p.conflicts \in Seq(Event)  BY DEF Packet
    <3>2. Len(p.events) \in Nat /\ Len(p.conflicts) \in Nat  BY <3>1
    <3>3. \A x, y, z \in Nat : x + (y + z) \in Nat  OBVIOUS
    <3> QED BY <3>2, <3>3, Zenon
  <2>3. F(SubSeq(packets, 1, n)) \in Nat
    BY <2>1, <2>2, Packs!FoldKeeps
  <2> HIDE DEF F
  <2> QED BY <1>1, <2>3
<1>4. ASSUME NEW n \in 1 .. Len(packets)
      PROVE  Packed(packets, n) = Packed(packets, n - 1)
                                    + (Len(packets[n].events)
                                         + Len(packets[n].conflicts))
  <2> DEFINE front == SubSeq(packets, 1, n - 1)
             p == packets[n]
  <2>1. /\ p \in Packet /\ front \in Seq(Packet)
        /\ SubSeq(packets, 1, n) = Append(front, p)
    <3>1. PICK k \in Nat : n = k + 1 /\ k + 1 <= Len(packets)
      <4>1. n - 1 \in Nat /\ n = (n - 1) + 1 /\ (n - 1) + 1 <= Len(packets)
        OBVIOUS
      <4> QED BY <4>1
    <3>2. n - 1 = k  BY <3>1
    <3>3. /\ SubSeq(packets, 1, k) \in Seq(Packet) /\ packets[k + 1] \in Packet
          /\ SubSeq(packets, 1, k + 1)
               = Append(SubSeq(packets, 1, k), packets[k + 1])
      BY <3>1
    <3> QED BY <3>1, <3>2, <3>3
  <2> HIDE DEF front, p
  <2>2. F(Append(front, p)) = F(front) + (Len(p.events) + Len(p.conflicts))
    BY <2>1, Packs!FoldAppend
  <2> HIDE DEF F
  <2> QED BY <1>1, <2>1, <2>2 DEF front, p
<1>5. ASSUME NEW p \in Packet, NEW n \in 0 .. Len(packets)
      PROVE  Packed(Append(packets, p), n) = Packed(packets, n)
  <2>1. SubSeq(Append(packets, p), 1, n) = SubSeq(packets, 1, n)
    OBVIOUS
  <2> QED BY <2>1 DEF Packed
<1> QED BY <1>2, <1>3, <1>4, <1>5

\* The n-th packet of a sender holds the segment of its log that follows those
\* of the packets before, and the segments go up to where the log was cut.
CutInto(log, packets, at) ==
  /\ Faithful(log)
  /\ at = Packed(packets, Len(packets)) /\ at <= Len(log)
  /\ \A n \in DOMAIN packets :
       /\ Packed(packets, n) <= at
       /\ packets[n].events
            = LogEvents(SubSeq(log, Packed(packets, n - 1) + 1,
              Packed(packets, n)))
       /\ packets[n].conflicts
            = Conflicts(SubSeq(log, Packed(packets, n - 1) + 1,
              Packed(packets, n)))
       /\ Closed(SubSeq(log, Packed(packets, n - 1) + 1, Packed(packets, n)))

\* The imported log is the twin of what the sender had when it made the last
\* packet that was applied.
Mirrored(log, packets, seen, imported) ==
  \E R : Twins(R, SubSeq(log, 1, Packed(packets, Len(seen))), imported)

MirrorInv ==
  \A s \in Senders : /\ CutInto(logs[s], sent[s], cut[s])
                     /\ Mirrored(logs[s], sent[s], sync.seen, sync.imported)

\* An edit changes no segment that was cut.
LEMMA EditMirrors ==
  ASSUME NEW log \in Seq(Event), NEW longer \in Longer(log), Faithful(longer),
         NEW packets \in Seq(Packet), NEW at, CutInto(log, packets, at)
  PROVE  /\ CutInto(longer, packets, at)
         /\ \A n \in 0 .. Len(packets) :
              SubSeq(longer, 1, Packed(packets, n))
                = SubSeq(log, 1, Packed(packets, n))
<1>1. /\ longer \in Seq(Event) /\ Len(log) <= Len(longer)
      /\ \A i \in 1 .. Len(log) : longer[i] = log[i]
  <2>1. /\ longer \in Seq(Event) /\ Len(log) <= Len(longer)
        /\ SubSeq(log, 1, Len(log)) = SubSeq(longer, 1, Len(log))
    BY DEF Longer, IsPrefix
  <2>2. \A i \in 1 .. Len(log) : SubSeq(log, 1, Len(log))[i] = log[i]
                                 /\ SubSeq(longer, 1, Len(log))[i] = longer[i]
    BY <2>1
  <2> QED BY <2>1, <2>2
<1>2. ASSUME NEW a \in Nat, NEW b \in Nat, b <= Len(log)
      PROVE  SubSeq(longer, a + 1, b) = SubSeq(log, a + 1, b)
  BY <1>1, <1>2
<1>3. \A n \in 0 .. Len(packets) :
        Packed(packets, n) \in Nat /\ Packed(packets, n) <= Len(log)
  <2>1. \A n \in 0 .. Len(packets) : Packed(packets, n) \in Nat
    BY PackedGrows
  <2>2. \A n \in DOMAIN packets : Packed(packets, n) <= at /\ at <= Len(log)
    BY DEF CutInto
  <2>3. at \in Nat  BY <2>1 DEF CutInto
  <2>4. Packed(packets, 0) = 0  BY PackedGrows
  <2>5. \A n \in 0 .. Len(packets) : n \in DOMAIN packets \/ n = 0
    OBVIOUS
  <2>6. Len(log) \in Nat  OBVIOUS
  <2> QED BY <2>1, <2>2, <2>3, <2>4, <2>5, <2>6
<1>4. ASSUME NEW n \in DOMAIN packets
      PROVE  SubSeq(longer, Packed(packets, n - 1) + 1, Packed(packets, n))
               = SubSeq(log, Packed(packets, n - 1) + 1, Packed(packets, n))
  <2>1. n \in 0 .. Len(packets) /\ n - 1 \in 0 .. Len(packets)  OBVIOUS
  <2> QED BY <1>2, <1>3, <2>1
<1>5. CutInto(longer, packets, at)
  <2>1. at <= Len(longer)
    <3>1. at \in Nat /\ at <= Len(log)
      <4>1. Len(packets) \in 0 .. Len(packets)  OBVIOUS
      <4> QED BY <4>1, PackedGrows DEF CutInto
    <3> QED BY <1>1, <3>1
  <2> QED BY <1>4, <2>1 DEF CutInto
<1>6. ASSUME NEW n \in 0 .. Len(packets)
      PROVE  SubSeq(longer, 1, Packed(packets, n))
               = SubSeq(log, 1, Packed(packets, n))
  <2>1. SubSeq(longer, 0 + 1, Packed(packets, n))
          = SubSeq(log, 0 + 1, Packed(packets, n))
    BY <1>2, <1>3
  <2>2. 0 + 1 = 1  OBVIOUS
  <2> QED BY <2>1, <2>2
<1> QED BY <1>5, <1>6

\* A packet of the events since the last one cuts the log where it ends.
LEMMA PackMirrors ==
  ASSUME NEW log \in Seq(Event), NEW packets \in Seq(Packet), NEW at \in Nat,
         CutInto(log, packets, at),
         NEW to \in Nat, at <= to, to <= Len(log), NEW p \in Packet,
         Closed(SubSeq(log, at + 1, to)),
         p.events = LogEvents(SubSeq(log, at + 1, to)),
         p.conflicts = Conflicts(SubSeq(log, at + 1, to))
  PROVE  CutInto(log, Append(packets, p), to)
<1> DEFINE more == Append(packets, p)
           n == Len(packets)
<1>1. /\ more \in Seq(Packet) /\ n \in Nat /\ Len(more) = n + 1
      /\ DOMAIN more = DOMAIN packets \cup {n + 1}
      /\ more[n + 1] = p /\ n + 1 \in 1 .. Len(more) /\ n \in 0 .. n
      /\ (n + 1) - 1 = n
      /\ \A i \in DOMAIN packets : /\ more[i] = packets[i] /\ i # n + 1
                                   /\ i \in 0 .. n /\ i - 1 \in 0 .. n
  OBVIOUS
<1>2. \A i \in 0 .. n : Packed(more, i) = Packed(packets, i)  BY PackedGrows
<1>3. Packed(more, n + 1) = to
  <2>1. Packed(more, n + 1) = Packed(more, n)
                                + (Len(p.events) + Len(p.conflicts))
    <3> HIDE DEF more, n
    <3> QED BY <1>1, PackedGrows
  <2>2. SubSeq(log, at + 1, to) \in Seq(Event)
        /\ Len(SubSeq(log, at + 1, to)) = to - at
    OBVIOUS
  <2>3. Len(p.events) + Len(p.conflicts) = to - at
    BY <2>2, CutWhole
  <2>4. Packed(more, n) = at  BY <1>1, <1>2 DEF CutInto
  <2> HIDE DEF more, n
  <2> QED BY <2>1, <2>3, <2>4
<1> HIDE DEF more
<1>4. ASSUME NEW i \in DOMAIN more
      PROVE  /\ Packed(more, i) <= to
             /\ more[i].events
                  = LogEvents(SubSeq(log, Packed(more, i - 1) + 1,
                    Packed(more, i)))
             /\ more[i].conflicts
                  = Conflicts(SubSeq(log, Packed(more, i - 1) + 1,
                    Packed(more, i)))
             /\ Closed(SubSeq(log, Packed(more, i - 1) + 1, Packed(more, i)))
  <2>1. CASE i = n + 1
    <3>1. Packed(more, i - 1) = at  BY <1>1, <1>2, <2>1 DEF CutInto
    <3> HIDE DEF n
    <3> QED BY <1>1, <1>3, <2>1, <3>1
  <2>2. CASE i # n + 1
    <3>1. i \in DOMAIN packets /\ more[i] = packets[i]
          /\ Packed(more, i) = Packed(packets, i)
          /\ Packed(more, i - 1) = Packed(packets, i - 1)
      BY <1>1, <1>2, <2>2
    <3>2. Packed(packets, i) <= at /\ Packed(packets, i) \in Nat
      BY <1>1, <3>1, PackedGrows DEF CutInto
    <3> QED BY <3>1, <3>2 DEF CutInto
  <2> QED BY <2>1, <2>2
<1>5. CutInto(log, more, to)  BY <1>1, <1>3, <1>4 DEF CutInto
<1> QED BY <1>5 DEF more

\* An event keeps a log faithful when, if it commits a proposal of the log, it
\* has its text.
LEMMA FaithfulGrows ==
  ASSUME NEW log \in Seq(Event), Faithful(log), NEW longer, NEW type, NEW text,
         NEW c, NEW i \in Nat, Adds(longer, log, type, text, c, i),
         type = "commit" /\ HasProposal(log, i) => log[i].text = text
  PROVE  Faithful(longer)
<1>1. PICK e \in Event : /\ longer = Append(log, e)
                         /\ e.seq = Len(log) + 1 /\ e.type = type
                         /\ e.text = text /\ e.proposalSeq = i
  BY DEF Adds
<1> DEFINE n == Len(log) + 1
<1>2. /\ DOMAIN longer = DOMAIN log \cup {n} /\ longer[n] = e /\ e.seq = n
      /\ \A j \in DOMAIN log : longer[j] = log[j] /\ j \in Nat /\ j < n
      /\ n \notin DOMAIN log /\ \A j \in DOMAIN longer :
           j < n => j \in DOMAIN log
  BY <1>1
<1> HIDE DEF n
<1>3. Numbered(longer)  BY <1>2 DEF Faithful, Numbered
<1>4. ASSUME NEW j \in DOMAIN longer, longer[j].type = "commit",
             longer[j].proposalSeq < j,
               HasProposal(longer, longer[j].proposalSeq)
      PROVE  longer[longer[j].proposalSeq].text = longer[j].text
  <2> DEFINE k == longer[j].proposalSeq
  <2>1. CASE j = n
    <3>1. k = i /\ k \in DOMAIN log /\ longer[k] = log[k] /\ HasProposal(log, i)
      BY <1>1, <1>2, <1>4, <2>1 DEF HasProposal
    <3> QED BY <1>1, <1>2, <1>4, <2>1, <3>1
  <2>2. CASE j # n
    <3>1. j \in DOMAIN log /\ longer[j] = log[j] /\ j \in Nat /\ j < n
      BY <1>2, <2>2
    <3>2. k \in DOMAIN log
      <4>1. log[j].proposalSeq \in Nat
        <5>1. log[j] \in Event  BY <3>1
        <5> QED BY <5>1 DEF Event
      <4>2. k < n /\ k \in DOMAIN longer
        <5>1. n \in Nat  BY DEF n
        <5> QED BY <1>4, <3>1, <4>1, <5>1 DEF HasProposal
      <4> QED BY <1>2, <4>2
    <3>3. longer[k] = log[k] /\ HasProposal(log, k)
      BY <1>2, <1>4, <3>2 DEF HasProposal
    <3> QED BY <1>4, <3>1, <3>3 DEF Faithful
  <2> QED BY <2>1, <2>2
<1> QED BY <1>3, <1>4 DEF Faithful

\* What a sender does to its log keeps it faithful.
LEMMA EditsFaithful ==
  ASSUME IInv, NEW s \in Senders, Faithful(logs[s]),
         Propose(s) \/ Commit(s) \/ Undo(s) \/ Redo(s)
  PROVE  \E log \in Longer(logs[s]) : Faithful(log) /\ EditTo(s, log)
<1>0. logs[s] \in Seq(Event) /\ DOMAIN logs[s] \subseteq Nat
  BY DEF IInv, ChannelTypeOK, TypeOK
<1>1. ASSUME NEW k \in Keys, NEW t \in Texts,
             EditTo(s, AppendProposal(logs[s], k, t))
      PROVE  \E log \in Longer(logs[s]) : Faithful(log) /\ EditTo(s, log)
  <2> DEFINE log == AppendProposal(logs[s], k, t)
  <2>1. log \in Longer(logs[s])  BY <1>0, EditsTyped
  <2>2. Adds(log, logs[s], "proposal", t, 0, 0)  BY <1>0, AppendsAdd
  <2> HIDE DEF log
  <2>3. Faithful(log)  BY <1>0, <2>2, FaithfulGrows
  <2> QED BY <1>1, <2>1, <2>3 DEF log
<1>2. ASSUME NEW i \in DOMAIN logs[s], HasProposal(logs[s], i),
             EditTo(s, CommitProposal(logs[s], i))
      PROVE  \E log \in Longer(logs[s]) : Faithful(log) /\ EditTo(s, log)
  <2> DEFINE log == CommitProposal(logs[s], i)
  <2>1. log \in Longer(logs[s])  BY <1>0, EditsTyped
  <2>2. Adds(log, logs[s], "commit", logs[s][i].text, 0, i)
    BY <1>0, <1>2, AppendsAdd
  <2> HIDE DEF log
  <2>3. Faithful(log)  BY <1>0, <2>2, FaithfulGrows
  <2> QED BY <1>2, <2>1, <2>3 DEF log
<1>3. ASSUME NEW i \in DOMAIN logs[s], EditTo(s, AppendUndo(logs[s], i))
      PROVE  \E log \in Longer(logs[s]) : Faithful(log) /\ EditTo(s, log)
  <2> DEFINE log == AppendUndo(logs[s], i)
  <2>1. log \in Longer(logs[s])  BY <1>0, EditsTyped
  <2>2. Adds(log, logs[s], "undo", NoText, i, 0)  BY <1>0, AppendsAdd
  <2> HIDE DEF log
  <2>3. Faithful(log)  BY <1>0, <2>2, FaithfulGrows
  <2> QED BY <1>3, <2>1, <2>3 DEF log
<1>4. ASSUME NEW i \in DOMAIN logs[s], EditTo(s, AppendRedo(logs[s], i))
      PROVE  \E log \in Longer(logs[s]) : Faithful(log) /\ EditTo(s, log)
  <2> DEFINE log == AppendRedo(logs[s], i)
  <2>1. log \in Longer(logs[s])  BY <1>0, EditsTyped
  <2>2. Adds(log, logs[s], "redo", NoText, i, 0)  BY <1>0, AppendsAdd
  <2> HIDE DEF log
  <2>3. Faithful(log)  BY <1>0, <2>2, FaithfulGrows
  <2> QED BY <1>4, <2>1, <2>3 DEF log
<1> QED BY <1>1, <1>2, <1>3, <1>4 DEF Propose, Commit, Undo, Redo

\* The sender has made every packet that was applied, when there is one sender.
LEMMA OnlySender ==
  ASSUME IInv, NEW s, Senders = {s}
  PROVE  /\ Len(sync.seen) \in 0 .. Len(sent[s])
         /\ \A n \in DOMAIN sync.seen : sync.seen[n] = sent[s][n]
<1>1. sync.seen \in Seq(Packet) /\ sent[s] \in Seq(Packet)
  BY DEF IInv, ChannelTypeOK, TypeOK, PacketsTyped
<1>2. \A n \in DOMAIN sync.seen :
        n \in DOMAIN sent[s] /\ sync.seen[n] = sent[s][n]
  BY DEF IInv, DeliveredInOrder
<1>3. Len(sync.seen) # 0 => Len(sync.seen) \in DOMAIN sync.seen  BY <1>1
<1> QED BY <1>1, <1>2, <1>3

\* At first nothing is cut and nothing imported.
LEMMA InitMirrors ==
  ASSUME Init, \A log \in InitLogs : Faithful(log)
  PROVE  MirrorInv
<1> SUFFICES ASSUME NEW s \in Senders
             PROVE  /\ CutInto(logs[s], sent[s], cut[s])
                    /\ Mirrored(logs[s], sent[s], sync.seen, sync.imported)
  BY DEF MirrorInv
<1> DEFINE none == <<>>
<1>1. /\ logs[s] \in InitLogs /\ logs[s] \in Seq(Event) /\ cut[s] = 0
      /\ sent[s] = none /\ sync.seen = none /\ sync.imported = none
  BY LogsAssumption DEF Init, CreateSyncState
<1>2. none \in Seq(Packet) /\ Len(none) = 0 /\ DOMAIN none = {}  OBVIOUS
<1>3. Twins({}, none, none)  BY TwinsEmpty
<1>4. SubSeq(logs[s], 1, 0) = none /\ 0 <= Len(logs[s])  BY <1>1
<1> HIDE DEF none
<1>5. Packed(none, 0) = 0  BY <1>2, PackedGrows
<1>6. CutInto(logs[s], sent[s], cut[s])
  BY <1>1, <1>2, <1>4, <1>5 DEF CutInto
<1>7. Mirrored(logs[s], sent[s], sync.seen, sync.imported)
  BY <1>1, <1>2, <1>3, <1>4, <1>5 DEF Mirrored
<1> QED BY <1>6, <1>7

\* What the one sender does keeps the imported log a twin.
LEMMA PeerMirrors ==
  ASSUME IInv, MirrorInv, ClosedSegments, NEW s, Senders = {s}, Peer(s)
  PROVE  MirrorInv'
<1> DEFINE n == Len(sync.seen)
<1>0. /\ logs[s] \in Seq(Event) /\ sent[s] \in Seq(Packet) /\ cut[s] \in Nat
      /\ cut \in [Senders -> Nat] /\ sent \in [Senders -> Seq(Packet)]
      /\ logs \in [Senders -> Seq(Event)]
      /\ n \in 0 .. Len(sent[s])
      /\ Len(logs[s]) \in Nat
  BY OnlySender DEF IInv, ChannelTypeOK, TypeOK, PacketsTyped
<1>1. /\ CutInto(logs[s], sent[s], cut[s]) /\ cut[s] <= Len(logs[s])
      /\ Mirrored(logs[s], sent[s], sync.seen, sync.imported)
      /\ Faithful(logs[s])
  BY DEF MirrorInv, CutInto
<1>2. SUFFICES /\ CutInto(logs'[s], sent'[s], cut'[s])
               /\ Mirrored(logs'[s], sent'[s], sync'.seen, sync'.imported)
  BY DEF MirrorInv
<1>3. CASE Propose(s) \/ Commit(s) \/ Undo(s) \/ Redo(s)
  <2>1. PICK log \in Longer(logs[s]) : Faithful(log) /\ EditTo(s, log)
    BY <1>1, <1>3, EditsFaithful
  <2>2. logs'[s] = log /\ UNCHANGED <<sent, cut, sync>>
    BY <1>0, <2>1 DEF EditTo
  <2>3. CutInto(log, sent[s], cut[s])
    BY <1>0, <1>1, <2>1, EditMirrors
  <2>4. SubSeq(log, 1, Packed(sent[s], n))
          = SubSeq(logs[s], 1, Packed(sent[s], n))
    BY <1>0, <1>1, <2>1, EditMirrors
  <2>5. Mirrored(log, sent[s], sync.seen, sync.imported)
    BY <1>1, <2>4 DEF Mirrored
  <2> QED BY <2>2, <2>3, <2>5
<1>4. ASSUME NEW p \in Packet, sent' = [sent EXCEPT ![s] = Append(@, p)],
             NEW to \in Nat, cut[s] <= to, to <= Len(logs[s]), cut'[s] = to,
             Closed(SubSeq(logs[s], cut[s] + 1, to)),
             p.events = LogEvents(SubSeq(logs[s], cut[s] + 1, to)),
             p.conflicts = Conflicts(SubSeq(logs[s], cut[s] + 1, to)),
             UNCHANGED <<logs, sync>>
      PROVE  /\ CutInto(logs'[s], sent'[s], cut'[s])
             /\ Mirrored(logs'[s], sent'[s], sync'.seen, sync'.imported)
  <2>1. sent'[s] = Append(sent[s], p)  BY <1>0, <1>4
  <2>2. CutInto(logs[s], Append(sent[s], p), to)
    BY <1>0, <1>1, <1>4, PackMirrors
  <2>3. Packed(Append(sent[s], p), n) = Packed(sent[s], n)
    BY <1>0, PackedGrows
  <2>4. Mirrored(logs[s], Append(sent[s], p), sync.seen, sync.imported)
    BY <1>1, <2>3 DEF Mirrored
  <2> QED BY <1>4, <2>1, <2>2, <2>4
<1>5. CASE Send(s)
  <2> DEFINE segment == SubSeq(logs[s], cut[s] + 1, Len(logs[s]))
             p == SegmentPacket(s, segment)
  <2>1. segment \in Seq(Event)  BY <1>0
  <2>2. p \in Packet /\ p.events = LogEvents(segment)
        /\ p.conflicts = Conflicts(segment)
    <3> HIDE DEF segment
    <3>1. p \in Packet  BY <2>1, SegmentIsPacket
    <3>2. p.events = LogEvents(segment) /\ p.conflicts = Conflicts(segment)
      BY DEF SegmentPacket, CreatePacket
    <3> QED BY <3>1, <3>2
  <2>3. /\ sent' = [sent EXCEPT ![s] = Append(@, p)]
        /\ cut'[s] = Len(logs[s]) /\ Closed(segment)
        /\ UNCHANGED <<logs, sync>>
    BY <1>0, <1>5 DEF Send
  <2> HIDE DEF p
  <2>4. Len(logs[s]) \in Nat /\ Len(logs[s]) <= Len(logs[s])  BY <1>0
  <2>5. cut[s] <= Len(logs[s])  BY <1>1
  <2> QED BY <1>4, <2>2, <2>3, <2>4, <2>5, Zenon
<1>6. CASE Announce(s)
  <2> DEFINE p == CreatePacket("ACK_RECEIPT", BaseOf[s], s, Local,
                               Len(sent[s]) + 1, <<>>, <<>>)
  <2>1. p \in Packet
    <3>1. Len(sent[s]) + 1 \in Nat /\ "ACK_RECEIPT" \in PacketKinds
      BY <1>0 DEF PacketKinds
    <3>2. BaseOf[s] \in Nat /\ s \in Peers /\ Local \in Peers
      BY BaseAssumption, PeersAssumption
    <3> QED BY <3>1, <3>2 DEF CreatePacket, Packet
  <2>2. p.events = <<>> /\ p.conflicts = <<>>  BY DEF CreatePacket
  <2>3. SubSeq(logs[s], cut[s] + 1, cut[s]) = <<>>  BY <1>0, StretchEmpty
  <2>4. Closed(<<>>)  BY DEF Closed
  <2>5. /\ sent' = [sent EXCEPT ![s] = Append(@, p)]
        /\ cut'[s] = cut[s] /\ UNCHANGED <<logs, sync>>
    BY <1>6 DEF Announce
  <2> HIDE DEF p
  <2>6. /\ Closed(SubSeq(logs[s], cut[s] + 1, cut[s]))
        /\ p.events = LogEvents(SubSeq(logs[s], cut[s] + 1, cut[s]))
        /\ p.conflicts = Conflicts(SubSeq(logs[s], cut[s] + 1, cut[s]))
    BY <2>2, <2>3, <2>4, CutEmpty
  <2>7. cut[s] \in Nat /\ cut[s] <= cut[s] /\ cut[s] <= Len(logs[s])
    BY <1>0, <1>1
  <2> QED BY <1>4, <2>1, <2>5, <2>6, <2>7, Zenon
<1>7. CASE \E i \in DOMAIN sent[s] : Resend(s, i)
  <2>1. UNCHANGED <<logs, sent, cut, sync>>
    BY <1>7 DEF Resend, senderVars
  <2> QED BY <1>1, <2>1
<1> QED BY <1>3, <1>5, <1>6, <1>7 DEF Peer

\* Applying a packet imports the sender's next segment, or nothing.
LEMMA ApplyMirrors ==
  ASSUME IInv, MirrorInv, NEW s, Senders = {s},
         NEW p \in Packet, Genuine(p), Apply(p), UNCHANGED <<logs, cut, sent>>
  PROVE  MirrorInv'
<1>1. CASE ApplyStatus(sync, p) # "applied"
  <2>1. sync' = sync  BY <1>1, NotApplied DEF Apply
  <2> QED BY <2>1 DEF MirrorInv
<1>2. CASE ApplyStatus(sync, p) = "applied"
  <2> DEFINE n == Len(sync.seen)
             log == logs[s]
             packets == sent[s]
             a == Packed(packets, n)
             b == Packed(packets, n + 1)
  <2>0. /\ log \in Seq(Event) /\ packets \in Seq(Packet) /\ n \in Nat
        /\ sync.seen \in Seq(Packet) /\ sync.imported \in Seq(Event)
        /\ DOMAIN sync = {"base", "local", "imported", "seen", "next"}
    BY DEF IInv, ChannelTypeOK, TypeOK, PacketsTyped
  <2>1. /\ sync'.seen = Append(sync.seen, p)
        /\ sync'.imported = ImportPacketEvents(sync.imported, p)
    <3>1. sync' = [sync EXCEPT !.imported = ImportPacketEvents(@, p),
                               !.seen = Append(@, p), !.next = @ + 1]
      BY <1>2 DEF Apply, ApplyPacket
    <3> QED BY <2>0, <3>1
  <2>2. n + 1 \in DOMAIN packets /\ p = packets[n + 1]
    <3>1. PICK i \in DOMAIN sent[s] : p = sent[s][i]
      BY <1>2, AppliedIsNext DEF Genuine
    <3>2. p.sequence = i /\ p.sequence = n + 1
      BY <1>2, <3>1, AppliedIsNext DEF IInv, SentNumbered, DeliveredInOrder
    <3> QED BY <3>1, <3>2
  <2>3. /\ CutInto(log, packets, cut[s])
        /\ Mirrored(log, packets, sync.seen, sync.imported)
    BY DEF MirrorInv
  <2>4. /\ a \in Nat /\ b \in Nat /\ a <= b /\ b <= Len(log)
        /\ (n + 1) - 1 = n
    <3>1. /\ n \in 0 .. Len(packets) /\ n + 1 \in 0 .. Len(packets)
          /\ n + 1 \in 1 .. Len(packets) /\ (n + 1) - 1 = n
          /\ Len(packets) \in 0 .. Len(packets)
      BY <2>0, <2>2
    <3>2. a \in Nat /\ b \in Nat /\ Packed(packets, Len(packets)) \in Nat
      BY <2>0, <3>1, PackedGrows
    <3>3. b = a + (Len(p.events) + Len(p.conflicts))
      BY <2>0, <2>2, <3>1, PackedGrows
    <3>4. Len(p.events) \in Nat /\ Len(p.conflicts) \in Nat
      <4>1. p.events \in Seq(Event) /\ p.conflicts \in Seq(Event)  BY DEF Packet
      <4> QED BY <4>1
    <3>5. b <= cut[s] /\ cut[s] <= Len(log) /\ cut[s] \in Nat
      BY <2>2, <2>3, <3>2 DEF CutInto
    <3>6. Len(log) \in Nat  BY <2>0
    <3>7. \A x, y, z, v \in Nat : v = x + (y + z) => x <= v
      OBVIOUS
    <3>8. \A x, y, z \in Nat : x <= y /\ y <= z => x <= z  OBVIOUS
    <3>9. a <= b  BY <3>2, <3>3, <3>4, <3>7, Zenon
    <3>10. b <= Len(log)  BY <3>2, <3>5, <3>6, <3>8, Zenon
    <3> QED BY <3>1, <3>2, <3>9, <3>10, Zenon
  <2>5. /\ p.events = LogEvents(SubSeq(log, a + 1, b))
        /\ p.conflicts = Conflicts(SubSeq(log, a + 1, b))
        /\ Closed(SubSeq(log, a + 1, b)) /\ Faithful(log)
    BY <2>2, <2>3, <2>4 DEF CutInto
  <2>6. PICK R : Twins(R, SubSeq(log, 1, a), sync.imported)
    BY <2>3 DEF Mirrored
  <2> HIDE DEF a, b
  <2>7. PICK Q : Twins(Q, SubSeq(log, 1, b),
          ImportPacketEvents(sync.imported, p))
    BY <2>0, <2>4, <2>5, <2>6, SegmentImported
  <2>8. Len(sync'.seen) = n + 1  BY <2>0, <2>1
  <2>9. Mirrored(log, packets, sync'.seen, sync'.imported)
    BY <2>1, <2>7, <2>8 DEF Mirrored, b
  <2> QED BY <2>3, <2>9 DEF MirrorInv
<1> QED BY <1>1, <1>2

\* Every step with one sender keeps the imported log a twin.
LEMMA StepMirrors ==
  ASSUME IInv, MirrorInv, ClosedSegments, NEW s, Senders = {s}, [Next]_vars
  PROVE  MirrorInv'
<1>0. /\ carrier \subseteq Packet /\ inbox \in Seq(Packet)
      /\ \A p \in carrier : Genuine(p)
      /\ \A i \in DOMAIN inbox : Genuine(inbox[i])
  BY DEF IInv, ChannelTypeOK, TypeOK, PacketsTyped, NothingForged
<1>1. ASSUME UNCHANGED <<logs, cut, sent, sync>>  PROVE MirrorInv'
  BY <1>1 DEF MirrorInv
<1>2. ASSUME Peer(s)  PROVE MirrorInv'
  BY <1>2, PeerMirrors
<1>3. ASSUME NEW p \in carrier, Lose(p) \/ Damage(p) \/ Receive(p)
      PROVE  MirrorInv'
  <2>1. CASE Lose(p) \/ Damage(p)
    BY <1>1, <2>1 DEF Lose, Damage, senderVars
  <2>2. CASE Receive(p)
    <3>1. Apply(p) /\ UNCHANGED <<logs, cut, sent>>
      BY <2>2 DEF Receive, ReceivePacket, RejectPacket, senderVars
    <3> QED BY <1>0, <3>1, ApplyMirrors
  <2> QED BY <1>3, <2>1, <2>2
<1>4. CASE OpenBundle
  BY <1>1, <1>4 DEF OpenBundle, senderVars
<1>5. CASE ApplyFromBundle
  <2>1. /\ inbox # <<>> /\ Apply(Head(inbox)) /\ UNCHANGED <<logs, cut, sent>>
    BY <1>5 DEF ApplyFromBundle, senderVars
  <2>2. Head(inbox) \in Packet /\ Genuine(Head(inbox))  BY <1>0, <2>1
  <2> QED BY <2>1, <2>2, ApplyMirrors
<1>6. CASE UNCHANGED vars  BY <1>1, <1>6 DEF vars
<1> QED BY <1>2, <1>3, <1>4, <1>5, <1>6 DEF Next

\* With one sender whose segments hold the commits they mask, and which began
\* with a log whose commits are those of its proposals, the imported log
\* replays to what the sender had when it made the last packet that was applied
\* (importPacketEvents, sync_packet.js; replayEditLog, edit_replay.js).
THEOREM Replays ==
  ASSUME NEW s, Senders = {s}, ClosedSegments,
         \A log \in InitLogs : Faithful(log)
  PROVE  Spec => []ReplayEquivalent
<1>1. Init => MirrorInv  BY InitMirrors
<1>2. IInv /\ MirrorInv /\ [Next]_vars => MirrorInv'  BY StepMirrors
<1>3. IInv /\ MirrorInv => ReplayEquivalent
  <2> SUFFICES ASSUME IInv, MirrorInv
               PROVE  ReplayEdits(sync.imported)
                        = ReplayEdits(SubSeq(logs[s], 1,
                                             PackedBy(s, Len(sync.seen))))
    BY DEF ReplayEquivalent
  <2> DEFINE n == Packed(sent[s], Len(sync.seen))
  <2>1. logs[s] \in Seq(Event) /\ sync.imported \in Seq(Event)
    BY DEF IInv, ChannelTypeOK, TypeOK
  <2>2. PICK R : Twins(R, SubSeq(logs[s], 1, n), sync.imported)
    BY DEF MirrorInv, Mirrored
  <2>3. n \in Nat /\ n <= Len(logs[s])
    <3>1. sent[s] \in Seq(Packet) /\ Len(sync.seen) \in 0 .. Len(sent[s])
          /\ Len(sent[s]) \in 0 .. Len(sent[s])
      BY OnlySender DEF IInv, ChannelTypeOK, TypeOK, PacketsTyped
    <3>2. /\ n \in Nat /\ Packed(sent[s], 0) = 0
          /\ Packed(sent[s], Len(sent[s])) \in Nat
      BY <3>1, PackedGrows
    <3>3. CutInto(logs[s], sent[s], cut[s])  BY DEF MirrorInv
    <3>4. Len(sync.seen) = 0 \/ Len(sync.seen) \in DOMAIN sent[s]  BY <3>1
    <3>5. Len(sync.seen) \in DOMAIN sent[s] => n <= cut[s]
      BY <3>3 DEF CutInto
    <3>6. cut[s] <= Len(logs[s]) /\ cut[s] \in Nat /\ Len(logs[s]) \in Nat
      BY <2>1, <3>2, <3>3 DEF CutInto
    <3>7. Len(sync.seen) = 0 => n = 0  BY <3>2
    <3> HIDE DEF n
    <3> QED BY <3>2, <3>4, <3>5, <3>6, <3>7
  <2> HIDE DEF n
  <2>4. SubSeq(logs[s], 1, n) \in Seq(Event)  BY <2>1, <2>3
  <2>5. ReplayEdits(SubSeq(logs[s], 1, n)) = ReplayEdits(sync.imported)
    BY <2>1, <2>2, <2>4, TwinsReplay
  <2> QED BY <2>5, PackedIsPackedBy DEF n
<1> QED BY <1>1, <1>2, <1>3, Invariance, PTL DEF Spec
=============================================================================
