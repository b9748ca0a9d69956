---------------------------- MODULE SyncChannel ----------------------------
(***************************************************************************)
(* Workbench sync end to end: peers edit their own logs and cut them into  *)
(* numbered packets, carriers (files, barcodes, device links) lose, damage,*)
(* repeat and reorder the packets, and one local peer applies what reaches *)
(* it, one packet at a time or as a bundle file.                           *)
(*                                                                         *)
(* Carriers are not part of the repository: all it has is adapters that    *)
(* read whatever text is there.  A packet on a carrier can therefore be    *)
(* read any number of times, in any order, until the carrier loses it.     *)
(***************************************************************************)
EXTENDS SyncPacket

CONSTANTS Senders,      \* the remote peers
          Local,        \* the peer that applies packets
          Base,         \* receipt of the local base source
          BaseOf,       \* receipt of each sender's base source
          InitLogs,     \* the logs a sender may start from
          MaxEvents,    \* bound: events in each sender's log
          MaxPackets,   \* bound: packets per sender
          ClosedSegments \* whether a segment holds the commits it masks

ASSUME PeersAssumption == Senders \subseteq Peers /\ Local \in Peers \ Senders
ASSUME BaseAssumption == Base \in Nat \ {0} /\ BaseOf \in [Senders -> Nat]
ASSUME LogsAssumption == InitLogs \subseteq Seq(Event)
ASSUME BoundsAssumption == MaxEvents \in [Senders -> Nat] /\ MaxPackets \in Nat
ASSUME DefaultsAssumption ==
  NoKey \notin Keys /\ NoText \notin Texts /\ NoPeer \notin Peers
ASSUME ClosedAssumption == ClosedSegments \in BOOLEAN

VARIABLES logs,    \* the senders' own edit logs
          cut,     \* how many events of its log a sender has packed
          sent,    \* the packets a sender has made, in order
          carrier, \* packets that can be read
          inbox,   \* the packets of a bundle file still to be applied
          sync,    \* the local peer's sync state
          asked    \* the request the last applyPacket emitted, and for what packet

vars == <<logs, cut, sent, carrier, inbox, sync, asked>>
senderVars == <<logs, cut, sent>>

NoPacket == CreatePacket("unknown", 0, Local, Local, 0, <<>>, <<>>)
NoRequest == [packet |-> NoPacket, emitted |-> NoPacket]

Init ==
  /\ logs \in [Senders -> InitLogs]
  /\ cut = [s \in Senders |-> 0]
  /\ sent = [s \in Senders |-> <<>>]
  /\ carrier = {}
  /\ inbox = <<>>
  /\ sync = CreateSyncState(Base, Local)
  /\ asked = NoRequest

----------------------------------------------------------------------------
(* A sender edits *)

EditTo(s, log) ==
  /\ Len(logs[s]) < MaxEvents[s]
  /\ logs' = [logs EXCEPT ![s] = log]
  /\ UNCHANGED <<cut, sent, carrier, inbox, sync, asked>>

Propose(s) == \E k \in Keys, t \in Texts : EditTo(s, AppendProposal(logs[s], k, t))

Commit(s) == \E i \in DOMAIN logs[s] :
               HasProposal(logs[s], i) /\ EditTo(s, CommitProposal(logs[s], i))

\* The callers undo and redo commits they hold the number of.
Undo(s) == \E i \in DOMAIN logs[s] :
             logs[s][i].type = "commit" /\ EditTo(s, AppendUndo(logs[s], i))
Redo(s) == \E i \in DOMAIN logs[s] :
             logs[s][i].type = "commit" /\ EditTo(s, AppendRedo(logs[s], i))

----------------------------------------------------------------------------
(* A sender packs the events since its last packet: conflicts travel apart *)
(* from the other events, and a segment with conflicts is a merge segment. *)

IsConflict(e) == e.type = "conflict"
Conflicts(segment) ==
  Subsequence(segment, {i \in DOMAIN segment : IsConflict(segment[i])})
LogEvents(segment) ==
  Subsequence(segment, {i \in DOMAIN segment : ~IsConflict(segment[i])})

Closed(segment) ==
  \A i \in DOMAIN segment :
     segment[i].type \in {"undo", "redo"} =>
        \E j \in DOMAIN segment : segment[j].seq = segment[i].commitSeq

SegmentPacket(s, segment) ==
  CreatePacket(IF Conflicts(segment) = <<>> THEN "EDIT_LOG_SEGMENT"
                                            ELSE "MERGE_LOG_SEGMENT",
               BaseOf[s], s, Local, Len(sent[s]) + 1,
               LogEvents(segment), Conflicts(segment))

Send(s) ==
  LET segment == SubSeq(logs[s], cut[s] + 1, Len(logs[s]))
      p       == SegmentPacket(s, segment)
  IN  /\ Len(sent[s]) < MaxPackets
      /\ cut[s] < Len(logs[s])
      /\ ClosedSegments => Closed(segment)
      /\ cut' = [cut EXCEPT ![s] = Len(logs[s])]
      /\ sent' = [sent EXCEPT ![s] = Append(@, p)]
      /\ carrier' = carrier \cup {p}
      /\ UNCHANGED <<logs, inbox, sync, asked>>

\* Packets without events (an acknowledgement, a base receipt, a request) are
\* numbered and applied like any other.
Announce(s) ==
  LET p == CreatePacket("ACK_RECEIPT", BaseOf[s], s, Local, Len(sent[s]) + 1,
                        <<>>, <<>>)
  IN  /\ Len(sent[s]) < MaxPackets
      /\ sent' = [sent EXCEPT ![s] = Append(@, p)]
      /\ carrier' = carrier \cup {p}
      /\ UNCHANGED <<logs, cut, inbox, sync, asked>>

----------------------------------------------------------------------------
(* The carriers *)

Resend(s, i) ==
  /\ i \in DOMAIN sent[s]
  /\ sent[s][i] \notin carrier
  /\ carrier' = carrier \cup {sent[s][i]}
  /\ UNCHANGED <<senderVars, inbox, sync, asked>>

Lose(p) == /\ carrier' = carrier \ {p}
           /\ UNCHANGED <<senderVars, inbox, sync, asked>>

Damage(p) == /\ carrier' = (carrier \ {p}) \cup {Damaged(p)}
             /\ UNCHANGED <<senderVars, inbox, sync, asked>>

----------------------------------------------------------------------------
(* The local peer.  applyPacket never throws, and unless the packet is      *)
(* applied nothing changes; a missing segment is asked for in the result.  *)

Apply(p) ==
  /\ sync' = ApplyPacket(sync, p)
  /\ asked' = IF ApplyStatus(sync, p) = "missing-sequence"
              THEN [packet |-> p, emitted |-> RequestMissingSegment(sync, p)]
              ELSE NoRequest

\* applyPacketFile and applyDecodedEnvelope decode first and throw on an
\* invalid packet, which leaves the sync state as it was.
ReceivePacket(p) ==
  /\ ValidPacket(p, Base)
  /\ Apply(p)
  /\ UNCHANGED <<senderVars, carrier, inbox>>

\* applyPacket called directly on an invalid packet rejects it.
RejectPacket(p) ==
  /\ ~ValidPacket(p, Base)
  /\ Apply(p)
  /\ UNCHANGED <<senderVars, carrier, inbox>>

\* applySyncLogFile validates the whole bundle, then applies every packet of
\* it in file order whatever became of the ones before.
OpenBundle ==
  /\ \E p, q \in carrier :
       /\ ValidPacket(p, Base) /\ ValidPacket(q, Base)
       /\ inbox' = <<p, q>>
  /\ UNCHANGED <<senderVars, carrier, sync, asked>>

ApplyFromBundle ==
  /\ inbox # <<>>
  /\ Apply(Head(inbox))
  /\ inbox' = Tail(inbox)
  /\ UNCHANGED <<senderVars, carrier>>

Receive(p) == ReceivePacket(p) \/ RejectPacket(p)

Peer(s) == \/ Propose(s) \/ Commit(s) \/ Undo(s) \/ Redo(s)
           \/ Send(s) \/ Announce(s) \/ \E i \in DOMAIN sent[s] : Resend(s, i)

\* The loop over a bundle is synchronous: what others do meanwhile is as if
\* they had done it before or after.
Next ==
  \/ /\ inbox = <<>>
     /\ \/ \E s \in Senders : Peer(s)
        \/ \E p \in carrier : Lose(p) \/ Damage(p) \/ Receive(p)
        \/ OpenBundle
  \/ ApplyFromBundle

Spec == Init /\ [][Next]_vars

\* What the callers and carriers must do for sync to make progress, none of
\* which the repository does itself: a packet that was lost is offered again
\* (the answer to a missing-segment request), a packet that keeps being
\* offered is read in the end, and a bundle once opened is applied to its end
\* (the loop that applies it is synchronous).
ReceiveNext(s) == /\ inbox = <<>>
                  /\ sync.next \in DOMAIN sent[s]
                  /\ sent[s][sync.next] \in carrier
                  /\ ReceivePacket(sent[s][sync.next])

FairSpec ==
  /\ Spec
  /\ \A s \in Senders : /\ \A i \in 1 .. MaxPackets : WF_vars(Resend(s, i))
                        /\ SF_vars(ReceiveNext(s))
  /\ WF_vars(ApplyFromBundle)

----------------------------------------------------------------------------
(* Properties *)

PacketsTyped ==
  /\ sent \in [Senders -> Seq(Packet)]
  /\ carrier \subseteq Packet
  /\ inbox \in Seq(Packet)
  /\ sync.seen \in Seq(Packet)
  /\ sync.next \in Nat \ {0}
  /\ sync.base = Base /\ sync.local = Local

\* Types of the state.
TypeOK ==
  /\ logs \in [Senders -> Seq(Event)]
  /\ cut \in [Senders -> Nat]
  /\ PacketsTyped
  /\ sync.imported \in Seq(Event)

\* Exactly once and in order: the n-th packet applied is the packet numbered
\* n of a sender with the same base, as that sender made it, whatever the
\* carriers did to the packets and however often they were read.
DeliveredInOrder ==
  /\ sync.next = Len(sync.seen) + 1
  /\ \A n \in DOMAIN sync.seen :
       \E s \in Senders : /\ BaseOf[s] = Base
                          /\ n \in DOMAIN sent[s]
                          /\ sync.seen[n] = sent[s][n]

\* The imported log is what the applied packets alone make of an empty log:
\* a rejected, repeated or early packet leaves no trace in it.
ImportedFromSeen ==
  sync.imported = FoldLeft(ImportPacketEvents, <<>>, sync.seen)

\* How much of its log sender s had packed when packet n was made.
PackedBy(s, n) ==
  LET Size(p) == Len(p.events) + Len(p.conflicts)
  IN  FoldLeft(LAMBDA sum, p : sum + Size(p), 0, SubSeq(sent[s], 1, n))

\* With one sender whose segments hold the commits they mask, replaying the
\* imported log gives the edits the sender itself saw when it made the last
\* applied packet ("replay-equivalent reconstruction from applied packets",
\* docs/PHASE-50, Acceptance Surface).
ReplayEquivalent ==
  \A s \in Senders :
     ReplayEdits(sync.imported)
       = ReplayEdits(SubSeq(logs[s], 1, PackedBy(s, Len(sync.seen))))

\* A peer imports undo and redo as mask events (docs/PHASE-50, Import Law):
\* as many as the packets it applied held.
MasksIn(seq) == Len(SelectSeq(seq, LAMBDA e : e.type \in {"undo", "redo"}))
MasksImported ==
  MasksIn(sync.imported)
    = FoldLeft(LAMBDA sum, p : sum + MasksIn(p.events), 0, sync.seen)

\* A request asks the source of a valid packet for the one sequence the local
\* peer waits for; a packet that was applied before never provokes one.
RequestsNameTheGap ==
  asked # NoRequest =>
    /\ asked.emitted.sequence = sync.next
    /\ asked.emitted.target = asked.packet.source
    /\ asked.packet.sequence # sync.next
    /\ ~Seen(sync, asked.packet)

\* The imported log and the list of applied packets only ever grow, and they
\* grow together.
AppendOnly ==
  [][ /\ IsPrefix(sync.imported, sync'.imported)
      /\ IsPrefix(sync.seen, sync'.seen)
      /\ sync.imported # sync'.imported => sync.seen # sync'.seen ]_sync

\* Every packet of a sender with the local base is applied in the end,
\* although carriers may lose, damage, repeat and reorder packets and another
\* peer, with another base, sends its own.
EventuallyApplied ==
  \A s \in {peer \in Senders : BaseOf[peer] = Base} : \A n \in 1 .. MaxPackets :
     n \in DOMAIN sent[s] ~> /\ n \in DOMAIN sync.seen \cap DOMAIN sent[s]
                             /\ sync.seen[n] = sent[s][n]

Delivery == INSTANCE OrderedDelivery
              WITH published <- sent, delivered <- sync.seen

\* The channel implements ordered delivery.
ImplementsDelivery == Delivery!Spec
=============================================================================
