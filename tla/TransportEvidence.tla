-------------------------- MODULE TransportEvidence --------------------------
(***************************************************************************)
(* Transport evidence: the replay log of transport events, its checkpoint, *)
(* the compaction bundle over it, and the repair of what was lost          *)
(* (autonomous_world_transport_replay, _checkpoint, _compaction, _repair). *)
(*                                                                         *)
(* A receipt is a hash; it is modelled by what is hashed, so receipts are  *)
(* equal exactly when their contents are.  The receipt of a checkpoint, a  *)
(* bundle or a payload covers all of it: "intact" says it still matches.   *)
(***************************************************************************)
EXTENDS PeerExchange, SequencesExt

CONSTANT NoId       \* no log_id given

----------------------------------------------------------------------------
(* The replay log.  Without a log_id its entries are named after           *)
(* "transport.replay" and the log "transport.replay.fixture".              *)

EntryPrefix(id) == IF id = NoId THEN "transport.replay" ELSE id
LogName(id) == IF id = NoId THEN "transport.replay.fixture" ELSE id

EntryReceipt(entry) == <<entry.prefix, entry.order, entry.eventReceipt, entry.previous>>
LogReceipt(entries) == [i \in DOMAIN entries |-> entries[i].receipt]

Previous(entries, i) == IF i = 1 THEN <<>> ELSE entries[i - 1].receipt

\* The entry a log that has some gets for the next event.
NextEntry(id, entries, event) ==
  LET n     == Len(entries)
      entry == [prefix |-> EntryPrefix(id), order |-> n,
                eventReceipt |-> event.receipt,
                previous |-> Previous(entries, n + 1),
                event |-> event, receipt |-> <<>>]
  IN  [entry EXCEPT !.receipt = EntryReceipt(entry)]

CreateLog(id, events) ==
  LET Add(entries, event) == Append(entries, NextEntry(id, entries, event))
      entries == FoldLeft(Add, <<>>, events)
  IN  [name |-> LogName(id), entries |-> entries, receipt |-> LogReceipt(entries)]

\* Fault: the chain of entry receipts is not followed.
ValidLogUnchained(log) ==
  /\ \A i \in DOMAIN log.entries :
       /\ log.entries[i].order = i - 1
       /\ log.entries[i].eventReceipt = log.entries[i].event.receipt
  /\ log.receipt = LogReceipt(log.entries)

\* verifyTransportReplayLog does not throw.
ValidLog(log) ==
  /\ \A i \in DOMAIN log.entries :
       LET entry == log.entries[i]
       IN  /\ entry.order = i - 1
           /\ entry.previous = Previous(log.entries, i)
           /\ entry.eventReceipt = entry.event.receipt
           /\ entry.receipt = EntryReceipt(entry)
  /\ log.receipt = LogReceipt(log.entries)

EventsOf(log, from, to) ==
  [i \in 1 .. (to - from + 1) |-> log.entries[from + i - 1].event]

\* replayTransportLog of a valid log: what each event does, in log order.
Processing(log) ==
  [i \in DOMAIN log.entries |-> ProcessTransportEvent(log.entries[i].event)]

Accepted(processing) == UNION {processing[i].accepted : i \in DOMAIN processing}

\* The receipts of the events that were not accepted, as often as they occur.
Rejected(processing) ==
  LET rejected == {i \in DOMAIN processing : ~processing[i].exchange.accepted}
  IN  [r \in {processing[i].event : i \in rejected} |->
         Cardinality({i \in rejected : processing[i].event = r})]

----------------------------------------------------------------------------
(* Checkpoints *)

Clamp(n, high) == IF n > high THEN high ELSE n

CreateCheckpoint(log, boundary) ==
  LET n == Len(log.entries)
      last == Clamp(boundary, IF n = 0 THEN 0 ELSE n - 1)
      covered == SubSeq(Processing(log), 1, Clamp(last + 1, n))
      EntryAt(i) == IF n = 0 THEN None ELSE log.entries[i].receipt
  IN  [boundary |-> last, logFrom |-> EntryAt(1), logTo |-> EntryAt(last + 1),
       accepted |-> Accepted(covered), rejected |-> Rejected(covered),
       processing |-> covered, intact |-> TRUE]

ValidCheckpoint(checkpoint, log) ==
  /\ ValidLog(log)
  /\ checkpoint.boundary < Len(log.entries)
  /\ checkpoint.logFrom = log.entries[1].receipt
  /\ checkpoint.logTo = log.entries[checkpoint.boundary + 1].receipt
  /\ checkpoint.intact

\* Faults: the summary of the checkpoint is trusted, or the prefix stops short of
\* its boundary.
ResumeReplayTrusting(log, checkpoint) ==
  LET n      == Len(log.entries)
      prefix == CreateLog(log.name, EventsOf(log, 1, checkpoint.boundary + 1))
      tail   == CreateLog(<<"tail", checkpoint>>,
                          EventsOf(log, checkpoint.boundary + 2, n))
      both   == Processing(prefix) \o Processing(tail)
  IN  IF ValidCheckpoint(checkpoint, log)
      THEN [ok |-> TRUE, accepted |-> Accepted(both),
            rejected |-> checkpoint.rejected (+) Rejected(Processing(tail))]
      ELSE [ok |-> FALSE]
ResumeReplayShort(log, checkpoint) ==
  LET n      == Len(log.entries)
      prefix == CreateLog(log.name, EventsOf(log, 1, checkpoint.boundary))
      tail   == CreateLog(<<"tail", checkpoint>>,
                          EventsOf(log, checkpoint.boundary + 1, n))
      both   == Processing(prefix) \o Processing(tail)
  IN  IF /\ ValidCheckpoint(checkpoint, log)
         /\ CreateCheckpoint(prefix, checkpoint.boundary) = checkpoint
      THEN [ok |-> TRUE, accepted |-> Accepted(both),
            rejected |-> checkpoint.rejected (+) Rejected(Processing(tail))]
      ELSE [ok |-> FALSE]

\* resumeTransportReplay: the prefix is replayed again under the log's name
\* and its summary must come out as the checkpoint has it; what the result
\* accepts is what the replays of prefix and tail accept.
ResumeReplay(log, checkpoint) ==
  LET n      == Len(log.entries)
      prefix == CreateLog(log.name, EventsOf(log, 1, checkpoint.boundary + 1))
      tail   == CreateLog(<<"tail", checkpoint>>,
                          EventsOf(log, checkpoint.boundary + 2, n))
      both   == Processing(prefix) \o Processing(tail)
  IN  IF /\ ValidCheckpoint(checkpoint, log)
         /\ CreateCheckpoint(prefix, checkpoint.boundary) = checkpoint
      THEN [ok |-> TRUE, accepted |-> Accepted(both),
            rejected |-> checkpoint.rejected (+) Rejected(Processing(tail))]
      ELSE [ok |-> FALSE]

----------------------------------------------------------------------------
(* Compaction *)

\* Fault: the bundle may reach beyond the checkpoint.
CreateCompactionBeyond(log, checkpoint, to) ==
  LET last    == Clamp(to, Len(log.entries) - 1)
      entries == SubSeq(log.entries, 1, last + 1)
  IN  [to |-> last, logReceipt |-> log.receipt,
       logFrom |-> entries[1].receipt, logTo |-> entries[last + 1].receipt,
       checkpoint |-> checkpoint,
       entryReceipts |-> LogReceipt(entries),
       eventReceipts |-> [i \in DOMAIN entries |-> entries[i].eventReceipt],
       accepted |-> checkpoint.accepted, rejected |-> checkpoint.rejected,
       intact |-> TRUE]

CreateCompaction(log, checkpoint, to) ==
  LET last    == Clamp(to, checkpoint.boundary)
      entries == SubSeq(log.entries, 1, last + 1)
  IN  [to |-> last, logReceipt |-> log.receipt,
       logFrom |-> entries[1].receipt, logTo |-> entries[last + 1].receipt,
       checkpoint |-> checkpoint,
       entryReceipts |-> LogReceipt(entries),
       eventReceipts |-> [i \in DOMAIN entries |-> entries[i].eventReceipt],
       accepted |-> checkpoint.accepted, rejected |-> checkpoint.rejected,
       intact |-> TRUE]

\* The receipt a bundle carries, whether or not it still matches.
CompactionReceipt(bundle) == [bundle EXCEPT !.intact = TRUE]

ValidCompaction(bundle, log) ==
  LET entries == SubSeq(log.entries, 1, bundle.to + 1)
  IN  /\ bundle.intact
      /\ ValidLog(log)
      /\ bundle.to < Len(log.entries)
      /\ bundle.logReceipt = log.receipt
      /\ bundle.logFrom = entries[1].receipt
      /\ bundle.logTo = entries[bundle.to + 1].receipt
      /\ bundle.entryReceipts = LogReceipt(entries)
      /\ bundle.eventReceipts = [i \in DOMAIN entries |-> entries[i].eventReceipt]

ResumeAfterCompaction(log, bundle, checkpoint) ==
  IF /\ ValidLog(log) /\ ValidCompaction(bundle, log)
     /\ ValidCheckpoint(checkpoint, log)
     /\ bundle.checkpoint = checkpoint
     /\ bundle.logTo = checkpoint.logTo
  THEN ResumeReplay(log, checkpoint)
  ELSE [ok |-> FALSE]

----------------------------------------------------------------------------
(* Repair *)

NoEvent == TransportEvent(None, FALSE, None, NoPackage)

Issue(kind, target) == [kind |-> kind, target |-> target]

\* detectTransportEvidenceIssues: events that are missing or have another
\* receipt, then a broken log, then a broken bundle.
EventIssues(log) ==
  LET Add(issues, e) ==
        IF e.event.receipt = e.eventReceipt THEN issues
        ELSE Append(issues, Issue("transport-event", e.eventReceipt))
  IN  FoldLeft(Add, <<>>, log.entries)

DetectIssues(log, bundle) ==
  EventIssues(log)
    \o (IF ValidLog(log) THEN <<>> ELSE <<Issue("transport-log-chain", log.receipt)>>)
    \o (IF bundle = None \/ ValidCompaction(bundle, log) THEN <<>>
        ELSE <<Issue("compaction-bundle", CompactionReceipt(bundle))>>)

\* The receipt repair goes by.  A bundle has a log receipt among its fields
\* and that is the one taken.
EvidenceReceipt(form, evidence) ==
  CASE form \in {"event", "log"} -> evidence.receipt
    [] form = "bundle"           -> evidence.logReceipt

\* A repair payload: what is to be replaced, by what, and the receipt the
\* replacement carries.
RepairPayload(issue, form, evidence) ==
  [kind |-> issue.kind, target |-> issue.target, evidence |-> evidence,
   receipt |-> EvidenceReceipt(form, evidence), intact |-> TRUE]

ValidPayload(p) ==
  /\ p.intact
  /\ p.kind \in {"transport-event", "transport-log-chain", "compaction-bundle"}
       => p.receipt = p.target
  /\ p.kind = "transport-log-chain" => ValidLog(p.evidence)

\* Fault: the entry is looked for by the event it still has.
RepairedEntryByEvent(log, target) ==
  SelectInSeq(log.entries, LAMBDA e : e.event.receipt = target)

\* The entry a repaired event goes to: the first with that event receipt.
RepairedEntry(log, target) ==
  SelectInSeq(log.entries, LAMBDA e : e.eventReceipt = target)

\* applyRepairPayload to a log; the log must be whole once the event is in.
ApplyPayload(log, p) ==
  LET i == RepairedEntry(log, p.target)
      repaired == [log EXCEPT !.entries[i].event = p.evidence]
  IN  IF p.kind = "transport-log-chain" THEN [ok |-> TRUE, log |-> p.evidence]
      ELSE IF i # 0 /\ ValidLog(repaired) THEN [ok |-> TRUE, log |-> repaired]
      ELSE [ok |-> FALSE, log |-> log]

\* repairAndReplay: every payload in turn, then nothing may be left broken,
\* then the replay is resumed.  Bundles and logs are replaced separately.
RepairStep(evidence, p) ==
  IF ~evidence.ok THEN evidence
  ELSE IF p.kind \in {"transport-event", "transport-log-chain"}
  THEN LET applied == ApplyPayload(evidence.log, p)
       IN  [evidence EXCEPT !.ok = applied.ok, !.log = applied.log]
  ELSE IF p.kind = "compaction-bundle" THEN [evidence EXCEPT !.bundle = p.evidence]
  ELSE evidence

RepairAndReplay(log, checkpoint, bundle, payloads) ==
  LET start == [ok |-> \A i \in DOMAIN payloads : ValidPayload(payloads[i]),
                log |-> log, bundle |-> bundle]
      end   == FoldLeft(RepairStep, start, payloads)
  IN  IF /\ end.ok
         /\ checkpoint # None /\ end.bundle # None
         /\ DetectIssues(end.log, end.bundle) = <<>>
      THEN ResumeAfterCompaction(end.log, end.bundle, checkpoint)
      ELSE [ok |-> FALSE]
=============================================================================
