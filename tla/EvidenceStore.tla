---------------------------- MODULE EvidenceStore ----------------------------
(***************************************************************************)
(* The life of stored transport evidence: a log is recorded, checkpoints   *)
(* and compaction bundles are taken of it, parts of what is stored get     *)
(* lost or damaged, and repair payloads supplied by peers restore them.    *)
(* Storage and suppliers are not part of the repository.                   *)
(***************************************************************************)
EXTENDS TransportEvidence

CONSTANTS LogIds,      \* the ids logs may be recorded under
          Recordings,  \* the sequences of transport events that get recorded
          Wrong,       \* an event receipt no event has
          MaxFaults    \* bound: parts lost or damaged

ASSUME FaultsAssumption == MaxFaults \in Nat
\* What gets recorded is a sequence of transport events, and a receipt is the
\* receipt of one event and of no log.
ASSUME RecordingsAssumption ==
  \A events \in Recordings :
    /\ events \in Seq(ToSet(events))
    /\ \A e \in ToSet(events) :
         /\ e = TransportEvent(e.receipt, e.success, e.offer, e.package)
         /\ e.receipt \notin {Wrong, None}
         /\ \A id \in LogIds : e.receipt # CreateLog(id, events).receipt
         /\ \A other \in ToSet(events) : e.receipt = other.receipt => e = other

VARIABLES made,        \* the log as it was recorded
          log,         \* the log as it is stored
          checkpoint,  \* the stored checkpoint, if any
          bundle,      \* the stored compaction bundle, if any
          faults,      \* how many faults there have been
          outcome      \* what the last repairAndReplay returned, if it ran

vars == <<made, log, checkpoint, bundle, faults, outcome>>

Init ==
  /\ \E id \in LogIds, events \in Recordings : log = CreateLog(id, events)
  /\ made = log
  /\ checkpoint = None /\ bundle = None
  /\ faults = 0
  /\ outcome = None

Orders == 0 .. Len(log.entries)   \* one more than there are, to be clamped

TakeCheckpoint ==
  /\ checkpoint = None
  /\ ValidLog(log)
  /\ \E boundary \in Orders : checkpoint' = CreateCheckpoint(log, boundary)
  /\ UNCHANGED <<made, log, bundle, faults, outcome>>

TakeCompaction ==
  /\ checkpoint # None /\ bundle = None
  /\ ValidCheckpoint(checkpoint, log)
  /\ \E to \in Orders : bundle' = CreateCompaction(log, checkpoint, to)
  /\ UNCHANGED <<made, log, checkpoint, faults, outcome>>

----------------------------------------------------------------------------
(* Faults *)

Fault == faults < MaxFaults /\ faults' = faults + 1

DamageEntry(i, entry) ==
  /\ Fault
  /\ log' = [log EXCEPT !.entries[i] = entry]
  /\ UNCHANGED <<made, checkpoint, bundle, outcome>>

LoseEvent(i) == DamageEntry(i, [log.entries[i] EXCEPT !.event = NoEvent])

RewriteEvent(i) == DamageEntry(i, [log.entries[i] EXCEPT !.event.receipt = Wrong])

\* The package an event brought is lost; the event is still there.
LosePackage(i) ==
  DamageEntry(i, [log.entries[i] EXCEPT !.event.package = NoPackage])

BreakChain(i) == DamageEntry(i, [log.entries[i] EXCEPT !.previous = <<Wrong>>])

SpoilBundle ==
  /\ bundle # None
  /\ Fault
  /\ bundle' = [bundle EXCEPT !.intact = FALSE]
  /\ UNCHANGED <<made, log, checkpoint, outcome>>

----------------------------------------------------------------------------
(* Repair.  A supplier answers an issue with what was recorded; it may also *)
(* hold a copy of an event without its package, or with that of another.   *)

RecordedEvent(receipt) ==
  made.entries[RepairedEntry(made, receipt)].event

Answer(issue) ==
  CASE issue.kind = "transport-event" ->
         RepairPayload(issue, "event", RecordedEvent(issue.target))
    [] issue.kind = "transport-log-chain" -> RepairPayload(issue, "log", made)
    [] issue.kind = "compaction-bundle" ->
         RepairPayload(issue, "bundle", CompactionReceipt(bundle))

MixedAnswer(issue, package) ==
  RepairPayload(issue, "event",
                [RecordedEvent(issue.target) EXCEPT !.package = package])

PackagesOf(m) ==
  {m.entries[i].event.package : i \in DOMAIN m.entries} \cup {NoPackage}

Issues == DetectIssues(log, bundle)
Answers == [i \in DOMAIN Issues |-> Answer(Issues[i])]

PayloadsFor(issue) ==
  {Answer(issue), [Answer(issue) EXCEPT !.intact = FALSE]}
    \cup {MixedAnswer(issue, package) :
            package \in IF issue.kind = "transport-event" THEN PackagesOf(made) ELSE {}}

\* applyRepairPayload, and the caller keeps the log it returns.
ApplyRepair(issue) ==
  /\ issue.kind \in {"transport-event", "transport-log-chain"}
  /\ \E p \in PayloadsFor(issue) :
       /\ ValidPayload(p)
       /\ ApplyPayload(log, p).ok
       /\ log' = ApplyPayload(log, p).log
  /\ UNCHANGED <<made, checkpoint, bundle, faults, outcome>>

\* repairAndReplay works on copies: what is stored stays as it is.
Repair(payloads) ==
  /\ outcome' = RepairAndReplay(log, checkpoint, bundle, payloads)
  /\ UNCHANGED <<made, log, checkpoint, bundle, faults>>

Next ==
  \/ TakeCheckpoint \/ TakeCompaction
  \/ \E i \in DOMAIN log.entries :
       LoseEvent(i) \/ RewriteEvent(i) \/ LosePackage(i) \/ BreakChain(i)
  \/ SpoilBundle
  \/ \E i \in DOMAIN Issues : \/ ApplyRepair(Issues[i])
                              \/ \E p \in PayloadsFor(Issues[i]) : Repair(<<p>>)
  \/ Repair(Answers)

Spec == Init /\ [][Next]_vars

----------------------------------------------------------------------------
(* Properties *)

Receipts(l) == [i \in DOMAIN l.entries |-> l.entries[i].eventReceipt]

\* Types of the state.
TypeOK ==
  /\ ValidLog(made)
  /\ Receipts(log) = Receipts(made) /\ log.receipt = made.receipt
  /\ checkpoint # None => checkpoint.boundary \in Nat
  /\ bundle # None => bundle.to \in 0 .. checkpoint.boundary
  /\ faults \in 0 .. MaxFaults

\* A resumed replay matches full replay over the same evidence
\* (docs/PHASE-111, Flow), whatever has happened to the log since the
\* checkpoint: it accepts and rejects the same, or it throws.
ResumeMatchesReplay ==
  (checkpoint # None /\ ResumeReplay(log, checkpoint).ok) =>
    /\ ResumeReplay(log, checkpoint).accepted = Accepted(Processing(log))
    /\ ResumeReplay(log, checkpoint).rejected = Rejected(Processing(log))

\* Evidence nothing has happened to resumes from its checkpoint
\* (docs/PHASE-111, Flow: resume from checkpoint + later log entries).
UndamagedResumes ==
  (faults = 0 /\ checkpoint # None) => ResumeReplay(log, checkpoint).ok

\* A package that was offered for a delivered event of m and came with some
\* event of it is the one that came with it.
PackagesCame(m) ==
  \A i, j \in DOMAIN m.entries :
    LET offered == m.entries[i].event
        package == m.entries[j].event.package
    IN  offered.success /\ offered.offer.packageReceipt = package.receipt
          => offered.package = package

\* What an event of m admits with a package of m.
Admissible(m) ==
  UNION {ProcessTransportEvent(
           [m.entries[i].event EXCEPT !.package = package]).accepted :
             i \in DOMAIN m.entries, package \in PackagesOf(m)}

Admits(o, m) ==
  (o # None /\ o.ok) =>
    /\ o.accepted \subseteq Admissible(m)
    /\ PackagesCame(m) => o.accepted \subseteq Accepted(Processing(m))

\* Repair admits nothing (docs/PHASE-113, Locked rule): every snapshot a repaired
\* replay exposes is one that some event that was recorded admits with a package
\* that was, and where each package came with the events it was offered for, one
\* that the log as it was recorded admits too.
RepairAdmitsNothingNew == Admits(outcome, made)

\* Whatever was damaged and however it was repaired, a log without issues is
\* the recorded one but for the packages of its events.
Bare(entry) == [entry EXCEPT !.event.package = NoPackage]

WholeLogIsRecorded ==
  EventIssues(log) = <<>> /\ ValidLog(log) =>
    \A i \in DOMAIN made.entries : Bare(log.entries[i]) = Bare(made.entries[i])

Complete == /\ checkpoint # None /\ bundle # None
            /\ bundle.logTo = checkpoint.logTo
            /\ checkpoint = CreateCheckpoint(made, checkpoint.boundary)

DistinctEvents == \A i, j \in DOMAIN made.entries :
                    Receipts(made)[i] = Receipts(made)[j] => i = j

OneEventIssue == Len(EventIssues(log)) = 1
                 /\ \A i \in DOMAIN log.entries :
                      log.entries[i].previous = made.entries[i].previous

\* When one event of the log is lost or rewritten, answering everything
\* detectTransportEvidenceIssues reports restores the replay.
OneEventIsRepaired ==
  (faults = 1 /\ Complete /\ DistinctEvents /\ OneEventIssue /\ bundle.intact) =>
    \A i \in DOMAIN Issues :
      Issues[i].kind = "transport-event" =>
        LET repaired == RepairAndReplay(log, checkpoint, bundle, <<Answers[i]>>)
        IN  repaired.ok /\ repaired.accepted = Accepted(Processing(made))

\* A broken chain is repaired by the recorded log, whatever else of the log
\* is lost.
LogPayloadRepairs ==
  (Complete /\ bundle.intact /\ ~ValidLog(log)) =>
    LET whole == Answer(Issue("transport-log-chain", log.receipt))
        repaired == RepairAndReplay(log, checkpoint, bundle, <<whole>>)
    IN  repaired.ok /\ repaired.accepted = Accepted(Processing(made))

\* Answering each reported event with its recorded evidence repairs the log
\* (docs/PHASE-113: requests by missing/corrupt receipt, repair payloads
\* applied, replay path rebuilt), however many were lost.
EventPayloadsRepair ==
  (Complete /\ bundle.intact /\ EventIssues(log) # <<>>
     /\ \A i \in DOMAIN log.entries : log.entries[i].previous = made.entries[i].previous) =>
    RepairAndReplay(log, checkpoint, bundle,
      SelectSeq(Answers, LAMBDA p : p.kind = "transport-event")).ok
=============================================================================
