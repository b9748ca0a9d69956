-------------------------- MODULE EvidenceRequests --------------------------
(***************************************************************************)
(* Asking peers for lost evidence: what is required is classified          *)
(* (autonomous_world_transport_availability.js), requests are ordered and  *)
(* cut (autonomous_world_transport_request_scheduler.js), payloads arrive  *)
(* in any order, also for an older schedule, and the plan is executed on   *)
(* the evidence there is by then.                                          *)
(*                                                                         *)
(* Receipts are hashes: in which order two of them sort is anybody's guess.*)
(***************************************************************************)
EXTENDS EvidenceStore, Integers

CONSTANTS Policies,      \* the policies requests are scheduled under
          MaxPayloads,   \* bound: payloads that have arrived
          Requested,     \* bound: the recordings that requests are made for
          RequestFaults  \* bound: faults while requests are out

\* A policy ranks statuses and cuts at a number, or not at all.
ASSUME PoliciesAssumption ==
  \A policy \in Policies : /\ policy.order \in Seq(STRING)
                           /\ policy.max = None \/ policy.max \in Int

VARIABLES schedule,      \* the current request schedule, if any
          inbox          \* the payloads that have arrived, in order

requestVars == <<schedule, inbox>>
allVars == <<vars, requestVars>>
-----------------------------------------------------------------------------
(* Availability. *)

\* The receipts of what is held: the events under the receipts they carry,
\* and the log, whatever has become of its entries.
Inventory == ({log.entries[i].event.receipt : i \in DOMAIN log.entries}
                \ {NoEvent.receipt}) \cup {log.receipt}

EventReceipts == {log.entries[i].eventReceipt : i \in DOMAIN log.entries}

\* evidenceKind, and "unknown" for what is not there.
KindOf(receipt) == CASE receipt \notin Inventory -> "unknown"
                     [] receipt = log.receipt    -> "transport-log"
                     [] OTHER                    -> "transport-event"

\* classifyEvidence, and createAvailabilityReport's repairable.
Status(receipt, corrupt, supplied) ==
  LET found == receipt \in Inventory
  IN  IF found /\ receipt \notin corrupt THEN "available"
      ELSE IF receipt \in supplied THEN "repairable"
      ELSE IF found THEN "corrupt" ELSE "missing"

Report(required, corrupt, supplied) ==
  {[target |-> r, kind |-> KindOf(r), status |-> Status(r, corrupt, supplied),
    supplied |-> r \in supplied] : r \in required}
-----------------------------------------------------------------------------
(* Scheduling. *)

\* Fault: what the order does not name comes first, as indexOf has it.
PriorityForIndex(status, policy) == SelectInSeq(policy.order, LAMBDA s : s = status)

\* priorityFor: what the order does not name comes last.
PriorityFor(status, policy) ==
  LET i == SelectInSeq(policy.order, LAMBDA s : s = status)
  IN  IF i = 0 THEN Len(policy.order) + 1 ELSE i

\* needs.slice(0, max_requests), which counts a negative number from the end.
Limited(needs, max) ==
  IF max = None THEN needs
  ELSE SubSeq(needs, 1, IF max < 0 THEN Len(needs) + max
                        ELSE IF max < Len(needs) THEN max ELSE Len(needs))

\* The orders createRequestSchedule may put the needs in: by priority, and by
\* receipt where that is the same.
Orderings(needs, policy) ==
  {o \in SetToSeqs(needs) :
     \A i, j \in DOMAIN o :
       i < j => PriorityFor(o[i].status, policy) <= PriorityFor(o[j].status, policy)}

RequestSchedules(report, policy) ==
  LET needs == {record \in report : record.status # "available"}
  IN  {[requests |-> Limited(o, policy.max), needs |-> needs, policy |-> policy] :
         o \in Orderings(needs, policy)}

Unsatisfied(s) == {r \in Range(s.requests) : ~r.supplied}

\* Fault: the payload that came last is taken.
FirstPayloadOfLast(target, payloads) ==
  LET mine == SelectSeq(payloads, LAMBDA p : p.target = target)
  IN  IF mine = <<>> THEN <<>> ELSE <<Last(mine)>>

\* payloads.find: the first for a target, or none.
FirstPayload(target, payloads) ==
  LET i == SelectInSeq(payloads, LAMBDA p : p.target = target)
  IN  IF i = 0 THEN <<>> ELSE <<payloads[i]>>

\* The kind a plan asks for: what is not there counts as an event.
RequestKind(request) ==
  IF request.kind = "unknown" THEN "transport-event" ELSE request.kind

\* buildScheduledRepairPlan: the payloads of its actions, request by request.
ScheduledPayloads(s, payloads) ==
  LET Add(found, request) == found \o FirstPayload(request.target, payloads)
  IN  FoldLeft(Add, <<>>, s.requests)

\* buildRepairPlan: the same of the report's repairable records alone.
PlannedPayloads(s, payloads) ==
  ScheduledPayloads([s EXCEPT !.requests =
    SetToSeq({r \in s.needs : r.status = "repairable"})], payloads)

\* executeScheduledRepair and executeRepairPlan.
Executed(payloads) == RepairAndReplay(log, checkpoint, bundle, payloads)
-----------------------------------------------------------------------------
(* The system: the store of EvidenceStore, and requests. *)

InitRequests == Init /\ schedule = None /\ inbox = <<>>

\* createAvailabilityReport and createRequestSchedule. Everything the log
\* names is required; what is said to be corrupt and who says to have what is
\* taken as it is given.
MakeSchedule ==
  /\ schedule = None
  /\ checkpoint # None /\ bundle # None
  /\ faults <= RequestFaults
  /\ [i \in DOMAIN made.entries |-> made.entries[i].event] \in Requested
  /\ \E corrupt, supplied \in SUBSET (EventReceipts \cup {log.receipt}),
        policy \in Policies :
       /\ Cardinality(corrupt) <= 1
       /\ LET report == Report(EventReceipts \cup {log.receipt}, corrupt, supplied)
          IN  schedule' \in RequestSchedules(report, policy)
  /\ UNCHANGED <<vars, inbox>>

\* What a supplier sends for a request: the recorded evidence, that of
\* another event, or a payload the carrier damaged.
SuppliedFor(request) ==
  LET issue == Issue(RequestKind(request), request.target)
      whole == IF request.target = made.receipt
               THEN RepairPayload(issue, "log", made)
               ELSE RepairPayload(issue, "event", RecordedEvent(request.target))
  IN  {whole, [whole EXCEPT !.intact = FALSE]}
        \cup {[whole EXCEPT !.evidence = made.entries[i].event,
                            !.receipt = made.entries[i].event.receipt] :
                i \in IF request.target = made.receipt THEN {} ELSE DOMAIN made.entries}

Supply(request) ==
  /\ request.supplied
  /\ Len(inbox) < MaxPayloads
  /\ \E p \in SuppliedFor(request) : inbox' = Append(inbox, p)
  /\ UNCHANGED <<vars, schedule>>

\* The schedule is executed with what has arrived, and is done with.
ExecuteScheduledRepair ==
  /\ schedule # None
  /\ outcome' = Executed(ScheduledPayloads(schedule, inbox))
  /\ schedule' = None
  /\ UNCHANGED <<made, log, checkpoint, bundle, faults, inbox>>

ExecuteRepairPlan ==
  /\ schedule # None
  /\ outcome' = Executed(PlannedPayloads(schedule, inbox))
  /\ schedule' = None
  /\ UNCHANGED <<made, log, checkpoint, bundle, faults, inbox>>

NextRequests ==
  \/ Next /\ (requestVars # <<None, <<>>>> => faults' <= RequestFaults) /\ UNCHANGED requestVars
  \/ MakeSchedule
  \/ schedule # None /\ \E r \in Range(schedule.requests) : Supply(r)
  \/ ExecuteScheduledRepair \/ ExecuteRepairPlan

RequestSpec == InitRequests /\ [][NextRequests]_allVars
-----------------------------------------------------------------------------
(* Properties. *)

\* A log with nothing to be requested is whole: as long as no event was
\* recorded twice, "available" of every receipt means each entry has its event
\* (classifyEvidence goes by receipt, the log by place).
AvailableLogIsWhole ==
  DistinctEvents /\ EventReceipts \subseteq Inventory => EventIssues(log) = <<>>

\* Two ways to be told that a log is whole, and both mean the log that was
\* recorded: validate finds nothing wrong with it, or nothing of it has to be
\* requested.
WholeIsRecorded == WholeLogIsRecorded /\ AvailableLogIsWhole

\* The recorded evidence repairs what was damaged, one event by its own payload
\* and anything by the recorded log (applyRepairPayload, repairAndReplay).
RightPayloadsRepair == OneEventIsRepaired /\ LogPayloadRepairs

\* Under a policy that ranks what is repairable first, or cuts nothing,
\* something that can be answered is asked for whenever there is anything that
\* could be: requests nobody can answer do not keep it out (priorityFor, slice).
AnswerableIsRequested ==
  schedule # None =>
    LET policy == schedule.policy
    IN  /\ \E need \in schedule.needs : need.supplied
        /\ policy.max = None
           \/ /\ policy.order # <<>> /\ policy.order[1] = "repairable"
              /\ policy.max > 0
        => Range(schedule.requests) \ Unsatisfied(schedule) # {}

\* One lost event, asked for alone, is back after the plan is executed if the
\* recorded one is the first to arrive for it, whatever arrives later or for
\* something else, and whenever the schedule was made (buildScheduledRepairPlan,
\* executeScheduledRepair).
ScheduledRepairRestores ==
  (schedule # None /\ faults = 1 /\ Complete /\ DistinctEvents /\ OneEventIssue
     /\ bundle.intact) =>
    LET lost   == EventIssues(log)[1].target
        honest == RepairPayload(Issue("transport-event", lost), "event",
                                RecordedEvent(lost))
        result == Executed(ScheduledPayloads(schedule, inbox))
    IN  /\ {r.target : r \in Range(schedule.requests)} = {lost}
        /\ \E i \in DOMAIN inbox : /\ inbox[i] = honest
                                   /\ \A j \in 1 .. i - 1 : inbox[j].target # lost
        => result.ok /\ result.accepted = Accepted(Processing(made))
=============================================================================
