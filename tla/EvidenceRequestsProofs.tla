----------------------- MODULE EvidenceRequestsProofs -----------------------
(***************************************************************************)
(* Theorems about EvidenceRequests, for any recordings, names, policies,   *)
(* faults, repairs and payloads.                                           *)
(*                                                                         *)
(* Logs, reports of issues and plans are built by folds; what they are is  *)
(* shown entry by entry with the facts of FoldTheorems, and a log that was *)
(* recorded is known from then on by its chain (Chained, IsRecorded).      *)
(*                                                                         *)
(* The stored log is a copy of the recorded one in which events may be     *)
(* lost, rewritten or without their package, and links broken, but nothing *)
(* is made up (SoundLog): every event is the recorded one of some receipt, *)
(* or has another receipt than its entry names. Payloads are sound in the  *)
(* same way, and applying one to the other keeps it so. With it, faults    *)
(* are counted: after none the store is as it was recorded, after one it   *)
(* is but in one entry (FaultsKept).                                       *)
(*                                                                         *)
(* The requests of a schedule are cut off a list that holds every need     *)
(* once. The list is ordered by priority, so where what is repairable      *)
(* ranks first the head of the list can be answered, if any need can.      *)
(***************************************************************************)
EXTENDS EvidenceRequests, FiniteSetTheorems, WellFoundedInduction,
        SequenceTheorems, TLAPS

FiniteLog(l) == IsFiniteSet(DOMAIN l.entries)
-----------------------------------------------------------------------------
(* What the library's operators do. *)

\* SetToSeqs leaves nothing out of a finite set.
LEMMA Onto ==
  ASSUME NEW S, IsFiniteSet(S), NEW o \in SetToSeqs(S)
  PROVE  /\ Cardinality(S) \in Nat
         /\ o \in [1 .. Cardinality(S) -> S]
         /\ \A x \in S : \E i \in DOMAIN o : o[i] = x
<1> DEFINE n == Cardinality(S)
<1>1. n \in Nat  BY FS_CardinalityType
<1>2. /\ o \in [1 .. n -> S]
      /\ \A i, j \in 1 .. n : i # j => o[i] # o[j]
  BY DEF SetToSeqs
<1>3. o \in Injection(1 .. n, S)  BY <1>2 DEF Injection, IsInjective
<1>4. IsFiniteSet(1 .. n) /\ Cardinality(1 .. n) = n  BY <1>1, FS_Interval
<1>5. o \in Surjection(1 .. n, S)  BY <1>3, <1>4, FS_Injection
<1>6. QED  BY <1>1, <1>2, <1>5 DEF Surjection

\* A set of numbers that is not empty has a least one.
LEMMA LeastNat ==
  ASSUME NEW S \in SUBSET Nat, S # {}
  PROVE  Min(S) \in S /\ \A x \in S : Min(S) <= x
<1> DEFINE Less == {p \in Nat \X Nat : p[1] < p[2]}
<1>1. OpToRel(<, Nat) = Less  BY Zenon DEF OpToRel
<1>2. IsWellFoundedOn(Less, Nat)  BY <1>1, NatLessThanWellFounded, Zenon
<1>3. PICK m \in S : \A x \in S : <<x, m>> \notin Less
  <2> HIDE DEF Less
  <2>1. QED  BY <1>2, WFMin
<1>4. ASSUME NEW x \in S  PROVE m <= x
  <2>1. x \in Nat /\ m \in Nat  OBVIOUS
  <2>2. ~ x < m  BY <1>3, <2>1
  <2>3. QED  BY <2>1, <2>2
<1>5. QED  BY <1>4 DEF Min

\* What is repairable has priority 1 where it is named first, and nothing else
\* has.
LEMMA RepairableFirst ==
  ASSUME NEW policy, policy.order \in Seq(STRING) \ {<<>>},
         policy.order[1] = "repairable"
  PROVE  /\ PriorityFor("repairable", policy) = 1
         /\ \A status : PriorityFor(status, policy) \in Nat
         /\ \A status :
              PriorityFor(status, policy) <= 1 => status = "repairable"
<1> DEFINE order == policy.order
           At(status) == {i \in 1 .. Len(order) : order[i] = status}
<1>1. Len(order) \in Nat /\ Len(order) > 0  OBVIOUS
<1> HIDE DEF order
<1>2. ASSUME NEW status, At(status) # {}
      PROVE  /\ PriorityFor(status, policy) = Min(At(status))
             /\ Min(At(status)) \in At(status)
             /\ \A i \in At(status) : Min(At(status)) <= i
  <2>1. At(status) \in SUBSET Nat  BY <1>1
  <2>2. /\ Min(At(status)) \in At(status)
        /\ \A i \in At(status) : Min(At(status)) <= i
    BY <1>2, <2>1, LeastNat
  <2>3. Min(At(status)) # 0  BY <1>1, <2>2
  <2>4. SelectInSeq(order, LAMBDA s : s = status) = Min(At(status))
    BY <1>2 DEF SelectInSeq
  <2>5. QED  BY <2>2, <2>3, <2>4 DEF PriorityFor, order
<1>3. ASSUME NEW status, At(status) = {}
      PROVE  PriorityFor(status, policy) = Len(order) + 1
  BY <1>3 DEF PriorityFor, SelectInSeq, order
<1>4. order[1] = "repairable"  BY DEF order
<1>5. 1 \in At("repairable")  BY <1>1, <1>4
<1>6. PriorityFor("repairable", policy) = 1
  <2>1. /\ PriorityFor("repairable", policy) = Min(At("repairable"))
        /\ Min(At("repairable")) \in 1 .. Len(order)
        /\ Min(At("repairable")) <= 1
    BY <1>2, <1>5
  <2>2. QED  BY <1>1, <2>1
<1>7. ASSUME NEW status
      PROVE  /\ PriorityFor(status, policy) \in Nat
             /\ PriorityFor(status, policy) <= 1 => status = "repairable"
  <2>1. CASE At(status) = {}  BY <1>1, <1>3, <2>1
  <2>2. CASE At(status) # {}
    <3>1. PriorityFor(status, policy) \in At(status)
      <4> HIDE DEF At
      <4>1. QED  BY <1>2, <2>2
    <3>2. PICK i \in 1 .. Len(order) :
            order[i] = status /\ PriorityFor(status, policy) = i
      BY <3>1
    <3>3. QED  BY <1>1, <1>4, <3>2
  <2>3. QED  BY <2>1, <2>2
<1>8. QED  BY <1>6, <1>7
-----------------------------------------------------------------------------
(* Scheduling. *)

\* There are finitely many records when what is required is finite.
LEMMA ReportFinite ==
  ASSUME NEW required, IsFiniteSet(required), NEW corrupt, NEW supplied
  PROVE  IsFiniteSet(Report(required, corrupt, supplied))
<1> DEFINE report == Report(required, corrupt, supplied)
           f == [r \in required |->
                   [target |-> r, kind |-> KindOf(r),
                    status |-> Status(r, corrupt, supplied),
                    supplied |-> r \in supplied]]
<1>1. report = {f[r] : r \in required}  BY DEF Report
<1>2. f \in Surjection(required, report)  BY <1>1 DEF Surjection
<1>3. QED  BY <1>2, FS_Surjection

\* A schedule is made for finitely many receipts.
LEMMA RequiredFinite ==
  ASSUME FiniteLog(log)
  PROVE  IsFiniteSet(EventReceipts \cup {log.receipt})
<1> DEFINE f == [i \in DOMAIN log.entries |-> log.entries[i].eventReceipt]
<1>1. f \in Surjection(DOMAIN log.entries, EventReceipts)
  BY DEF Surjection, EventReceipts
<1>2. IsFiniteSet(EventReceipts)  BY <1>1, FS_Surjection DEF FiniteLog
<1>3. QED  BY <1>2, FS_AddElement

\* What is needed and supplied is repairable, and the other way round.
LEMMA SuppliedIsRepairable ==
  ASSUME NEW required, NEW corrupt, NEW supplied,
         NEW record \in Report(required, corrupt, supplied)
  PROVE  /\ record.status = "repairable" => record.supplied
         /\ record.status # "available" /\ record.supplied
              => record.status = "repairable"
<1>1. PICK r \in required :
        record = [target |-> r, kind |-> KindOf(r),
                  status |-> Status(r, corrupt, supplied),
                  supplied |-> r \in supplied]
  BY DEF Report
<1>2. record.status = Status(r, corrupt, supplied)  BY <1>1
<1>3. record.supplied = (r \in supplied)  BY <1>1
<1>4. QED  BY <1>2, <1>3 DEF Status

\* A schedule keeps the policy it was made under.
LEMMA SchedulePolicy ==
  ASSUME NEW report, NEW policy, NEW s \in RequestSchedules(report, policy)
  PROVE  s.policy = policy
<1>1. PICK requests, needs :
        s = [requests |-> requests, needs |-> needs, policy |-> policy]
  BY DEF RequestSchedules
<1>2. QED  BY <1>1

\* A schedule asks for something that can be answered, if it may and can.
LEMMA ScheduleAsks ==
  ASSUME FiniteLog(log), NEW policy \in Policies,
         NEW corrupt, NEW supplied,
         NEW s \in RequestSchedules(
                     Report(EventReceipts \cup {log.receipt}, corrupt,
                       supplied),
                     policy),
         \E need \in s.needs : need.supplied,
         policy.max = None
         \/ /\ policy.order # <<>> /\ policy.order[1] = "repairable"
            /\ policy.max > 0
  PROVE  /\ s.policy = policy
         /\ \E r \in Range(s.requests) : r.supplied
<1> DEFINE report == Report(EventReceipts \cup {log.receipt}, corrupt, supplied)
           needs == {record \in report : record.status # "available"}
           n == Cardinality(needs)
<1>1. PICK o \in Orderings(needs, policy) :
        s = [requests |-> Limited(o, policy.max), needs |-> needs,
          policy |-> policy]
  BY DEF RequestSchedules
<1>2. s.requests = Limited(o, policy.max) /\ s.needs = needs
        /\ s.policy = policy
  BY <1>1
<1>3. IsFiniteSet(needs)  BY RequiredFinite, ReportFinite, FS_Subset
<1>4. \A record \in needs : record.status = "repairable" <=> record.supplied
  BY SuppliedIsRepairable
<1> HIDE DEF needs
<1>5. o \in SetToSeqs(needs)  BY <1>1 DEF Orderings
<1>6. /\ n \in Nat /\ o \in [1 .. n -> needs]
      /\ \A x \in needs : \E i \in 1 .. n : o[i] = x
  <2>1. /\ n \in Nat /\ o \in [1 .. n -> needs]
        /\ \A x \in needs : \E i \in DOMAIN o : o[i] = x
    BY <1>3, <1>5, Onto
  <2>2. QED  BY <2>1
<1> HIDE DEF n
<1>7. o \in Seq(needs) /\ Len(o) = n  BY <1>6
<1>8. PICK k \in 1 .. n : o[k].supplied  BY <1>2, <1>6
<1>9. CASE policy.max = None
  <2>1. s.requests = o  BY <1>2, <1>9 DEF Limited
  <2>2. o[k] \in Range(s.requests)  BY <1>6, <2>1 DEF Range
  <2>3. QED  BY <1>2, <1>8, <2>2
<1>10. CASE policy.max # None
  <2> DEFINE cut == IF policy.max < n THEN policy.max ELSE n
  <2>1. /\ policy.max \in Int /\ policy.max > 0
        /\ policy.order \in Seq(STRING) \ {<<>>}
        /\ policy.order[1] = "repairable"
    BY <1>10, PoliciesAssumption
  <2>2. s.requests = SubSeq(o, 1, cut)  BY <1>2, <1>7, <1>10, <2>1 DEF Limited
  <2>3. cut \in 1 .. n  BY <1>6, <1>8, <2>1
  <2>4. Len(s.requests) = cut /\ s.requests \in Seq(needs)
          /\ s.requests[1] = o[1]
    BY <1>7, <2>2, <2>3, SubSeqProperties
  <2>5. o[1] \in Range(s.requests)  BY <2>3, <2>4 DEF Range
  <2>6. 1 \in DOMAIN o /\ k \in DOMAIN o /\ o[1] \in needs /\ o[k] \in needs
    BY <1>6, <1>8
  <2>7. o[k].status = "repairable"  BY <1>4, <1>8, <2>6
  <2>8. /\ PriorityFor("repairable", policy) = 1
        /\ \A status : PriorityFor(status, policy) \in Nat
        /\ \A status : PriorityFor(status, policy) <= 1 => status = "repairable"
    BY <2>1, RepairableFirst
  <2>9. \A i, j \in DOMAIN o :
          i < j => PriorityFor(o[i].status, policy)
                     <= PriorityFor(o[j].status, policy)
    BY <1>1 DEF Orderings
  <2>10. o[1].status = "repairable"
    <3>1. CASE k = 1  BY <2>7, <3>1
    <3>2. CASE k # 1
      <4>1. 1 < k  BY <1>6, <1>8, <3>2
      <4>2. PriorityFor(o[1].status, policy) <= PriorityFor(o[k].status, policy)
        BY <2>6, <2>9, <4>1
      <4>3. PriorityFor(o[1].status, policy) <= 1  BY <2>7, <2>8, <4>2
      <4>4. QED  BY <2>8, <4>3
    <3>3. QED  BY <3>1, <3>2
  <2>11. o[1].supplied  BY <1>4, <2>6, <2>10
  <2>12. QED  BY <1>2, <2>5, <2>11
<1>11. QED  BY <1>9, <1>10
-----------------------------------------------------------------------------
(* Logs. *)

Entered(id, entries, event) == Append(entries, NextEntry(id, entries, event))

Logging == INSTANCE FoldTheorems WITH
  Step <- LAMBDA id, entries, event : Entered(id, entries, event)

\* What Append does to a sequence.
LEMMA AppendFacts ==
  ASSUME NEW U, NEW s \in Seq(U), NEW e \in U
  PROVE  /\ Append(s, e) \in Seq(U) /\ Len(Append(s, e)) = Len(s) + 1
         /\ Append(s, e)[Len(s) + 1] = e
         /\ \A i \in 1 .. Len(s) : Append(s, e)[i] = s[i]
  OBVIOUS

Walk(n, list) == list = [i \in 1 .. n |-> list[i]]

\* The entry of an event at a place, after another.
ChainEntry(id, i, event, previous) ==
  [prefix |-> EntryPrefix(id), order |-> i - 1, eventReceipt |-> event.receipt,
   previous |-> previous, event |-> event,
   receipt |-> <<EntryPrefix(id), i - 1, event.receipt, previous>>]

\* The entries of a log of the events, as CreateLog makes it.
Chained(id, entries, events) ==
  /\ Walk(Len(events), entries)
  /\ \A i \in 1 .. Len(events) :
       entries[i] = ChainEntry(id, i, events[i], Previous(entries, i))

\* The next entry of a log is the link of its chain for that event.
LEMMA NextEntryIs ==
  ASSUME NEW id, NEW entries, NEW event, NEW n \in Nat, Len(entries) = n
  PROVE  NextEntry(id, entries, event) =
           ChainEntry(id, n + 1, event, Previous(entries, n + 1))
<1> DEFINE previous == Previous(entries, n + 1)
           entry == [prefix |-> EntryPrefix(id), order |-> n,
                     eventReceipt |-> event.receipt, previous |-> previous,
                     event |-> event, receipt |-> <<>>]
<1> HIDE DEF previous
<1>1. NextEntry(id, entries, event)
        = [entry EXCEPT !.receipt = EntryReceipt(entry)]
  BY DEF NextEntry, previous
<1>2. EntryReceipt(entry) = <<EntryPrefix(id), n, event.receipt, previous>>
  BY DEF EntryReceipt
<1>3. (n + 1) - 1 = n  OBVIOUS
<1>4. NextEntry(id, entries, event) =
        [prefix |-> EntryPrefix(id), order |-> n,
         eventReceipt |-> event.receipt, previous |-> previous,
         event |-> event,
         receipt |-> <<EntryPrefix(id), n, event.receipt, previous>>]
  BY <1>1, <1>2
<1>5. QED  BY <1>3, <1>4 DEF ChainEntry, previous

\* A log made of events is their chain (createTransportReplayLog).
LEMMA CreateLogChained ==
  ASSUME NEW id, NEW S, NEW events \in Seq(S)
  PROVE  /\ CreateLog(id, events).name = LogName(id)
         /\ Chained(id, CreateLog(id, events).entries, events)
         /\ CreateLog(id, events) =
              [name |-> LogName(id), entries |-> CreateLog(id, events).entries,
               receipt |-> LogReceipt(CreateLog(id, events).entries)]
<1> DEFINE Made(s) == Logging!Fold(id, <<>>, s)
           T == {s \in Seq(S) : Chained(id, Made(s), s)}
<1>1. <<>> \in T
  <2> DEFINE none == <<>>
  <2>1. none \in Seq(S) /\ Len(none) = 0 /\ none = [i \in 1 .. 0 |-> none[i]]
    OBVIOUS
  <2>2. Made(none) = none  BY Logging!FoldEmpty
  <2> HIDE DEF none, Made
  <2>3. Chained(id, Made(none), none)  BY <2>1, <2>2 DEF Chained, Walk
  <2>4. QED  BY <2>1, <2>3 DEF none
<1>2. ASSUME NEW s \in Seq(S), s \in T, NEW e \in S  PROVE Append(s, e) \in T
  <2> DEFINE t == Append(s, e)
             n == Len(s)
             old == Made(s)
             new == NextEntry(id, old, e)
  <2>1. /\ t \in Seq(S) /\ n \in Nat /\ Len(t) = n + 1 /\ t[n + 1] = e
        /\ \A i \in 1 .. n : t[i] = s[i]
    OBVIOUS
  <2>2. Made(t) = Append(old, new)  BY Logging!FoldAppend DEF Entered
  <2>3. Chained(id, old, s)  BY <1>2
  <2> HIDE DEF t, old, Made
  <2>4. old \in Seq({old[i] : i \in 1 .. n} \cup {new}) /\ Len(old) = n
    <3>1. old = [i \in 1 .. n |-> old[i]]  BY <2>3 DEF Chained, Walk
    <3>2. DOMAIN old = 1 .. n  BY <3>1
    <3>3. QED  BY <2>1, <3>1, <3>2
  <2>5. /\ Made(t) = [i \in 1 .. n + 1 |-> Made(t)[i]]
        /\ Made(t)[n + 1] = new
        /\ \A i \in 1 .. n : Made(t)[i] = old[i]
    <3> DEFINE U == {old[i] : i \in 1 .. n} \cup {new}
    <3>1. new \in U /\ old \in Seq(U)  BY <2>4
    <3> HIDE DEF n, new, U
    <3>2. /\ Append(old, new) \in Seq(U) /\ Len(Append(old, new)) = Len(old) + 1
          /\ Append(old, new)[Len(old) + 1] = new
          /\ \A i \in 1 .. Len(old) : Append(old, new)[i] = old[i]
      <4> HIDE DEF old
      <4>1. QED  BY <3>1, AppendFacts
    <3>3. Append(old, new) = [i \in 1 .. n + 1 |-> Append(old, new)[i]]
      <4> DEFINE both == Append(old, new)
      <4>1. both \in Seq(U) /\ Len(both) = n + 1  BY <2>4, <3>2
      <4> HIDE DEF both
      <4>2. both = [i \in 1 .. n + 1 |-> both[i]]  BY <4>1
      <4>3. QED  BY <4>2 DEF both
    <3>4. QED  BY <2>2, <2>4, <3>2, <3>3
  <2>6. \A i \in 1 .. n : Previous(Made(t), i) = Previous(old, i)
    <3>1. ASSUME NEW i \in 1 .. n, i # 1  PROVE i - 1 \in 1 .. n
      BY <2>1, <3>1
    <3>2. QED  BY <2>5, <3>1 DEF Previous
  <2>7. Previous(Made(t), n + 1) = Previous(old, n + 1)
    <3>1. n + 1 # 1 => n \in 1 .. n  BY <2>1
    <3>2. (n + 1) - 1 = n  BY <2>1
    <3>3. QED  BY <2>5, <3>1, <3>2 DEF Previous
  <2>8. new = ChainEntry(id, n + 1, e, Previous(Made(t), n + 1))
    BY <2>1, <2>4, <2>7, NextEntryIs
  <2>9. ASSUME NEW i \in 1 .. n + 1
        PROVE  Made(t)[i] = ChainEntry(id, i, t[i], Previous(Made(t), i))
    <3>1. CASE i \in 1 .. n  BY <2>1, <2>3, <2>5, <2>6, <3>1 DEF Chained
    <3>2. CASE i = n + 1  BY <2>1, <2>5, <2>8, <3>2
    <3>3. QED  BY <2>1, <3>1, <3>2
  <2>10. Chained(id, Made(t), t)  BY <2>1, <2>5, <2>9 DEF Chained, Walk
  <2>11. QED  BY <2>1, <2>10 DEF t
<1>3. Seq(S) \subseteq T
  <2> HIDE DEF T
  <2>1. QED  BY <1>1, <1>2, Logging!SequencesGrow
<1>4. Chained(id, Made(events), events)  BY <1>3
<1>5. CreateLog(id, events) =
        [name |-> LogName(id), entries |-> Made(events),
         receipt |-> LogReceipt(Made(events))]
  BY DEF CreateLog, Logging!Fold, FoldLeft, MapThenFoldSet, Logging!FoldLeft,
         Logging!MapThenFoldSet, Max, Logging!Max, Entered
<1> HIDE DEF Made
<1>6. QED  BY <1>4, <1>5

\* Logs of the same name and the same first m events have the same first m
\* entries.
LEMMA ChainedAlike ==
  ASSUME NEW id, NEW m \in Nat, NEW a, NEW b, NEW s, NEW t,
         Chained(id, a, s), Chained(id, b, t),
         Len(s) \in Nat, Len(t) \in Nat, m <= Len(s), m <= Len(t),
         \A i \in 1 .. m : s[i] = t[i]
  PROVE  \A i \in 1 .. m : a[i] = b[i]
<1> DEFINE T == {i \in Nat : i \in 1 .. m => a[i] = b[i]}
<1>1. 0 \in T  OBVIOUS
<1>2. ASSUME NEW i \in Nat, i \in T  PROVE i + 1 \in T
  <2>1. SUFFICES ASSUME i + 1 \in 1 .. m  PROVE a[i + 1] = b[i + 1]
    OBVIOUS
  <2>2. i + 1 \in 1 .. Len(s) /\ i + 1 \in 1 .. Len(t) /\ s[i + 1] = t[i + 1]
    BY <2>1
  <2>3. Previous(a, i + 1) = Previous(b, i + 1)
    <3>1. CASE i = 0  BY <3>1 DEF Previous
    <3>2. CASE i # 0
      <4>1. i \in 1 .. m /\ i + 1 # 1 /\ (i + 1) - 1 = i  BY <2>1, <3>2
      <4>2. a[i] = b[i]  BY <1>2, <4>1
      <4>3. QED  BY <4>1, <4>2 DEF Previous
    <3>3. QED  BY <3>1, <3>2
  <2> DEFINE k == i + 1
  <2> HIDE DEF k
  <2>4. a[k] = b[k]  BY <2>2, <2>3 DEF Chained, k
  <2>5. QED  BY <2>4 DEF k
<1>3. Nat \subseteq T
  <2> HIDE DEF T
  <2>1. QED  BY <1>1, <1>2, Logging!Induction
<1>4. QED  BY <1>3

\* A log made of events replays each of them, whatever its name.
LEMMA ProcessingMade ==
  ASSUME NEW id, NEW S, NEW events \in Seq(S)
  PROVE  Processing(CreateLog(id, events)) =
           [i \in 1 .. Len(events) |-> ProcessTransportEvent(events[i])]
<1> DEFINE entries == CreateLog(id, events).entries
<1>1. Chained(id, entries, events)  BY CreateLogChained
<1> HIDE DEF entries
<1>2. DOMAIN entries = 1 .. Len(events)
      /\ \A i \in 1 .. Len(events) : entries[i].event = events[i]
  <2>1. entries = [i \in 1 .. Len(events) |-> entries[i]]
    BY <1>1 DEF Chained, Walk
  <2>2. DOMAIN entries = 1 .. Len(events)  BY <2>1
  <2>3. ASSUME NEW i \in 1 .. Len(events)  PROVE entries[i].event = events[i]
    <3>1. entries[i] = ChainEntry(id, i, events[i], Previous(entries, i))
      BY <1>1, Zenon DEF Chained
    <3>2. QED  BY <3>1 DEF ChainEntry
  <2>4. QED  BY <2>2, <2>3
<1>3. Processing(CreateLog(id, events)) =
        [i \in DOMAIN entries |-> ProcessTransportEvent(entries[i].event)]
  BY DEF Processing, entries
<1>4. [i \in DOMAIN entries |-> ProcessTransportEvent(entries[i].event)] =
        [i \in 1 .. Len(events) |-> ProcessTransportEvent(events[i])]
  <2>1. \A i \in 1 .. Len(events) :
          ProcessTransportEvent(entries[i].event)
            = ProcessTransportEvent(events[i])
    BY <1>2
  <2> DEFINE D == DOMAIN entries
  <2>2. D = 1 .. Len(events)  BY <1>2
  <2> HIDE DEF D
  <2>3. [i \in D |-> ProcessTransportEvent(entries[i].event)] =
          [i \in 1 .. Len(events) |-> ProcessTransportEvent(events[i])]
    BY <2>1, <2>2
  <2>4. QED  BY <2>3 DEF D
<1>5. QED  BY <1>3, <1>4
-----------------------------------------------------------------------------
(* Replays. *)

Refused(s) == {i \in DOMAIN s : ~s[i].exchange.accepted}
RefusedOf(s, r) == {i \in Refused(s) : s[i].event = r}
RefusedEvents(s) == {s[i].event : i \in Refused(s)}

\* The bag of refused events, by the name of what it counts.
LEMMA RejectedIs ==
  ASSUME NEW s
  PROVE  Rejected(s) = [r \in RefusedEvents(s) |-> Cardinality(RefusedOf(s, r))]
BY DEF Rejected, RefusedEvents, RefusedOf, Refused

\* What two stretches of a log reject, the whole does.
LEMMA RejectedOfBoth ==
  ASSUME NEW U, NEW p \in Seq(U), NEW q \in Seq(U)
  PROVE  Rejected(p \o q) = Rejected(p) (+) Rejected(q)
<1> DEFINE m == Len(p)
           k == Len(q)
           both == p \o q
<1>1. /\ m \in Nat /\ k \in Nat /\ DOMAIN p = 1 .. m /\ DOMAIN q = 1 .. k
      /\ DOMAIN both = 1 .. m + k
      /\ \A i \in 1 .. m : both[i] = p[i]
      /\ \A i \in 1 .. k : both[m + i] = q[i]
  OBVIOUS
<1> HIDE DEF m, k, both
<1>2. RefusedEvents(both) = RefusedEvents(p) \cup RefusedEvents(q)
  <2>1. ASSUME NEW i \in Refused(both)
        PROVE  both[i].event \in RefusedEvents(p) \cup RefusedEvents(q)
    <3>1. CASE i \in 1 .. m
      <4>1. i \in Refused(p) /\ both[i] = p[i]  BY <1>1, <3>1 DEF Refused
      <4>2. QED  BY <4>1 DEF RefusedEvents
    <3>2. CASE i \notin 1 .. m
      <4>1. i - m \in 1 .. k /\ m + (i - m) = i  BY <1>1, <3>2 DEF Refused
      <4>2. both[i] = q[i - m]  BY <1>1, <4>1
      <4>3. i - m \in Refused(q)  BY <1>1, <4>1, <4>2 DEF Refused
      <4>4. QED  BY <4>2, <4>3 DEF RefusedEvents
    <3>3. QED  BY <3>1, <3>2
  <2>2. ASSUME NEW i \in Refused(p)  PROVE p[i].event \in RefusedEvents(both)
    <3>1. i \in Refused(both) /\ both[i] = p[i]  BY <1>1 DEF Refused
    <3>2. QED  BY <3>1 DEF RefusedEvents
  <2>3. ASSUME NEW i \in Refused(q)  PROVE q[i].event \in RefusedEvents(both)
    <3>1. i \in 1 .. k  BY <1>1 DEF Refused
    <3>2. m + i \in 1 .. m + k /\ both[m + i] = q[i]  BY <1>1, <3>1
    <3>3. m + i \in Refused(both)  BY <1>1, <3>2 DEF Refused
    <3>4. QED  BY <3>2, <3>3 DEF RefusedEvents
  <2>4. QED  BY <2>1, <2>2, <2>3 DEF RefusedEvents
<1>3. ASSUME NEW r
      PROVE  /\ Cardinality(RefusedOf(both, r)) =
                  Cardinality(RefusedOf(p, r)) + Cardinality(RefusedOf(q, r))
             /\ Cardinality(RefusedOf(p, r)) \in Nat
             /\ Cardinality(RefusedOf(q, r)) \in Nat
             /\ r \notin RefusedEvents(p) => Cardinality(RefusedOf(p, r)) = 0
             /\ r \notin RefusedEvents(q) => Cardinality(RefusedOf(q, r)) = 0
  <2> DEFINE A == RefusedOf(p, r)
             B == RefusedOf(q, r)
             C == {i \in m + 1 .. m + k : i - m \in B}
             shift == [i \in B |-> m + i]
  <2>1. A \subseteq 1 .. m /\ B \subseteq 1 .. k
    BY <1>1 DEF RefusedOf, Refused
  <2>2. IsFiniteSet(A) /\ IsFiniteSet(B)
    <3>1. IsFiniteSet(1 .. m) /\ IsFiniteSet(1 .. k)  BY <1>1, FS_Interval
    <3> HIDE DEF A, B
    <3>2. QED  BY <2>1, <3>1, FS_Subset
  <2>3. IsFiniteSet(C) /\ Cardinality(C) = Cardinality(B)
    <3> HIDE DEF B
    <3>1. \A i \in B : m + i \in C  BY <1>1, <2>1
    <3>2. \A c \in C : c - m \in B /\ m + (c - m) = c  BY <1>1
    <3> HIDE DEF C
    <3>3. \A i, j \in B : m + i = m + j => i = j  BY <1>1, <2>1
    <3>4. shift \in Bijection(B, C)
      <4>1. shift \in [B -> C]  BY <3>1
      <4>2. \A i, j \in B : shift[i] = shift[j] => i = j  BY <3>3
      <4>3. \A c \in C : \E i \in B : shift[i] = c  BY <3>2
      <4> HIDE DEF shift
      <4>4. QED
        BY <4>1, <4>2, <4>3 DEF Bijection, Injection, Surjection, IsInjective
    <3>5. ExistsBijection(B, C)  BY <3>4 DEF ExistsBijection
    <3>6. QED  BY <2>2, <3>5, FS_Bijection
  <2>4. RefusedOf(both, r) = A \cup C
    <3>1. ASSUME NEW i \in 1 .. m + k
          PROVE  i \in RefusedOf(both, r) <=> i \in A \cup C
      <4>1. CASE i \in 1 .. m
        <5>1. both[i] = p[i] /\ i \in DOMAIN both /\ i \in DOMAIN p
          BY <1>1, <4>1
        <5>2. i \notin C  BY <1>1, <4>1
        <5>3. i \in RefusedOf(both, r) <=> i \in A
          BY <5>1 DEF RefusedOf, Refused
        <5>4. QED  BY <5>2, <5>3
      <4>2. CASE i \notin 1 .. m
        <5>1. i - m \in 1 .. k /\ m + (i - m) = i /\ i \in m + 1 .. m + k
          BY <1>1, <4>2
        <5>2. both[i] = q[i - m] /\ i \in DOMAIN both /\ i - m \in DOMAIN q
          BY <1>1, <5>1
        <5>3. i \in RefusedOf(both, r) <=> i - m \in B
          BY <5>2 DEF RefusedOf, Refused
        <5>4. i \notin A  BY <2>1, <4>2
        <5>5. QED  BY <5>1, <5>3, <5>4
      <4>3. QED  BY <4>1, <4>2
    <3>2. RefusedOf(both, r) \subseteq 1 .. m + k
      BY <1>1 DEF RefusedOf, Refused
    <3>3. A \cup C \subseteq 1 .. m + k
      <4>1. C \subseteq 1 .. m + k  BY <1>1
      <4> HIDE DEF A, B, C
      <4>2. A \subseteq 1 .. m + k  BY <1>1, <2>1
      <4>3. QED  BY <4>1, <4>2
    <3> HIDE DEF A, C
    <3>4. QED  BY <3>1, <3>2, <3>3
  <2>5. A \cap C = {}
    <3> HIDE DEF A, B
    <3>1. QED  BY <1>1, <2>1
  <2>6. r \notin RefusedEvents(p) => A = {}  BY DEF RefusedEvents, RefusedOf
  <2>7. r \notin RefusedEvents(q) => B = {}  BY DEF RefusedEvents, RefusedOf
  <2> HIDE DEF A, B, C
  <2>8. Cardinality(A \cup C) = Cardinality(A) + Cardinality(C) - 0
    <3>1. Cardinality(A \cap C) = 0  BY <2>5, FS_EmptySet
    <3>2. QED  BY <2>2, <2>3, <3>1, FS_Union
  <2>9. Cardinality(A) \in Nat /\ Cardinality(B) \in Nat
    BY <2>2, FS_CardinalityType
  <2>10. (A = {} => Cardinality(A) = 0) /\ (B = {} => Cardinality(B) = 0)
    BY FS_EmptySet
  <2>11. QED
    BY <2>3, <2>4, <2>6, <2>7, <2>8, <2>9, <2>10 DEF A, B
<1> DEFINE F == Rejected(p)
           G == Rejected(q)
<1>4. /\ DOMAIN F = RefusedEvents(p) /\ DOMAIN G = RefusedEvents(q)
      /\ \A r \in RefusedEvents(p) : F[r] = Cardinality(RefusedOf(p, r))
      /\ \A r \in RefusedEvents(q) : G[r] = Cardinality(RefusedOf(q, r))
  BY RejectedIs
<1> HIDE DEF F, G
<1>5. F (+) G =
        [r \in RefusedEvents(p) \cup RefusedEvents(q) |->
           (IF r \in RefusedEvents(p) THEN F[r] ELSE 0)
             + (IF r \in RefusedEvents(q) THEN G[r] ELSE 0)]
  BY <1>4 DEF (+)
<1>6. \A r \in RefusedEvents(both) :
        Cardinality(RefusedOf(both, r)) =
          (IF r \in RefusedEvents(p) THEN F[r] ELSE 0)
            + (IF r \in RefusedEvents(q) THEN G[r] ELSE 0)
  BY <1>3, <1>4
<1>7. Rejected(both) = F (+) G  BY <1>2, <1>5, <1>6, RejectedIs
<1>8. QED  BY <1>7 DEF F, G, both

Before(l, c) == CreateLog(l.name, EventsOf(l, 1, c.boundary + 1))
After(l, c) ==
  CreateLog(<<"tail", c>>, EventsOf(l, c.boundary + 2, Len(l.entries)))

\* A resumed replay, by the names of the parts it makes again.
LEMMA ResumeIs ==
  ASSUME NEW l, NEW c
  PROVE  ResumeReplay(l, c) =
           IF /\ ValidCheckpoint(c, l)
              /\ CreateCheckpoint(Before(l, c), c.boundary) = c
           THEN [ok |-> TRUE,
                 accepted |-> Accepted(Processing(Before(l, c))
                                         \o Processing(After(l, c))),
                 rejected |-> c.rejected (+) Rejected(Processing(After(l, c)))]
           ELSE [ok |-> FALSE]
BY Zenon DEF ResumeReplay, Before, After

Firsts(l, k) == [i \in 1 .. k |-> l.entries[i].event]
Lasts(l, k, n) == [i \in 1 .. n - k |-> l.entries[k + i].event]

FirstsProcessed(l, k) == [i \in 1 .. k |-> Processing(l)[i]]

\* Stretches of a log.
LEMMA EventsOfIs ==
  ASSUME NEW l, NEW n \in Nat, Len(l.entries) = n, NEW b \in Nat, b < n
  PROVE  /\ EventsOf(l, 1, b + 1) = Firsts(l, b + 1)
         /\ EventsOf(l, b + 2, n) = Lasts(l, b + 1, n)
<1>1. EventsOf(l, 1, b + 1) = [i \in 1 .. b + 1 |-> l.entries[i].event]
  <2>1. ((b + 1) - 1) + 1 = b + 1  OBVIOUS
  <2>2. \A i \in 1 .. b + 1 : (1 + i) - 1 = i  OBVIOUS
  <2>3. QED  BY <2>1, <2>2 DEF EventsOf
<1>2. EventsOf(l, b + 2, n) =
        [i \in 1 .. n - (b + 1) |-> l.entries[(b + 1) + i].event]
  <2>1. (n - (b + 2)) + 1 = n - (b + 1)  OBVIOUS
  <2>2. \A i \in 1 .. n - (b + 1) : ((b + 2) + i) - 1 = (b + 1) + i  OBVIOUS
  <2>3. QED  BY <2>1, <2>2 DEF EventsOf
<1>3. QED  BY <1>1, <1>2 DEF Firsts, Lasts

\* What the concatenation of two sequences is.
LEMMA ConcatFacts ==
  ASSUME NEW U, NEW p \in Seq(U), NEW q \in Seq(U)
  PROVE  /\ p \o q \in Seq(U) /\ Len(p \o q) = Len(p) + Len(q)
         /\ \A i \in 1 .. Len(p) : (p \o q)[i] = p[i]
         /\ \A i \in 1 .. Len(q) : (p \o q)[Len(p) + i] = q[i]
  OBVIOUS

\* A function on 1 .. k is a sequence of its values.
LEMMA WalkIsSeq ==
  ASSUME NEW V, NEW k \in Nat, NEW f, f = [i \in 1 .. k |-> f[i]],
         \A i \in 1 .. k : f[i] \in V
  PROVE  f \in Seq(V) /\ Len(f) = k
  OBVIOUS

\* A log is replayed by replaying a stretch and what comes after it.
LEMMA ProcessingSplit ==
  ASSUME NEW l, NEW n \in Nat, Len(l.entries) = n, Walk(n, l.entries),
         NEW c, c.boundary \in Nat, c.boundary < n
  PROVE  /\ Processing(l) = Processing(Before(l, c)) \o Processing(After(l, c))
         /\ \E U : /\ Processing(Before(l, c)) \in Seq(U)
                   /\ Processing(After(l, c)) \in Seq(U)
         /\ Processing(Before(l, c)) = FirstsProcessed(l, c.boundary + 1)
<1> DEFINE b == c.boundary
           all == Processing(l)
           s == EventsOf(l, 1, b + 1)
           t == EventsOf(l, b + 2, n)
           U == {all[i] : i \in 1 .. n}
           V == {l.entries[i].event : i \in 1 .. n}
<1>1. b \in Nat /\ b < n  OBVIOUS
<1>2. DOMAIN l.entries = 1 .. n
  <2>1. l.entries = [i \in 1 .. n |-> l.entries[i]]  BY DEF Walk
  <2>2. QED  BY <2>1
<1>3. /\ all = [i \in 1 .. n |-> ProcessTransportEvent(l.entries[i].event)]
      /\ \A i \in 1 .. n : all[i] = ProcessTransportEvent(l.entries[i].event)
  BY <1>2 DEF Processing
<1> HIDE DEF b, all
<1>4. /\ s = [i \in 1 .. b + 1 |-> l.entries[i].event]
      /\ t = [i \in 1 .. n - (b + 1) |-> l.entries[(b + 1) + i].event]
  <2>1. s = Firsts(l, b + 1)  BY <1>1, EventsOfIs
  <2>2. t = Lasts(l, b + 1, n)  BY <1>1, EventsOfIs
  <2> HIDE DEF s, t
  <2>3. s = [i \in 1 .. b + 1 |-> l.entries[i].event]  BY <2>1 DEF Firsts
  <2>4. t = [i \in 1 .. n - (b + 1) |-> l.entries[(b + 1) + i].event]
    BY <2>2 DEF Lasts
  <2>5. QED  BY <2>3, <2>4
<1>5. 1 .. b + 1 \subseteq 1 .. n
      /\ \A i \in 1 .. n - (b + 1) : (b + 1) + i \in 1 .. n
  BY <1>1
<1>6. /\ s \in Seq(V) /\ Len(s) = b + 1
      /\ \A i \in 1 .. b + 1 : s[i] = l.entries[i].event
  <2> DEFINE k == b + 1
  <2>1. \A i \in 1 .. k : l.entries[i].event \in V  BY <1>5
  <2>2. k \in Nat /\ s = [i \in 1 .. k |-> l.entries[i].event]  BY <1>1, <1>4
  <2> HIDE DEF s, V, k
  <2>3. \A i \in 1 .. k : s[i] = l.entries[i].event  BY <2>2
  <2>4. s = [i \in 1 .. k |-> s[i]]  BY <2>2
  <2>5. s \in Seq(V) /\ Len(s) = k  BY <2>1, <2>2, <2>3, <2>4, WalkIsSeq
  <2>6. QED  BY <2>3, <2>5 DEF k
<1>7. /\ t \in Seq(V) /\ Len(t) = n - (b + 1)
      /\ \A i \in 1 .. n - (b + 1) : t[i] = l.entries[(b + 1) + i].event
  <2> DEFINE k == n - (b + 1)
  <2>1. \A i \in 1 .. k : l.entries[(b + 1) + i].event \in V  BY <1>5
  <2>2. k \in Nat /\ t = [i \in 1 .. k |-> l.entries[(b + 1) + i].event]
    BY <1>1, <1>4
  <2> HIDE DEF t, V, k
  <2>3. \A i \in 1 .. k : t[i] = l.entries[(b + 1) + i].event  BY <2>2
  <2>4. t = [i \in 1 .. k |-> t[i]]  BY <2>2
  <2>5. t \in Seq(V) /\ Len(t) = k  BY <2>1, <2>2, <2>3, <2>4, WalkIsSeq
  <2>6. QED  BY <2>3, <2>5 DEF k
<1> HIDE DEF s, t, V
<1>8. Processing(Before(l, c)) = [i \in 1 .. b + 1 |-> all[i]]
  <2>1. Processing(CreateLog(l.name, s)) =
          [i \in 1 .. Len(s) |-> ProcessTransportEvent(s[i])]
    BY <1>6, ProcessingMade
  <2>2. \A i \in 1 .. b + 1 : ProcessTransportEvent(s[i]) = all[i]
    BY <1>3, <1>5, <1>6
  <2>3. Processing(CreateLog(l.name, s)) = [i \in 1 .. b + 1 |-> all[i]]
    BY <1>6, <2>1, <2>2
  <2>4. QED  BY <2>3 DEF Before, s, b
<1>9. Processing(After(l, c)) = [i \in 1 .. n - (b + 1) |-> all[(b + 1) + i]]
  <2>1. Processing(CreateLog(<<"tail", c>>, t)) =
          [i \in 1 .. Len(t) |-> ProcessTransportEvent(t[i])]
    BY <1>7, ProcessingMade
  <2>2. \A i \in 1 .. n - (b + 1) :
          ProcessTransportEvent(t[i]) = all[(b + 1) + i]
    BY <1>3, <1>5, <1>7
  <2>3. Processing(CreateLog(<<"tail", c>>, t)) =
          [i \in 1 .. n - (b + 1) |-> all[(b + 1) + i]]
    BY <1>7, <2>1, <2>2
  <2>4. QED  BY <2>3 DEF After, t, b
<1> DEFINE p == [i \in 1 .. b + 1 |-> all[i]]
           q == [i \in 1 .. n - (b + 1) |-> all[(b + 1) + i]]
<1>10. /\ p \in Seq(U) /\ Len(p) = b + 1 /\ \A i \in 1 .. b + 1 : p[i] = all[i]
  <2>1. \A i \in 1 .. b + 1 : all[i] \in U  BY <1>5
  <2> HIDE DEF U
  <2>2. QED  BY <1>1, <2>1
<1>11. /\ q \in Seq(U) /\ Len(q) = n - (b + 1)
       /\ \A i \in 1 .. n - (b + 1) : q[i] = all[(b + 1) + i]
  <2>1. \A i \in 1 .. n - (b + 1) : all[(b + 1) + i] \in U  BY <1>5
  <2> HIDE DEF U
  <2>2. QED  BY <1>1, <2>1
<1> HIDE DEF p, q, U
<1>12. p \o q = all
  <2> DEFINE pq == p \o q
  <2>1. /\ pq \in Seq(U) /\ Len(pq) = n
        /\ \A i \in 1 .. b + 1 : pq[i] = p[i]
        /\ \A i \in 1 .. n - (b + 1) : pq[(b + 1) + i] = q[i]
    <3>1. (b + 1) + (n - (b + 1)) = n  BY <1>1
    <3>2. QED  BY <1>10, <1>11, <3>1, ConcatFacts
  <2> HIDE DEF pq
  <2>2. ASSUME NEW i \in 1 .. n  PROVE pq[i] = all[i]
    <3>1. CASE i \in 1 .. b + 1  BY <1>10, <2>1, <3>1
    <3>2. CASE i \notin 1 .. b + 1
      <4> DEFINE j == i - (b + 1)
      <4>1. j \in 1 .. n - (b + 1) /\ (b + 1) + j = i  BY <1>1, <3>2
      <4> HIDE DEF j
      <4>2. QED  BY <1>11, <2>1, <4>1
    <3>3. QED  BY <3>1, <3>2
  <2>3. pq = [i \in 1 .. n |-> pq[i]]  BY <2>1
  <2>4. all = [i \in 1 .. n |-> all[i]]  BY <1>3
  <2>5. pq = all  BY <2>2, <2>3, <2>4
  <2>6. QED  BY <2>5 DEF pq
<1>13. p = Processing(Before(l, c)) /\ q = Processing(After(l, c))
  BY <1>8, <1>9 DEF p, q
<1>14. QED
  <2>1. /\ Processing(Before(l, c)) \in Seq(U)
        /\ Processing(After(l, c)) \in Seq(U)
    BY <1>10, <1>11, <1>13
  <2>2. QED  BY <1>8, <1>12, <1>13, <2>1 DEF all, b, FirstsProcessed

\* A resumed replay that does not throw accepts and rejects what the replay of
\* the whole log does.
LEMMA ResumeIsReplay ==
  ASSUME NEW l, NEW n \in Nat, Len(l.entries) = n, Walk(n, l.entries),
         NEW c, c.boundary \in Nat, ResumeReplay(l, c).ok
  PROVE  /\ ValidCheckpoint(c, l)
         /\ ResumeReplay(l, c).accepted = Accepted(Processing(l))
         /\ ResumeReplay(l, c).rejected = Rejected(Processing(l))
<1> DEFINE p == Processing(Before(l, c))
           q == Processing(After(l, c))
           result == [ok |-> TRUE, accepted |-> Accepted(p \o q),
                      rejected |-> c.rejected (+) Rejected(q)]
<1>1. /\ ValidCheckpoint(c, l)
      /\ CreateCheckpoint(Before(l, c), c.boundary) = c
      /\ ResumeReplay(l, c) = result
  <2>1. ASSUME ~(/\ ValidCheckpoint(c, l)
                 /\ CreateCheckpoint(Before(l, c), c.boundary) = c)
        PROVE  FALSE
    <3>1. ResumeReplay(l, c) = [ok |-> FALSE]  BY <2>1, ResumeIs, Zenon
    <3>2. QED  BY <3>1
  <2>2. QED  BY <2>1, ResumeIs, Zenon
<1>2. c.boundary < n  BY <1>1 DEF ValidCheckpoint
<1>3. /\ Processing(l) = p \o q
      /\ \E U : p \in Seq(U) /\ q \in Seq(U)
      /\ p = FirstsProcessed(l, c.boundary + 1)
  BY <1>2, ProcessingSplit
<1>4. PICK U : p \in Seq(U) /\ q \in Seq(U)  BY <1>3
<1>5. c.rejected = Rejected(p)
  <2> DEFINE m == c.boundary + 1
             entries == Before(l, c).entries
  <2>1. m \in Nat /\ Len(p) = m  BY <1>3 DEF FirstsProcessed
  <2>2. Len(entries) = m
    <3>1. DOMAIN entries = DOMAIN p  BY DEF Processing
    <3> DEFINE events == EventsOf(l, 1, m)
               V == {events[i] : i \in 1 .. m}
    <3>2. events = Firsts(l, m)  BY <1>2, EventsOfIs
    <3>3. events \in Seq(V) /\ Len(events) = m
      <4>1. \A i \in 1 .. m : events[i] \in V  OBVIOUS
      <4> HIDE DEF V, events, m
      <4>2. events = [i \in 1 .. m |-> events[i]]  BY <3>2 DEF Firsts
      <4>3. QED  BY <2>1, <4>1, <4>2
    <3> HIDE DEF events, V, m
    <3>4. Chained(l.name, CreateLog(l.name, events).entries, events)
      BY <3>3, CreateLogChained
    <3>5. Chained(l.name, entries, events)
      BY <3>4 DEF Before, events, m
    <3> HIDE DEF entries
    <3>6. entries = [i \in 1 .. m |-> entries[i]]
      BY <3>3, <3>5 DEF Chained, Walk
    <3>7. QED  BY <2>1, <3>6
  <2> HIDE DEF p
  <2>3. CreateCheckpoint(Before(l, c), c.boundary).rejected
          = Rejected(SubSeq(p, 1, m))
    <3> HIDE DEF entries
    <3>1. m # 0 /\ m - 1 = c.boundary  BY <1>2
    <3>2. Clamp(c.boundary, IF m = 0 THEN 0 ELSE m - 1) = c.boundary
      BY <3>1 DEF Clamp
    <3>3. Clamp(c.boundary + 1, m) = m  BY <3>1 DEF Clamp
    <3>4. QED  BY <2>2, <3>2, <3>3 DEF CreateCheckpoint, entries, p
  <2>4. SubSeq(p, 1, m) = p  BY <1>4, <2>1
  <2>5. QED  BY <1>1, <2>3, <2>4
<1> HIDE DEF p, q
<1>6. Rejected(p \o q) = Rejected(p) (+) Rejected(q)  BY <1>4, RejectedOfBoth
<1>7. /\ result.accepted = Accepted(p \o q)
      /\ result.rejected = c.rejected (+) Rejected(q)
  OBVIOUS
<1> HIDE DEF result
<1>8. QED  BY <1>1, <1>3, <1>5, <1>6, <1>7
-----------------------------------------------------------------------------
(* Logs as they were recorded. *)

IsEntry(m, i) ==
  LET e == m.entries[i]
  IN  /\ e = [prefix |-> e.prefix, order |-> i - 1,
              eventReceipt |-> e.event.receipt,
              previous |-> Previous(m.entries, i), event |-> e.event,
              receipt |-> EntryReceipt(e)]
      /\ e.event = TransportEvent(e.event.receipt, e.event.success,
                                  e.event.offer, e.event.package)
      /\ e.event.receipt \notin {Wrong, None}
      /\ e.event.receipt # m.receipt

IsRecorded(m) ==
  /\ m = [name |-> m.name, entries |-> m.entries, receipt |-> m.receipt]
  /\ m.receipt = LogReceipt(m.entries)
  /\ Len(m.entries) \in Nat
  /\ Walk(Len(m.entries), m.entries)
  /\ \A i \in 1 .. Len(m.entries) : IsEntry(m, i)
  /\ \A i, j \in 1 .. Len(m.entries) :
       m.entries[i].event.receipt = m.entries[j].event.receipt
         => m.entries[i].event = m.entries[j].event

\* A log made of a recording is a recorded log.
LEMMA Recorded ==
  ASSUME NEW id \in LogIds, NEW events \in Recordings,
         NEW m, m = CreateLog(id, events)
  PROVE  /\ IsRecorded(m)
         /\ m.name = LogName(id)
         /\ Len(m.entries) = Len(events)
         /\ events \in Seq(ToSet(events))
         /\ Chained(id, m.entries, events)
<1> DEFINE n == Len(events)
           entries == m.entries
<1>1. /\ events \in Seq(ToSet(events))
      /\ \A e \in ToSet(events) :
           /\ e = TransportEvent(e.receipt, e.success, e.offer, e.package)
           /\ e.receipt \notin {Wrong, None}
           /\ e.receipt # m.receipt
           /\ \A other \in ToSet(events) :
                e.receipt = other.receipt => e = other
  BY RecordingsAssumption
<1>2. /\ m.name = LogName(id)
      /\ Chained(id, entries, events)
      /\ m = [name |-> LogName(id), entries |-> entries,
              receipt |-> LogReceipt(entries)]
  BY <1>1, CreateLogChained
<1>3. m.receipt = LogReceipt(entries)
  <2> HIDE DEF entries
  <2>1. QED  BY <1>2
<1>4. n \in Nat /\ \A i \in 1 .. n : events[i] \in ToSet(events)  BY <1>1
<1> HIDE DEF n, entries
<1>5. entries = [i \in 1 .. n |-> entries[i]]  BY <1>2 DEF Chained, Walk, n
<1>6. Len(entries) = n  BY <1>4, <1>5
<1>7. ASSUME NEW i \in 1 .. n
      PROVE  entries[i] = ChainEntry(id, i, events[i], Previous(entries, i))
  BY <1>2 DEF Chained, n
<1>8. ASSUME NEW i \in 1 .. n
      PROVE  IsEntry(m, i) /\ entries[i].event = events[i]
  <2> DEFINE e == events[i]
             previous == Previous(entries, i)
             entry == entries[i]
  <2>1. /\ e = TransportEvent(e.receipt, e.success, e.offer, e.package)
        /\ e.receipt \notin {Wrong, None} /\ e.receipt # m.receipt
    BY <1>1, <1>4
  <2>2. entry = ChainEntry(id, i, e, previous)  BY <1>7
  <2> HIDE DEF e, previous, entry
  <2>3. /\ entry.event = e /\ entry.prefix = EntryPrefix(id)
        /\ entry.order = i - 1 /\ entry.eventReceipt = e.receipt
        /\ entry.previous = previous
        /\ entry.receipt = <<EntryPrefix(id), i - 1, e.receipt, previous>>
    BY <2>2 DEF ChainEntry
  <2>4. entry.receipt = EntryReceipt(entry)  BY <2>3 DEF EntryReceipt
  <2>5. entry = [prefix |-> entry.prefix, order |-> i - 1,
                 eventReceipt |-> entry.event.receipt,
                 previous |-> previous, event |-> entry.event,
                 receipt |-> EntryReceipt(entry)]
    BY <2>2, <2>3, <2>4 DEF ChainEntry
  <2>6. QED  BY <2>1, <2>3, <2>5, Zenon DEF IsEntry, entry, previous, entries, e
<1>9. m = [name |-> m.name, entries |-> m.entries, receipt |-> m.receipt]
  BY <1>2, <1>3 DEF entries
<1>10. \A i, j \in 1 .. n :
         entries[i].event.receipt = entries[j].event.receipt
           => entries[i].event = entries[j].event
  BY <1>1, <1>4, <1>8
<1>11. IsRecorded(m)
  BY <1>3, <1>4, <1>5, <1>6, <1>8, <1>9, <1>10 DEF IsRecorded, Walk, entries
<1>12. QED  BY <1>1, <1>2, <1>6, <1>11 DEF n, entries

\* The chain of a recorded log verifies.
LEMMA RecordedIsValid ==
  ASSUME NEW m, IsRecorded(m)
  PROVE  ValidLog(m) /\ DOMAIN m.entries = 1 .. Len(m.entries)
<1> DEFINE n == Len(m.entries)
<1>1. m.entries = [i \in 1 .. n |-> m.entries[i]]  BY DEF IsRecorded, Walk
<1>2. DOMAIN m.entries = 1 .. n  BY <1>1
<1>3. ASSUME NEW i \in 1 .. n
      PROVE  /\ m.entries[i].order = i - 1
             /\ m.entries[i].previous = Previous(m.entries, i)
             /\ m.entries[i].eventReceipt = m.entries[i].event.receipt
             /\ m.entries[i].receipt = EntryReceipt(m.entries[i])
  <2> DEFINE e == m.entries[i]
             previous == Previous(m.entries, i)
             receipt == EntryReceipt(e)
  <2>1. e = [prefix |-> e.prefix, order |-> i - 1,
             eventReceipt |-> e.event.receipt,
             previous |-> previous, event |-> e.event, receipt |-> receipt]
    BY Zenon DEF IsRecorded, IsEntry
  <2> HIDE DEF e, previous, receipt
  <2>2. /\ e.order = i - 1 /\ e.previous = previous
        /\ e.eventReceipt = e.event.receipt /\ e.receipt = receipt
    BY <2>1
  <2>3. QED  BY <2>2 DEF e, previous, receipt
<1>4. QED  BY <1>2, <1>3 DEF ValidLog, IsRecorded
-----------------------------------------------------------------------------
(* Checkpoints. *)

CheckpointOf(last, from, to, covered) ==
  [boundary |-> last, logFrom |-> from, logTo |-> to,
   accepted |-> Accepted(covered), rejected |-> Rejected(covered),
   processing |-> covered, intact |-> TRUE]

\* A checkpoint within a log covers its entries up to the boundary.
LEMMA CheckpointIs ==
  ASSUME NEW l, NEW n \in Nat, Len(l.entries) = n, NEW b \in Nat, b < n
  PROVE  CreateCheckpoint(l, b) =
           CheckpointOf(b, l.entries[1].receipt, l.entries[b + 1].receipt,
                        SubSeq(Processing(l), 1, b + 1))
<1>1. n # 0 /\ Clamp(b, n - 1) = b /\ Clamp(b + 1, n) = b + 1  BY DEF Clamp
<1>2. QED  BY <1>1 DEF CreateCheckpoint, CheckpointOf

\* A boundary is cut once.
LEMMA CheckpointBoundary ==
  ASSUME NEW l, NEW n \in Nat, Len(l.entries) = n, NEW b \in Nat
  PROVE  LET c == CreateCheckpoint(l, b)
         IN  /\ c.boundary \in Nat
             /\ c.boundary < n \/ n = 0
             /\ c = CreateCheckpoint(l, c.boundary)
<1> DEFINE high == IF n = 0 THEN 0 ELSE n - 1
           last == Clamp(b, high)
<1>1. high \in Nat /\ last \in Nat /\ Clamp(last, high) = last
      /\ (last < n \/ n = 0)
  BY DEF Clamp
<1>2. CreateCheckpoint(l, b).boundary = last  BY DEF CreateCheckpoint
<1>3. CreateCheckpoint(l, last) = CreateCheckpoint(l, b)
  <2> HIDE DEF last, high
  <2>1. Clamp(b, high) = last  BY DEF last
  <2>2. QED  BY <1>1, <2>1 DEF CreateCheckpoint, high
<1>4. QED  BY <1>1, <1>2, <1>3

\* A checkpoint of a recorded log is one of it, and the replay resumes there.
LEMMA RecordedResumes ==
  ASSUME NEW id \in LogIds, id # NoId, NEW events \in Recordings,
         NEW m, m = CreateLog(id, events),
         NEW c, c.boundary \in Nat, c.boundary < Len(m.entries),
         c = CreateCheckpoint(m, c.boundary)
  PROVE  ValidCheckpoint(c, m) /\ ResumeReplay(m, c).ok
<1> DEFINE n == Len(m.entries)
           b == c.boundary
           covered == SubSeq(Processing(m), 1, b + 1)
           before == Before(m, c)
           stretch == EventsOf(m, 1, b + 1)
           from == m.entries[1].receipt
           to == m.entries[b + 1].receipt
<1>1. /\ IsRecorded(m) /\ m.name = LogName(id) /\ n = Len(events)
      /\ Chained(id, m.entries, events)
  BY Recorded
<1>2. n \in Nat /\ Walk(n, m.entries)  BY <1>1 DEF IsRecorded
<1>3. c = CheckpointOf(b, from, to, covered)
  BY <1>2, CheckpointIs
<1>4. ValidCheckpoint(c, m)
  <2> HIDE DEF from, to, b, covered
  <2>1. c.logFrom = from /\ c.logTo = to /\ c.intact = TRUE
    BY <1>3 DEF CheckpointOf
  <2>2. ValidLog(m)  BY <1>1, RecordedIsValid
  <2>3. QED  BY <2>1, <2>2 DEF ValidCheckpoint, from, to, b
<1>5. Processing(before) = [i \in 1 .. b + 1 |-> Processing(m)[i]]
  <2>1. Processing(Before(m, c)) = FirstsProcessed(m, c.boundary + 1)
    BY <1>2, ProcessingSplit
  <2>2. QED  BY <2>1 DEF FirstsProcessed
<1>6. SubSeq(Processing(before), 1, b + 1) = covered
  <2> DEFINE all == Processing(m)
             p == Processing(before)
             U == {all[i] : i \in 1 .. n}
  <2>1. DOMAIN m.entries = 1 .. n  BY <1>1, RecordedIsValid
  <2>2. all = [i \in 1 .. n |-> all[i]]  BY <2>1 DEF Processing
  <2>3. \A i \in 1 .. n : all[i] \in U  OBVIOUS
  <2> HIDE DEF all, U, p, n
  <2>4. all \in Seq(U) /\ Len(all) = n  BY <1>2, <2>2, <2>3
  <2>5. p = [i \in 1 .. b + 1 |-> all[i]]  BY <1>5 DEF p, all
  <2>6. \A i \in 1 .. b + 1 : all[i] \in U  BY <1>2, <2>3 DEF n
  <2>7. p \in Seq(U) /\ Len(p) = b + 1  BY <2>5, <2>6
  <2>8. SubSeq(p, 1, b + 1) = p  BY <2>7
  <2>9. SubSeq(all, 1, b + 1) = [i \in 1 .. b + 1 |-> all[i]]
    <3>1. b + 1 <= n  BY <1>2 DEF n
    <3>2. QED  BY <1>2, <2>4, <3>1
  <2>10. QED  BY <2>5, <2>8, <2>9 DEF p, all
<1>7. /\ Len(before.entries) = b + 1
      /\ \A i \in 1 .. b + 1 : before.entries[i] = m.entries[i]
  <2> DEFINE V == {m.entries[i].event : i \in 1 .. n}
             own == CreateLog(id, stretch).entries
  <2>1. stretch = Firsts(m, b + 1)  BY <1>2, EventsOfIs
  <2> HIDE DEF stretch
  <2>2. \A i \in 1 .. b + 1 : i \in 1 .. n  BY <1>2
  <2>3. ASSUME NEW i \in 1 .. b + 1
        PROVE  m.entries[i].event = events[i] /\ m.entries[i].event \in V
    <3>1. i \in 1 .. n  BY <2>2
    <3>2. m.entries[i] = ChainEntry(id, i, events[i], Previous(m.entries, i))
      BY <1>1, <3>1 DEF Chained
    <3>3. m.entries[i].event = events[i]  BY <3>2 DEF ChainEntry
    <3>4. QED  BY <3>1, <3>3
  <2> HIDE DEF V
  <2>4. /\ stretch \in Seq(V) /\ Len(stretch) = b + 1
        /\ \A i \in 1 .. b + 1 : stretch[i] = events[i]
    <3> DEFINE k == b + 1
    <3>1. k \in Nat  OBVIOUS
    <3>2. stretch = [i \in 1 .. k |-> m.entries[i].event]  BY <2>1 DEF Firsts
    <3>3. \A i \in 1 .. k : m.entries[i].event = events[i]
                            /\ m.entries[i].event \in V
      BY <2>3
    <3> HIDE DEF k, n, b
    <3>4. \A i \in 1 .. k : stretch[i] = events[i] /\ stretch[i] \in V
      BY <3>2, <3>3
    <3>5. stretch = [i \in 1 .. k |-> stretch[i]]  BY <3>2
    <3>6. stretch \in Seq(V) /\ Len(stretch) = k
      BY <3>1, <3>4, <3>5, WalkIsSeq
    <3>7. QED  BY <3>4, <3>6 DEF k
  <2>5. Chained(id, own, stretch)  BY <2>4, CreateLogChained
  <2> HIDE DEF own, n, b
  <2>6. b + 1 \in Nat /\ n \in Nat /\ b + 1 <= n  BY <1>2 DEF b, n
  <2>7. \A i \in 1 .. b + 1 : own[i] = m.entries[i]
    <3> DEFINE k == b + 1
               entries == m.entries
    <3>1. /\ Chained(id, own, stretch) /\ Chained(id, entries, events)
          /\ k \in Nat /\ Len(stretch) \in Nat /\ Len(events) \in Nat
          /\ k <= Len(stretch) /\ k <= Len(events)
          /\ \A i \in 1 .. k : stretch[i] = events[i]
      BY <1>1, <2>4, <2>5, <2>6
    <3> HIDE DEF k, entries
    <3>2. \A i \in 1 .. k : own[i] = entries[i]  BY <3>1, ChainedAlike
    <3>3. QED  BY <3>2 DEF k, entries
  <2>8. Len(own) = b + 1
    <3>1. own = [i \in 1 .. b + 1 |-> own[i]]
      BY <2>4, <2>5 DEF Chained, Walk
    <3>2. QED  BY <2>6, <3>1
  <2>9. m.name = id  BY <1>1 DEF LogName
  <2>10. before.entries = own  BY <2>9 DEF Before, own, stretch, b
  <2>11. QED  BY <2>7, <2>8, <2>10
<1>8. CreateCheckpoint(before, b) = c
  <2>1. /\ before.entries[1].receipt = from
        /\ before.entries[b + 1].receipt = to
    <3>1. 1 \in 1 .. b + 1 /\ b + 1 \in 1 .. b + 1  OBVIOUS
    <3> HIDE DEF before
    <3>2. QED  BY <1>7, <3>1
  <2>2. b + 1 \in Nat /\ b < b + 1  OBVIOUS
  <2> HIDE DEF before, covered, from, to
  <2>3. CreateCheckpoint(before, b) =
          CheckpointOf(b, before.entries[1].receipt,
                       before.entries[b + 1].receipt,
                       SubSeq(Processing(before), 1, b + 1))
    BY <1>7, <2>2, CheckpointIs
  <2>4. QED  BY <1>3, <1>6, <2>1, <2>3
<1>9. QED
  <2> DEFINE result == [ok |-> TRUE,
                 accepted |-> Accepted(Processing(before)
                                         \o Processing(After(m, c))),
                 rejected |-> c.rejected (+) Rejected(Processing(After(m, c)))]
  <2>1. ResumeReplay(m, c) = result
    BY <1>4, <1>8, ResumeIs, Zenon
  <2>2. result.ok  OBVIOUS
  <2>3. QED  BY <1>4, <2>1, <2>2
-----------------------------------------------------------------------------
(* What may be stored of a log. *)

\* What a supplier may hold of an event, and what may be left of it.
Copies(m, P) ==
  {TransportEvent(m.receipt, m.success, m.offer, p) : p \in P}

Rewritten(e) == TransportEvent(Wrong, e.success, e.offer, e.package)

Stored(m, P) ==
  (Copies(m, P) \cup {NoEvent})
    \cup {Rewritten(e) : e \in Copies(m, P) \cup {NoEvent}}

SoundEntry(e, m, P) ==
  /\ e = [prefix |-> m.prefix, order |-> m.order,
          eventReceipt |-> m.eventReceipt, previous |-> e.previous,
          event |-> e.event, receipt |-> m.receipt]
  /\ e.previous \in {m.previous, <<Wrong>>}
  /\ e.event \in Stored(m.event, P)

\* A log that was recorded as m.
SoundLog(l, m) ==
  /\ l = [name |-> m.name, entries |-> l.entries, receipt |-> m.receipt]
  /\ Len(l.entries) = Len(m.entries)
  /\ Walk(Len(m.entries), l.entries)
  /\ \A i \in 1 .. Len(m.entries) :
       SoundEntry(l.entries[i], m.entries[i], PackagesOf(m))

IsEvent(e) ==
  /\ e = TransportEvent(e.receipt, e.success, e.offer, e.package)
  /\ e.receipt \notin {Wrong, None}

\* The fields of an event, and what replacing one of them makes.
LEMMA EventFields ==
  ASSUME NEW r, NEW s, NEW o, NEW p
  PROVE  LET e == TransportEvent(r, s, o, p)
         IN  /\ e.receipt = r /\ e.success = s /\ e.offer = o /\ e.package = p
             /\ [e EXCEPT !.receipt = Wrong] = TransportEvent(Wrong, s, o, p)
             /\ \A q : [e EXCEPT !.package = q] = TransportEvent(r, s, o, q)
BY DEF TransportEvent

\* An event is a copy of itself, and damaging what is stored for one leaves
\* something that may be stored for it.
LEMMA CopyFacts ==
  ASSUME NEW m, IsEvent(m), NEW P, NoPackage \in P
  PROVE  /\ m.package \in P => m \in Copies(m, P)
         /\ \A e \in Copies(m, P) : e.receipt = m.receipt
         /\ \A e \in Stored(m, P) : /\ e.receipt \in {m.receipt, Wrong, None}
                                    /\ e.receipt = m.receipt
                                         => e \in Copies(m, P)
                                    /\ [e EXCEPT !.receipt = Wrong]
                                         \in Stored(m, P)
                                    /\ [e EXCEPT !.package = NoPackage]
                                         \in Stored(m, P)
         /\ NoEvent \in Stored(m, P)
         /\ Copies(m, P) \subseteq Stored(m, P)
         /\ \A p \in P : [m EXCEPT !.package = p] \in Copies(m, P)
<1>1. /\ m = TransportEvent(m.receipt, m.success, m.offer, m.package)
      /\ m.receipt # Wrong /\ m.receipt # None
  BY DEF IsEvent
<1>2. m.package \in P => m \in Copies(m, P)  BY <1>1 DEF Copies
<1>3. \A e \in Copies(m, P) : e.receipt = m.receipt
  BY EventFields DEF Copies
<1>4. NoEvent \in Stored(m, P) /\ Copies(m, P) \subseteq Stored(m, P)
  BY DEF Stored
<1>5. ASSUME NEW e \in Copies(m, P) \cup {NoEvent}
      PROVE  /\ e.receipt \in {m.receipt, None}
             /\ e.receipt = m.receipt => e \in Copies(m, P)
             /\ [e EXCEPT !.receipt = Wrong] = Rewritten(e)
             /\ [e EXCEPT !.package = NoPackage] \in Copies(m, P) \cup {NoEvent}
             /\ Rewritten(e).receipt = Wrong
             /\ [Rewritten(e) EXCEPT !.receipt = Wrong] = Rewritten(e)
             /\ [Rewritten(e) EXCEPT !.package = NoPackage]
                  = Rewritten([e EXCEPT !.package = NoPackage])
  <2>1. PICK r, s, o, p : /\ e = TransportEvent(r, s, o, p)
                          /\ \/ e \in Copies(m, P) /\ r = m.receipt
                                /\ s = m.success /\ o = m.offer
                             \/ e = NoEvent /\ r = None /\ s = FALSE /\ o = None
                                /\ p = NoPackage
    BY DEF Copies, NoEvent
  <2>2. /\ e.receipt = r /\ e.success = s /\ e.offer = o /\ e.package = p
        /\ [e EXCEPT !.receipt = Wrong] = TransportEvent(Wrong, s, o, p)
        /\ [e EXCEPT !.package = NoPackage] = TransportEvent(r, s, o, NoPackage)
    BY <2>1, EventFields
  <2>3. Rewritten(e) = TransportEvent(Wrong, s, o, p)  BY <2>2 DEF Rewritten
  <2>4. [e EXCEPT !.package = NoPackage] \in Copies(m, P) \cup {NoEvent}
    <3>1. CASE e = NoEvent /\ r = None /\ s = FALSE /\ o = None
      BY <2>2, <3>1 DEF NoEvent
    <3>2. CASE r = m.receipt /\ s = m.success /\ o = m.offer
      BY <2>2, <3>2 DEF Copies
    <3>3. QED  BY <2>1, <3>1, <3>2
  <2>5. e.receipt \in {m.receipt, None}
        /\ (e.receipt = m.receipt => e \in Copies(m, P))
    BY <1>1, <2>1, <2>2
  <2>6. /\ Rewritten(e).receipt = Wrong
        /\ [Rewritten(e) EXCEPT !.receipt = Wrong] = Rewritten(e)
        /\ [Rewritten(e) EXCEPT !.package = NoPackage]
             = TransportEvent(Wrong, s, o, NoPackage)
    BY <2>3, EventFields
  <2>7. Rewritten([e EXCEPT !.package = NoPackage])
          = TransportEvent(Wrong, s, o, NoPackage)
    <3> DEFINE f == [e EXCEPT !.package = NoPackage]
    <3>1. f = TransportEvent(r, s, o, NoPackage)  BY <2>2
    <3> HIDE DEF f
    <3>2. f.success = s /\ f.offer = o /\ f.package = NoPackage
      BY <3>1, EventFields
    <3>3. Rewritten(f) = TransportEvent(Wrong, s, o, NoPackage)
      BY <3>2 DEF Rewritten
    <3>4. QED  BY <3>3 DEF f
  <2>8. [e EXCEPT !.receipt = Wrong] = Rewritten(e)  BY <2>2, <2>3
  <2>9. QED  BY <2>4, <2>5, <2>6, <2>7, <2>8
<1>6. ASSUME NEW e \in Stored(m, P)
      PROVE  /\ e.receipt \in {m.receipt, Wrong, None}
             /\ e.receipt = m.receipt => e \in Copies(m, P)
             /\ [e EXCEPT !.receipt = Wrong] \in Stored(m, P)
             /\ [e EXCEPT !.package = NoPackage] \in Stored(m, P)
  <2>1. CASE e \in Copies(m, P) \cup {NoEvent}
    <3>1. /\ e.receipt \in {m.receipt, None}
          /\ e.receipt = m.receipt => e \in Copies(m, P)
          /\ [e EXCEPT !.receipt = Wrong] = Rewritten(e)
          /\ [e EXCEPT !.package = NoPackage] \in Copies(m, P) \cup {NoEvent}
      BY <1>5, <2>1
    <3>2. Rewritten(e) \in Stored(m, P)  BY <2>1 DEF Stored
    <3>3. Copies(m, P) \cup {NoEvent} \subseteq Stored(m, P)  BY DEF Stored
    <3>4. QED  BY <3>1, <3>2, <3>3
  <2>2. ASSUME NEW f \in Copies(m, P) \cup {NoEvent}, e = Rewritten(f)
        PROVE  /\ e.receipt = Wrong
               /\ [e EXCEPT !.receipt = Wrong] \in Stored(m, P)
               /\ [e EXCEPT !.package = NoPackage] \in Stored(m, P)
    <3>1. /\ Rewritten(f).receipt = Wrong
          /\ [Rewritten(f) EXCEPT !.receipt = Wrong] = Rewritten(f)
          /\ [Rewritten(f) EXCEPT !.package = NoPackage]
               = Rewritten([f EXCEPT !.package = NoPackage])
          /\ [f EXCEPT !.package = NoPackage] \in Copies(m, P) \cup {NoEvent}
      BY <1>5
    <3>2. \A g \in Copies(m, P) \cup {NoEvent} : Rewritten(g) \in Stored(m, P)
      BY DEF Stored
    <3>3. QED  BY <2>2, <3>1, <3>2
  <2>3. \/ e \in Copies(m, P) \cup {NoEvent}
        \/ \E f \in Copies(m, P) \cup {NoEvent} : e = Rewritten(f)
    BY DEF Stored
  <2>4. QED  BY <1>1, <2>1, <2>2, <2>3
<1>7. ASSUME NEW p \in P  PROVE [m EXCEPT !.package = p] \in Copies(m, P)
  <2>1. [m EXCEPT !.package = p]
          = TransportEvent(m.receipt, m.success, m.offer, p)
    BY <1>1, EventFields
  <2>2. QED  BY <2>1 DEF Copies
<1>8. QED  BY <1>2, <1>3, <1>4, <1>6, <1>7
-----------------------------------------------------------------------------
(* Logs that were recorded as another. *)

\* The events of a recorded log have the receipts their entries say, and none
\* has that of the log.
LEMMA RecordedEvents ==
  ASSUME NEW m, IsRecorded(m), NEW i \in 1 .. Len(m.entries)
  PROVE  /\ IsEvent(m.entries[i].event)
         /\ m.entries[i].event.receipt # m.receipt
         /\ m.entries[i].eventReceipt = m.entries[i].event.receipt
         /\ m.entries[i].event.package \in PackagesOf(m)
         /\ NoPackage \in PackagesOf(m)
<1>1. IsEvent(m.entries[i].event) /\ m.entries[i].event.receipt # m.receipt
  BY Zenon DEF IsRecorded, IsEntry, IsEvent
<1>2. ValidLog(m) /\ i \in DOMAIN m.entries  BY RecordedIsValid
<1>3. QED  BY <1>1, <1>2 DEF ValidLog, PackagesOf

\* The record of an entry.
LEMMA RecordedEntry ==
  ASSUME NEW m, IsRecorded(m), NEW i \in 1 .. Len(m.entries)
  PROVE  LET e == m.entries[i]
         IN  e = [prefix |-> e.prefix, order |-> e.order,
                  eventReceipt |-> e.eventReceipt, previous |-> e.previous,
                  event |-> e.event, receipt |-> e.receipt]
<1> DEFINE e == m.entries[i]
           previous == Previous(m.entries, i)
           receipt == EntryReceipt(e)
<1>1. e = [prefix |-> e.prefix, order |-> i - 1,
           eventReceipt |-> e.event.receipt,
           previous |-> previous, event |-> e.event, receipt |-> receipt]
  BY Zenon DEF IsRecorded, IsEntry
<1> HIDE DEF e, previous, receipt
<1>2. e = [prefix |-> e.prefix, order |-> e.order,
           eventReceipt |-> e.eventReceipt, previous |-> e.previous,
           event |-> e.event, receipt |-> e.receipt]
  BY <1>1
<1>3. QED  BY <1>2 DEF e

\* A recorded log is sound as it is.
LEMMA MadeIsSound ==
  ASSUME NEW m, IsRecorded(m)
  PROVE  SoundLog(m, m)
<1> DEFINE n == Len(m.entries)
           P == PackagesOf(m)
<1>1. ASSUME NEW i \in 1 .. n  PROVE SoundEntry(m.entries[i], m.entries[i], P)
  <2> DEFINE e == m.entries[i]
  <2>1. e.event \in Stored(e.event, P)
    BY RecordedEvents, CopyFacts
  <2>2. e = [prefix |-> e.prefix, order |-> e.order,
             eventReceipt |-> e.eventReceipt, previous |-> e.previous,
             event |-> e.event, receipt |-> e.receipt]
    BY RecordedEntry
  <2> HIDE DEF e, P
  <2>3. SoundEntry(e, e, P)  BY <2>1, <2>2 DEF SoundEntry
  <2>4. QED  BY <2>3 DEF e
<1>2. QED  BY <1>1 DEF SoundLog, IsRecorded

\* A sound log has the entries of the recorded one but for their events and
\* links.
LEMMA SoundFacts ==
  ASSUME NEW m, IsRecorded(m), NEW l, SoundLog(l, m)
  PROVE  /\ Len(m.entries) \in Nat
         /\ DOMAIN l.entries = 1 .. Len(m.entries)
         /\ Len(l.entries) = Len(m.entries)
         /\ l.receipt = m.receipt /\ l.name = m.name
         /\ \A i \in 1 .. Len(m.entries) :
              /\ l.entries[i].prefix = m.entries[i].prefix
              /\ l.entries[i].order = m.entries[i].order
              /\ l.entries[i].eventReceipt = m.entries[i].eventReceipt
              /\ l.entries[i].receipt = m.entries[i].receipt
              /\ l.entries[i].event \in Stored(m.entries[i].event,
                   PackagesOf(m))
              /\ l.entries[i].event.receipt \in {m.entries[i].eventReceipt,
                                                 Wrong, None}
              /\ l.entries[i].event.receipt = m.entries[i].eventReceipt
                   => l.entries[i].event
                        \in Copies(m.entries[i].event, PackagesOf(m))
<1> DEFINE n == Len(m.entries)
           P == PackagesOf(m)
<1>1. n \in Nat  BY DEF IsRecorded
<1>2. l.entries = [i \in 1 .. n |-> l.entries[i]]  BY DEF SoundLog, Walk
<1>3. DOMAIN l.entries = 1 .. n /\ Len(l.entries) = n  BY <1>1, <1>2
<1>4. l.receipt = m.receipt /\ l.name = m.name
  <2> DEFINE entries == l.entries
  <2>1. l = [name |-> m.name, entries |-> entries, receipt |-> m.receipt]
    BY DEF SoundLog
  <2> HIDE DEF entries
  <2>2. QED  BY <2>1
<1>5. ASSUME NEW i \in 1 .. n
      PROVE  LET e == l.entries[i]
                 r == m.entries[i]
             IN  /\ e.prefix = r.prefix /\ e.order = r.order
                 /\ e.eventReceipt = r.eventReceipt /\ e.receipt = r.receipt
                 /\ e.event \in Stored(r.event, P)
                 /\ e.event.receipt \in {r.eventReceipt, Wrong, None}
                 /\ e.event.receipt = r.eventReceipt
                      => e.event \in Copies(r.event, P)
  <2> DEFINE e == l.entries[i]
             r == m.entries[i]
  <2>1. SoundEntry(e, r, P)  BY DEF SoundLog
  <2>2. /\ IsEvent(r.event) /\ NoPackage \in P
        /\ r.eventReceipt = r.event.receipt
    BY RecordedEvents
  <2> HIDE DEF e, r, P
  <2>3. /\ e.prefix = r.prefix /\ e.order = r.order
        /\ e.eventReceipt = r.eventReceipt /\ e.receipt = r.receipt
    <3> DEFINE previous == e.previous
               event == e.event
    <3>1. e = [prefix |-> r.prefix, order |-> r.order,
               eventReceipt |-> r.eventReceipt, previous |-> previous,
               event |-> event, receipt |-> r.receipt]
      BY <2>1 DEF SoundEntry
    <3> HIDE DEF previous, event
    <3>2. QED  BY <3>1
  <2>4. e.event \in Stored(r.event, P)  BY <2>1 DEF SoundEntry
  <2>5. /\ e.event.receipt \in {r.event.receipt, Wrong, None}
        /\ e.event.receipt = r.event.receipt => e.event \in Copies(r.event, P)
    BY <2>2, <2>4, CopyFacts
  <2>6. QED  BY <2>2, <2>3, <2>4, <2>5 DEF e, r, P
<1>6. QED  BY <1>1, <1>3, <1>4, <1>5

Changed(l, i, e) == [l EXCEPT !.entries[i] = e]

\* Another entry that fits may take the place of one.
LEMMA SoundChange ==
  ASSUME NEW m, IsRecorded(m), NEW l, SoundLog(l, m),
         NEW i \in 1 .. Len(m.entries), NEW e,
         SoundEntry(e, m.entries[i], PackagesOf(m)),
         NEW changed, changed = Changed(l, i, e)
  PROVE  /\ SoundLog(changed, m)
         /\ changed.entries[i] = e
         /\ \A j \in 1 .. Len(m.entries) :
              j # i => changed.entries[j] = l.entries[j]
<1> DEFINE n == Len(m.entries)
           entries == l.entries
           new == [entries EXCEPT ![i] = e]
<1>1. /\ l = [name |-> m.name, entries |-> entries, receipt |-> m.receipt]
      /\ entries = [j \in 1 .. n |-> entries[j]] /\ Len(entries) = n
  BY DEF SoundLog, Walk
<1>2. n \in Nat  BY DEF IsRecorded
<1>3. changed = [l EXCEPT !.entries = new]  BY <1>1 DEF Changed
<1> HIDE DEF n, entries, new
<1>4. changed = [name |-> m.name, entries |-> new, receipt |-> m.receipt]
  BY <1>1, <1>3
<1>5. /\ new = [j \in 1 .. n |-> new[j]] /\ Len(new) = n
      /\ new[i] = e
      /\ \A j \in 1 .. n : j # i => new[j] = entries[j]
  <2>1. i \in 1 .. n  BY DEF n
  <2>2. new = [j \in 1 .. n |-> IF j = i THEN e ELSE entries[j]]
    BY <1>1 DEF new
  <2>3. /\ \A j \in 1 .. n : new[j] = IF j = i THEN e ELSE entries[j]
        /\ new = [j \in 1 .. n |-> new[j]]
    BY <2>2
  <2>4. QED  BY <1>2, <2>1, <2>3
<1>6. changed.entries = new  BY <1>4
<1>7. ASSUME NEW j \in 1 .. n
      PROVE  SoundEntry(new[j], m.entries[j], PackagesOf(m))
  <2>1. CASE j = i  BY <1>5, <2>1
  <2>2. CASE j # i  BY <1>5, <2>2 DEF SoundLog, entries, n
  <2>3. QED  BY <2>1, <2>2
<1>8. SoundLog(changed, m)
  BY <1>4, <1>5, <1>6, <1>7 DEF SoundLog, Walk, n
<1>9. QED  BY <1>5, <1>6, <1>8 DEF n, entries

\* An entry with another event, or with another previous receipt.
LEMMA EntryChange ==
  ASSUME NEW r, NEW P, NEW e, SoundEntry(e, r, P)
  PROVE  /\ \A event \in Stored(r.event, P) :
              /\ SoundEntry([e EXCEPT !.event = event], r, P)
              /\ [e EXCEPT !.event = event].event = event
              /\ [e EXCEPT !.event = event].previous = e.previous
         /\ SoundEntry([e EXCEPT !.previous = <<Wrong>>], r, P)
<1> DEFINE previous == e.previous
           old == e.event
           wrong == <<Wrong>>
<1>1. /\ e = [prefix |-> r.prefix, order |-> r.order,
              eventReceipt |-> r.eventReceipt, previous |-> previous,
              event |-> old, receipt |-> r.receipt]
      /\ previous \in {r.previous, wrong} /\ old \in Stored(r.event, P)
  BY DEF SoundEntry
<1> HIDE DEF previous, old, wrong
<1>2. ASSUME NEW event \in Stored(r.event, P)
      PROVE  /\ SoundEntry([e EXCEPT !.event = event], r, P)
             /\ [e EXCEPT !.event = event].event = event
             /\ [e EXCEPT !.event = event].previous = e.previous
  <2> DEFINE f == [e EXCEPT !.event = event]
  <2>1. f = [prefix |-> r.prefix, order |-> r.order,
             eventReceipt |-> r.eventReceipt, previous |-> previous,
             event |-> event, receipt |-> r.receipt]
    BY <1>1
  <2> HIDE DEF f
  <2>2. f.previous = previous /\ f.event = event /\ e.previous = previous
    BY <1>1, <2>1
  <2>3. SoundEntry(f, r, P)  BY <1>1, <2>1, <2>2 DEF SoundEntry, wrong
  <2>4. QED  BY <2>2, <2>3 DEF f
<1>3. SoundEntry([e EXCEPT !.previous = wrong], r, P)
  <2> DEFINE f == [e EXCEPT !.previous = wrong]
  <2>1. f = [prefix |-> r.prefix, order |-> r.order,
             eventReceipt |-> r.eventReceipt, previous |-> wrong,
             event |-> old, receipt |-> r.receipt]
    BY <1>1
  <2> HIDE DEF f
  <2>2. f.previous = wrong /\ f.event = old  BY <2>1
  <2>3. SoundEntry(f, r, P)  BY <1>1, <2>1, <2>2 DEF SoundEntry, wrong
  <2>4. QED  BY <2>3 DEF f
<1>4. QED  BY <1>2, <1>3 DEF wrong

\* A whole log is the recorded one but for the packages of its events.
LEMMA WholeEvents ==
  ASSUME NEW m, IsRecorded(m), NEW l, SoundLog(l, m), ValidLog(l),
         NEW i \in 1 .. Len(m.entries)
  PROVE  /\ l.entries[i].event \in Copies(m.entries[i].event, PackagesOf(m))
         /\ l.entries[i].previous = m.entries[i].previous
<1>1. i \in DOMAIN l.entries /\ DOMAIN l.entries = 1 .. Len(m.entries)
  BY SoundFacts
<1>2. /\ l.entries[i].eventReceipt = l.entries[i].event.receipt
      /\ l.entries[i].previous = Previous(l.entries, i)
  BY <1>1 DEF ValidLog
<1>3. l.entries[i].event \in Copies(m.entries[i].event, PackagesOf(m))
  BY <1>2, SoundFacts
<1>4. i \in DOMAIN m.entries /\ ValidLog(m)  BY RecordedIsValid
<1>5. m.entries[i].previous = Previous(m.entries, i)  BY <1>4 DEF ValidLog
<1>6. Previous(l.entries, i) = Previous(m.entries, i)
  <2>1. CASE i = 1  BY <2>1 DEF Previous
  <2>2. CASE i # 1
    <3>1. i - 1 \in 1 .. Len(m.entries)  BY <2>2 DEF IsRecorded
    <3>2. l.entries[i - 1].receipt = m.entries[i - 1].receipt
      BY <3>1, SoundFacts
    <3>3. QED  BY <2>2, <3>2 DEF Previous
  <2>3. QED  BY <2>1, <2>2
<1>7. QED  BY <1>2, <1>3, <1>5, <1>6
-----------------------------------------------------------------------------
(* Repair. *)

\* Where a repaired event goes.
LEMMA RepairedEntryIs ==
  ASSUME NEW l, NEW n \in Nat, Len(l.entries) = n, NEW target
  PROVE  /\ RepairedEntry(l, target) \in 0 .. n
         /\ RepairedEntry(l, target) # 0
              => l.entries[RepairedEntry(l, target)].eventReceipt = target
         /\ \A k \in 1 .. n : l.entries[k].eventReceipt = target
              => RepairedEntry(l, target) # 0
<1> DEFINE At == {i \in 1 .. n : l.entries[i].eventReceipt = target}
<1>1. At \in SUBSET Nat  OBVIOUS
<1>2. CASE At = {}
  <2>1. RepairedEntry(l, target) = 0
    BY <1>2 DEF RepairedEntry, SelectInSeq
  <2>2. QED  BY <1>2, <2>1
<1>3. CASE At # {}
  <2>1. RepairedEntry(l, target) = Min(At)
    BY <1>3 DEF RepairedEntry, SelectInSeq
  <2>2. Min(At) \in At
    <3> HIDE DEF At
    <3>1. QED  BY <1>1, <1>3, LeastNat
  <2>3. PICK i \in 1 .. n : i = Min(At) /\ l.entries[i].eventReceipt = target
    BY <2>2
  <2> HIDE DEF At
  <2>4. QED  BY <2>1, <2>3
<1>4. QED  BY <1>2, <1>3

\* A payload that replaces by what was recorded, or by what is like it.
SoundPayload(p, m) ==
  /\ p.kind = "transport-event" =>
       /\ p.receipt = p.evidence.receipt
       /\ \E i \in 1 .. Len(m.entries) :
            p.evidence \in Copies(m.entries[i].event, PackagesOf(m))
  /\ p.kind = "transport-log-chain" => p.evidence = m

\* What applying a payload makes of a log.
Applied(a, l, p, m) ==
  /\ a.ok => /\ SoundLog(a.log, m)
             /\ p.kind = "transport-log-chain" => a.log = m
             /\ \/ a.log = m
                \/ /\ ValidLog(a.log)
                   /\ \E i \in 1 .. Len(m.entries) :
                        \A j \in 1 .. Len(m.entries) :
                          j # i => a.log.entries[j] = l.entries[j]
  /\ ~a.ok => a.log = l
  /\ a.ok \in BOOLEAN

\* A sound payload that verifies leaves a sound log sound
\* (applyRepairPayload).
LEMMA ApplySound ==
  ASSUME NEW m, IsRecorded(m), NEW l, SoundLog(l, m),
         NEW p, SoundPayload(p, m), ValidPayload(p),
         p.kind \in {"transport-event", "transport-log-chain"}
  PROVE  Applied(ApplyPayload(l, p), l, p, m)
<1> DEFINE n == Len(m.entries)
           i == RepairedEntry(l, p.target)
           P == PackagesOf(m)
           repaired == [l EXCEPT !.entries[i].event = p.evidence]
<1>1. CASE p.kind = "transport-log-chain"
  <2>1. ApplyPayload(l, p) = [ok |-> TRUE, log |-> m]
    BY <1>1 DEF ApplyPayload, SoundPayload
  <2>2. SoundLog(m, m)  BY MadeIsSound
  <2>3. QED  BY <2>1, <2>2 DEF Applied
<1>2. CASE p.kind = "transport-event" /\ i # 0 /\ ValidLog(repaired)
  <2>1. ApplyPayload(l, p) = [ok |-> TRUE, log |-> repaired]
    BY <1>2 DEF ApplyPayload
  <2>2. PICK k \in 1 .. n : p.evidence \in Copies(m.entries[k].event, P)
    BY <1>2 DEF SoundPayload
  <2>3. p.receipt = p.target /\ p.receipt = p.evidence.receipt
    BY <1>2 DEF ValidPayload, SoundPayload
  <2>4. n \in Nat /\ Len(l.entries) = n  BY SoundFacts
  <2>5. i \in 1 .. n /\ l.entries[i].eventReceipt = p.target
    <3>1. i \in 0 .. n /\ l.entries[i].eventReceipt = p.target
      BY <1>2, <2>4, RepairedEntryIs
    <3>2. QED  BY <1>2, <2>4, <3>1
  <2> HIDE DEF n, i
  <2>6. m.entries[i].event.receipt = p.target
    <3>1. l.entries[i].eventReceipt = m.entries[i].eventReceipt
      BY <2>5, SoundFacts DEF n
    <3>2. QED  BY <2>5, <3>1, RecordedEvents DEF n
  <2>7. m.entries[k].event.receipt = p.target
    <3>1. IsEvent(m.entries[k].event) /\ NoPackage \in P
      BY <2>2, RecordedEvents DEF n
    <3>2. p.evidence.receipt = m.entries[k].event.receipt
      BY <2>2, <3>1, CopyFacts
    <3>3. QED  BY <2>3, <3>2
  <2>8. m.entries[i].event = m.entries[k].event
    BY <2>2, <2>5, <2>6, <2>7 DEF IsRecorded, n
  <2>9. p.evidence \in Stored(m.entries[i].event, P)
    BY <2>2, <2>8 DEF Stored
  <2> DEFINE e == [l.entries[i] EXCEPT !.event = p.evidence]
  <2>10. SoundEntry(e, m.entries[i], P)
    <3>1. SoundEntry(l.entries[i], m.entries[i], P)  BY <2>5 DEF SoundLog, n
    <3> HIDE DEF P
    <3>2. QED  BY <2>9, <3>1, EntryChange
  <2>11. repaired = Changed(l, i, e)  BY DEF Changed
  <2> HIDE DEF e, repaired
  <2>12. /\ SoundLog(repaired, m)
         /\ \A j \in 1 .. n : j # i => repaired.entries[j] = l.entries[j]
    BY <2>5, <2>10, <2>11, SoundChange DEF n
  <2> DEFINE a == ApplyPayload(l, p)
  <2>13. a.ok = TRUE /\ a.log = repaired  BY <2>1
  <2> HIDE DEF a
  <2>14. Applied(a, l, p, m)  BY <1>2, <2>5, <2>12, <2>13 DEF Applied, n
  <2>15. QED  BY <2>14 DEF a
<1>3. CASE p.kind = "transport-event" /\ ~(i # 0 /\ ValidLog(repaired))
  <2>1. ApplyPayload(l, p) = [ok |-> FALSE, log |-> l]
    BY <1>3 DEF ApplyPayload
  <2>2. QED  BY <2>1 DEF Applied
<1>4. QED  BY <1>1, <1>2, <1>3

Mending == INSTANCE FoldTheorems WITH
  Step <- LAMBDA nothing, evidence, p : RepairStep(evidence, p)

Mended(a, m) ==
  /\ a = [ok |-> a.ok, log |-> a.log, bundle |-> a.bundle]
  /\ a.ok \in BOOLEAN
  /\ SoundLog(a.log, m)

\* The same for one step of a repair.
LEMMA RepairStepSound ==
  ASSUME NEW m, IsRecorded(m), NEW a, Mended(a, m),
         NEW p, SoundPayload(p, m), ValidPayload(p)
  PROVE  Mended(RepairStep(a, p), m)
<1> DEFINE l == a.log
           b == a.bundle
           applied == ApplyPayload(l, p)
           isLog == p.kind \in {"transport-event", "transport-log-chain"}
<1>1. CASE ~a.ok  BY <1>1 DEF RepairStep
<1>2. CASE a.ok /\ isLog
  <2>1. Applied(applied, l, p, m)  BY <1>2, ApplySound DEF Mended
  <2> DEFINE ok == applied.ok
             new == applied.log
             result == RepairStep(a, p)
  <2>2. ok \in BOOLEAN /\ SoundLog(new, m)
    BY <2>1 DEF Applied, Mended
  <2>3. result = [a EXCEPT !.ok = ok, !.log = new]
    BY <1>2 DEF RepairStep
  <2> DEFINE was == a.ok
  <2>4. a = [ok |-> was, log |-> l, bundle |-> b]  BY DEF Mended
  <2> HIDE DEF ok, new, result, l, b, was
  <2>5. result = [ok |-> ok, log |-> new, bundle |-> b]  BY <2>3, <2>4
  <2>6. result.ok = ok /\ result.log = new /\ result.bundle = b  BY <2>5
  <2>7. Mended(result, m)  BY <2>2, <2>5, <2>6 DEF Mended
  <2>8. QED  BY <2>7 DEF result
<1>3. CASE a.ok /\ p.kind = "compaction-bundle"
  <2> DEFINE new == p.evidence
             result == RepairStep(a, p)
             ok == a.ok
  <2>1. result = [a EXCEPT !.bundle = new]  BY <1>3 DEF RepairStep
  <2>2. a = [ok |-> ok, log |-> l, bundle |-> b] /\ SoundLog(l, m)
        /\ ok \in BOOLEAN
    BY DEF Mended
  <2> HIDE DEF new, result, l, b, ok
  <2>3. result = [ok |-> ok, log |-> l, bundle |-> new]  BY <2>1, <2>2
  <2>4. result.ok = ok /\ result.log = l /\ result.bundle = new  BY <2>3
  <2>5. Mended(result, m)  BY <2>2, <2>3, <2>4 DEF Mended
  <2>6. QED  BY <2>5 DEF result
<1>4. CASE a.ok /\ ~isLog /\ p.kind # "compaction-bundle"
  BY <1>4 DEF RepairStep
<1>5. QED  BY <1>1, <1>2, <1>3, <1>4 DEF Mended

\* What repair starts from, and what it ends with.
RepairStart(l, b, payloads) ==
  [ok |-> \A i \in DOMAIN payloads : ValidPayload(payloads[i]),
   log |-> l, bundle |-> b]

RepairEnd(l, b, payloads) ==
  Mending!Fold(None, RepairStart(l, b, payloads), payloads)

\* A repair goes through the payloads, then is checked and resumed
\* (repairAndReplay).
LEMMA RepairAndReplayIs ==
  ASSUME NEW l, NEW c, NEW b, NEW payloads
  PROVE  RepairAndReplay(l, c, b, payloads) =
           LET end == RepairEnd(l, b, payloads)
           IN  IF /\ end.ok
                  /\ c # None /\ end.bundle # None
                  /\ DetectIssues(end.log, end.bundle) = <<>>
               THEN ResumeAfterCompaction(end.log, end.bundle, c)
               ELSE [ok |-> FALSE]
BY DEF RepairAndReplay, RepairEnd, RepairStart, Mending!Fold, FoldLeft,
       MapThenFoldSet, Mending!FoldLeft, Mending!MapThenFoldSet, Max,
       Mending!Max

\* A replay resumed after compaction is one of a whole log.
LEMMA ResumeAfterIs ==
  ASSUME NEW l, NEW b, NEW c, ResumeAfterCompaction(l, b, c).ok
  PROVE  /\ ValidLog(l) /\ ResumeReplay(l, c).ok
         /\ ResumeAfterCompaction(l, b, c) = ResumeReplay(l, c)
<1> DEFINE whole == /\ ValidLog(l) /\ ValidCompaction(b, l)
                    /\ ValidCheckpoint(c, l)
                    /\ b.checkpoint = c
                    /\ b.logTo = c.logTo
<1>1. ResumeAfterCompaction(l, b, c)
        = IF whole THEN ResumeReplay(l, c) ELSE [ok |-> FALSE]
  BY DEF ResumeAfterCompaction
<1>2. whole => ValidLog(l)  OBVIOUS
<1> HIDE DEF whole
<1>3. whole
  <2>1. SUFFICES ASSUME ~whole  PROVE FALSE  OBVIOUS
  <2>2. ResumeAfterCompaction(l, b, c) = [ok |-> FALSE]  BY <1>1, <2>1
  <2>3. QED  BY <2>2
<1>4. QED  BY <1>1, <1>2, <1>3

\* A sequence is one of its own elements.
LEMMA OwnElements ==
  ASSUME NEW S, NEW s \in Seq(S)
  PROVE  s \in Seq({s[i] : i \in DOMAIN s})
<1> DEFINE Q == {s[i] : i \in DOMAIN s}
<1>1. \A i \in DOMAIN s : s[i] \in Q  OBVIOUS
<1> HIDE DEF Q
<1>2. s \in Seq(Q)  BY <1>1
<1>3. QED  BY <1>2 DEF Q

\* What a repair that does not throw accepts is what a whole log does that was
\* recorded as the one repaired.
LEMMA RepairedIs ==
  ASSUME NEW m, IsRecorded(m), NEW l, SoundLog(l, m),
         NEW c, c # None => c.boundary \in Nat, NEW b,
         NEW S, NEW payloads \in Seq(S), \A p \in S : SoundPayload(p, m),
         RepairAndReplay(l, c, b, payloads).ok
  PROVE  \E k : /\ SoundLog(k, m) /\ ValidLog(k)
                /\ RepairAndReplay(l, c, b, payloads).accepted
                     = Accepted(Processing(k))
<1> DEFINE start == RepairStart(l, b, payloads)
           end == RepairEnd(l, b, payloads)
           done == /\ end.ok
                   /\ c # None /\ end.bundle # None
                   /\ DetectIssues(end.log, end.bundle) = <<>>
           Q == {payloads[i] : i \in DOMAIN payloads}
           Made(s) == Mending!Fold(None, start, s)
<1>1. RepairAndReplay(l, c, b, payloads)
        = IF done THEN ResumeAfterCompaction(end.log, end.bundle, c)
          ELSE [ok |-> FALSE]
  BY RepairAndReplayIs
<1>2. payloads \in Seq(Q)  BY OwnElements
<1>3. \A p \in Q : SoundPayload(p, m)
  <2>1. \A i \in DOMAIN payloads : payloads[i] \in S  OBVIOUS
  <2>2. QED  BY <2>1
<1>4. done => end.ok /\ c # None  OBVIOUS
<1>5. end = Made(payloads)  BY DEF RepairEnd
<1>6. /\ start = [ok |-> start.ok, log |-> l, bundle |-> b]
      /\ start.log = l /\ start.bundle = b
      /\ start.ok = (\A p \in Q : ValidPayload(p))
  BY DEF RepairStart
<1> HIDE DEF start, end, done, Q
<1>7. done
  <2>1. SUFFICES ASSUME ~done  PROVE FALSE  OBVIOUS
  <2>2. RepairAndReplay(l, c, b, payloads) = [ok |-> FALSE]  BY <1>1, <2>1
  <2>3. QED  BY <2>2
<1>8. \A p \in Q : ValidPayload(p)
  <2>1. SUFFICES ASSUME ~ \A p \in Q : ValidPayload(p)  PROVE FALSE
    OBVIOUS
  <2>2. ~start.ok  BY <1>6, <2>1
  <2>3. \A a \in {start}, p \in Q : RepairStep(a, p) \in {start}
    BY <2>2 DEF RepairStep
  <2>4. Made(payloads) \in {start}
    <3> DEFINE A == {start}
    <3>1. start \in A  OBVIOUS
    <3> HIDE DEF A
    <3>2. QED  BY <1>2, <2>3, <3>1, Mending!FoldKeeps DEF A
  <2>5. QED  BY <1>4, <1>5, <1>7, <2>2, <2>4
<1>9. Mended(start, m)
  <2>1. start.ok \in BOOLEAN  BY <1>6
  <2>2. QED  BY <1>6, <2>1 DEF Mended
<1> DEFINE T == {s \in Seq(Q) : Mended(Made(s), m)}
<1>10. <<>> \in T
  <2>1. Made(<<>>) = start  BY Mending!FoldEmpty
  <2> HIDE DEF Made
  <2>2. QED  BY <1>9, <2>1
<1>11. ASSUME NEW s \in Seq(Q), s \in T, NEW p \in Q  PROVE Append(s, p) \in T
  <2>1. Made(Append(s, p)) = RepairStep(Made(s), p)  BY Mending!FoldAppend
  <2> HIDE DEF Made
  <2>2. Mended(RepairStep(Made(s), p), m)
    BY <1>3, <1>8, <1>11, RepairStepSound
  <2>3. Append(s, p) \in Seq(Q)  OBVIOUS
  <2>4. QED  BY <2>1, <2>2, <2>3
<1>12. payloads \in T
  <2>1. Seq(Q) \subseteq T
    <3> HIDE DEF T
    <3>1. QED  BY <1>10, <1>11, Mending!SequencesGrow
  <2>2. QED  BY <1>2, <2>1
<1>13. SoundLog(end.log, m)  BY <1>5, <1>12 DEF Mended
<1> DEFINE k == end.log
<1>14. ResumeAfterCompaction(k, end.bundle, c).ok  BY <1>1, <1>7
<1>15. /\ ValidLog(k) /\ ResumeReplay(k, c).ok
       /\ RepairAndReplay(l, c, b, payloads) = ResumeReplay(k, c)
  BY <1>1, <1>7, <1>14, ResumeAfterIs
<1> HIDE DEF k
<1>16. SoundLog(k, m)  BY <1>13 DEF k
<1>17. Len(m.entries) \in Nat /\ Len(k.entries) = Len(m.entries)
       /\ Walk(Len(m.entries), k.entries)
  BY <1>16, SoundFacts DEF SoundLog
<1>18. c.boundary \in Nat  BY <1>4, <1>7
<1>19. ResumeReplay(k, c).accepted = Accepted(Processing(k))
  BY <1>15, <1>17, <1>18, ResumeIsReplay
<1>20. QED  BY <1>15, <1>16, <1>19
-----------------------------------------------------------------------------
(* Issues. *)

EventIssue(e) == Issue("transport-event", e.eventReceipt)

IssueStep(issues, e) ==
  IF e.event.receipt = e.eventReceipt THEN issues
  ELSE Append(issues, EventIssue(e))

Issuing == INSTANCE FoldTheorems WITH
  Step <- LAMBDA nothing, issues, e : IssueStep(issues, e)

Broken(s) == {k \in DOMAIN s : s[k].event.receipt # s[k].eventReceipt}

BrokenIssues(s) == {EventIssue(s[k]) : k \in Broken(s)}

BrokenGrow(t, s, e) ==
  /\ Len(s) \in Nat
  /\ e.event.receipt = e.eventReceipt
       => Broken(t) = Broken(s) /\ BrokenIssues(t) = BrokenIssues(s)
  /\ e.event.receipt # e.eventReceipt
       => /\ Broken(t) = Broken(s) \cup {Len(s) + 1}
          /\ BrokenIssues(t) = BrokenIssues(s) \cup {EventIssue(e)}

\* One more entry is one more broken place if its event is not the one it
\* names.
LEMMA BrokenAppend ==
  ASSUME NEW S, NEW s \in Seq(S), NEW e \in S, NEW t, t = Append(s, e)
  PROVE  BrokenGrow(t, s, e)
<1> DEFINE n == Len(s)
<1>1. /\ n \in Nat /\ DOMAIN s = 1 .. n /\ DOMAIN t = 1 .. n + 1
      /\ t[n + 1] = e /\ \A i \in 1 .. n : t[i] = s[i]
  OBVIOUS
<1> HIDE DEF n
<1>2. ASSUME e.event.receipt = e.eventReceipt
      PROVE  Broken(t) = Broken(s)
  <2>1. \A k \in 1 .. n + 1 : k \in Broken(t) <=> k \in Broken(s)
    BY <1>1, <1>2 DEF Broken
  <2>2. Broken(t) \subseteq 1 .. n + 1 /\ Broken(s) \subseteq 1 .. n + 1
    BY <1>1 DEF Broken
  <2>3. QED  BY <2>1, <2>2
<1>3. ASSUME e.event.receipt # e.eventReceipt
      PROVE  Broken(t) = Broken(s) \cup {n + 1}
  <2>1. \A k \in 1 .. n : k \in Broken(t) <=> k \in Broken(s)
    BY <1>1 DEF Broken
  <2>2. n + 1 \in Broken(t)  BY <1>1, <1>3 DEF Broken
  <2>3. Broken(t) \subseteq 1 .. n + 1 /\ Broken(s) \subseteq 1 .. n
    BY <1>1 DEF Broken
  <2>4. \A k \in 1 .. n + 1 : k \in 1 .. n \/ k = n + 1  BY <1>1
  <2>5. QED  BY <2>1, <2>2, <2>3, <2>4
<1>4. \A k \in Broken(s) : t[k] = s[k]  BY <1>1 DEF Broken
<1>5. ASSUME Broken(t) = Broken(s)
      PROVE  BrokenIssues(t) = BrokenIssues(s)
  BY <1>4, <1>5 DEF BrokenIssues
<1>6. ASSUME Broken(t) = Broken(s) \cup {n + 1}
      PROVE  BrokenIssues(t) = BrokenIssues(s) \cup {EventIssue(e)}
  <2>1. t[n + 1] = e  BY <1>1
  <2>2. QED  BY <1>4, <1>6, <2>1 DEF BrokenIssues
<1>7. QED  BY <1>1, <1>2, <1>3, <1>5, <1>6 DEF BrokenGrow, n

\* The issues of a log's events are one for each broken place
\* (detectTransportEvidenceIssues).
LEMMA EventIssuesIs ==
  ASSUME NEW l, NEW n \in Nat, Len(l.entries) = n, Walk(n, l.entries)
  PROVE  /\ EventIssues(l) \in Seq(BrokenIssues(l.entries))
         /\ EventIssues(l) = <<>> <=> Broken(l.entries) = {}
         /\ Len(EventIssues(l)) = 1
              => \E k \in Broken(l.entries) : Broken(l.entries) = {k}
<1> DEFINE S == {l.entries[i] : i \in 1 .. n}
           Found(s) == Issuing!Fold(None, <<>>, s)
           Fits(s) == /\ Found(s) \in Seq(BrokenIssues(s))
                      /\ Found(s) = <<>> <=> Broken(s) = {}
                      /\ Len(Found(s)) = 1
                            => \E k \in Broken(s) : Broken(s) = {k}
           T == {s \in Seq(S) : Fits(s)}
<1>1. <<>> \in T
  <2> DEFINE none == <<>>
  <2>1. Found(none) = none  BY Issuing!FoldEmpty
  <2>2. none \in Seq(S) /\ Len(none) = 0 /\ DOMAIN none = {} /\ none \in Seq({})
    OBVIOUS
  <2>3. none = <<>>  OBVIOUS
  <2> HIDE DEF none, Found, S
  <2>4. Broken(none) = {} /\ BrokenIssues(none) = {}
    BY <2>2 DEF Broken, BrokenIssues
  <2>5. Fits(none)  BY <2>1, <2>2, <2>3, <2>4
  <2> HIDE DEF Fits
  <2>6. QED  BY <2>2, <2>3, <2>5
<1>2. ASSUME NEW s \in Seq(S), s \in T, NEW e \in S  PROVE Append(s, e) \in T
  <2> DEFINE t == Append(s, e)
             old == Found(s)
             issue == EventIssue(e)
  <2>1. Found(t) = IssueStep(old, e)  BY Issuing!FoldAppend
  <2>2. t \in Seq(S)  OBVIOUS
  <2>3. Fits(s)  BY <1>2
  <2>4. BrokenGrow(t, s, e)  BY BrokenAppend
  <2> HIDE DEF Found, S, T, t, issue, old
  <2>5. CASE e.event.receipt = e.eventReceipt
    <3>1. Found(t) = old  BY <2>1, <2>5 DEF IssueStep
    <3>2. Fits(t)  BY <2>3, <2>4, <2>5, <3>1 DEF old, BrokenGrow
    <3>3. QED  BY <2>2, <3>2 DEF T, t
  <2>6. CASE e.event.receipt # e.eventReceipt
    <3> DEFINE new == Append(old, issue)
               K == BrokenIssues(s) \cup {issue}
               B == Broken(s) \cup {Len(s) + 1}
    <3>1. Found(t) = new  BY <2>1, <2>6 DEF IssueStep, issue
    <3>2. /\ old \in Seq(BrokenIssues(s))
          /\ old = <<>> => Broken(s) = {}
      BY <2>3 DEF old
    <3>3. old \in Seq(K) /\ issue \in K
      <4>1. BrokenIssues(s) \subseteq K  OBVIOUS
      <4> HIDE DEF K
      <4>2. old \in Seq(K)  BY <3>2, <4>1
      <4>3. QED  BY <4>2 DEF K
    <3> HIDE DEF K
    <3>4. new \in Seq(K) /\ new # <<>> /\ (Len(new) = 1 => old = <<>>)
      BY <3>3
    <3>5. Broken(t) = B /\ BrokenIssues(t) = K
      BY <2>4, <2>6 DEF K, BrokenGrow, issue
    <3>6. B # {} /\ Len(s) + 1 \in B  OBVIOUS
    <3>7. Broken(s) = {} => B = {Len(s) + 1}  OBVIOUS
    <3> HIDE DEF new, B
    <3>8. Fits(t)  BY <3>1, <3>2, <3>4, <3>5, <3>6, <3>7
    <3>9. QED  BY <2>2, <3>8 DEF T, t
  <2>7. QED  BY <2>5, <2>6
<1>3. l.entries \in Seq(S)
  <2>1. l.entries = [i \in 1 .. n |-> l.entries[i]]  BY DEF Walk
  <2>2. \A i \in 1 .. n : l.entries[i] \in S  OBVIOUS
  <2> HIDE DEF S
  <2>3. QED  BY <2>1, <2>2
<1>4. l.entries \in T
  <2>1. Seq(S) \subseteq T
    <3> HIDE DEF T
    <3>1. QED  BY <1>1, <1>2, Issuing!SequencesGrow
  <2>2. QED  BY <1>3, <2>1
<1>5. EventIssues(l) = Found(l.entries)
  BY DEF EventIssues, Issuing!Fold, FoldLeft, MapThenFoldSet, Issuing!FoldLeft,
         Issuing!MapThenFoldSet, Max, Issuing!Max, IssueStep, EventIssue
<1> HIDE DEF Found
<1>6. QED  BY <1>4, <1>5

\* The issues there may be.
Known(l, b) ==
  BrokenIssues(l.entries)
    \cup (IF ValidLog(l) THEN {} ELSE {Issue("transport-log-chain", l.receipt)})
    \cup (IF b = None \/ ValidCompaction(b, l) THEN {}
          ELSE {Issue("compaction-bundle", CompactionReceipt(b))})

\* What is detected is one of the known issues, and nothing is where nothing
\* is broken.
LEMMA IssuesKnown ==
  ASSUME NEW l, NEW b, Len(l.entries) \in Nat, Walk(Len(l.entries), l.entries)
  PROVE  /\ DetectIssues(l, b) \in Seq(Known(l, b))
         /\ Broken(l.entries) = {} /\ ValidLog(l)
              /\ (b = None \/ ValidCompaction(b, l))
                   => DetectIssues(l, b) = <<>>
<1> DEFINE U == Known(l, b)
           events == EventIssues(l)
           chain == IF ValidLog(l) THEN <<>>
                    ELSE <<Issue("transport-log-chain", l.receipt)>>
           rest == IF b = None \/ ValidCompaction(b, l) THEN <<>>
                   ELSE <<Issue("compaction-bundle", CompactionReceipt(b))>>
<1>1. /\ events \in Seq(BrokenIssues(l.entries))
      /\ Broken(l.entries) = {} => events = <<>>
  BY EventIssuesIs
<1>2. events \in Seq(U)
  <2>1. BrokenIssues(l.entries) \subseteq U  BY DEF Known
  <2> HIDE DEF U, events
  <2>2. QED  BY <1>1, <2>1
<1>3. chain \in Seq(U)
  <2>1. CASE ValidLog(l)  BY <2>1
  <2>2. CASE ~ValidLog(l)
    <3> DEFINE issue == Issue("transport-log-chain", l.receipt)
    <3>1. issue \in U  BY <2>2 DEF Known
    <3> HIDE DEF issue, U
    <3>2. <<issue>> \in Seq(U)  BY <3>1
    <3>3. QED  BY <2>2, <3>2 DEF issue
  <2>3. QED  BY <2>1, <2>2
<1>4. rest \in Seq(U)
  <2>1. CASE b = None \/ ValidCompaction(b, l)  BY <2>1
  <2>2. CASE ~(b = None \/ ValidCompaction(b, l))
    <3> DEFINE issue == Issue("compaction-bundle", CompactionReceipt(b))
    <3>1. issue \in U  BY <2>2 DEF Known
    <3> HIDE DEF issue, U
    <3>2. <<issue>> \in Seq(U)  BY <3>1
    <3>3. QED  BY <2>2, <3>2 DEF issue
  <2>3. QED  BY <2>1, <2>2
<1>5. DetectIssues(l, b) = (events \o chain) \o rest  BY DEF DetectIssues
<1>6. ValidLog(l) => chain = <<>>  OBVIOUS
<1>7. b = None \/ ValidCompaction(b, l) => rest = <<>>  OBVIOUS
<1> HIDE DEF U, events, chain, rest
<1>8. (events \o chain) \o rest \in Seq(U)
  <2>1. events \o chain \in Seq(U)  BY <1>2, <1>3
  <2>2. QED  BY <1>4, <2>1, ConcatFacts
<1>9. ASSUME events = <<>>, chain = <<>>, rest = <<>>
      PROVE  (events \o chain) \o rest = <<>>
  BY <1>9
<1>10. QED  BY <1>1, <1>5, <1>6, <1>7, <1>8, <1>9 DEF U

\* A recorded event is found by its receipt.
LEMMA RecordedEventIs ==
  ASSUME IsRecorded(made), NEW k \in 1 .. Len(made.entries)
  PROVE  RecordedEvent(made.entries[k].eventReceipt) = made.entries[k].event
<1> DEFINE n == Len(made.entries)
           target == made.entries[k].eventReceipt
           i == RepairedEntry(made, target)
<1>1. n \in Nat  BY DEF IsRecorded
<1>2. i \in 0 .. n /\ i # 0 /\ made.entries[i].eventReceipt = target
  BY <1>1, RepairedEntryIs
<1>3. i \in 1 .. n  BY <1>1, <1>2
<1> HIDE DEF i
<1>4. made.entries[i].event.receipt = made.entries[k].event.receipt
  BY <1>2, <1>3, RecordedEvents
<1>5. made.entries[i].event = made.entries[k].event
  BY <1>3, <1>4 DEF IsRecorded
<1>6. QED  BY <1>5 DEF RecordedEvent, i

\* What is sent for an issue, whole or damaged.
Sent(issue, form, evidence) ==
  {RepairPayload(issue, form, evidence),
   [RepairPayload(issue, form, evidence) EXCEPT !.intact = FALSE]}

\* The fields of a payload, sent as it is or damaged.
LEMMA SentFields ==
  ASSUME NEW issue, NEW form, NEW evidence,
         NEW p \in Sent(issue, form, evidence)
  PROVE  /\ p.kind = issue.kind /\ p.target = issue.target
         /\ p.evidence = evidence
         /\ p.receipt = EvidenceReceipt(form, evidence)
BY DEF RepairPayload, Sent

\* What suppliers answer to issues of a log.
LEMMA AnswersSound ==
  ASSUME IsRecorded(made), SoundLog(log, made),
         NEW issue \in Known(log, bundle), NEW p \in PayloadsFor(issue)
  PROVE  /\ SoundPayload(p, made) /\ p.kind = issue.kind
         /\ Answer(issue) \in PayloadsFor(issue)
<1> DEFINE n == Len(made.entries)
           P == PackagesOf(made)
<1>2. Answer(issue) \in PayloadsFor(issue)  BY DEF PayloadsFor
<1>3. ASSUME NEW k \in 1 .. n, issue = EventIssue(log.entries[k])
      PROVE  SoundPayload(p, made) /\ p.kind = issue.kind
  <2> DEFINE event == made.entries[k].event
  <2>1. issue.kind = "transport-event"
        /\ issue.target = made.entries[k].eventReceipt
    <3>1. issue.kind = "transport-event"
            /\ issue.target = log.entries[k].eventReceipt
      BY <1>3 DEF EventIssue, Issue
    <3>2. QED  BY <3>1, SoundFacts
  <2>2. RecordedEvent(issue.target) = event  BY <2>1, RecordedEventIs
  <2>3. IsEvent(event) /\ NoPackage \in P /\ event.package \in P
    BY RecordedEvents
  <2>4. event \in Copies(event, P)
        /\ \A q \in P : [event EXCEPT !.package = q] \in Copies(event, P)
    BY <2>3, CopyFacts
  <2> HIDE DEF P
  <2>5. ASSUME NEW e \in Copies(event, P), p \in Sent(issue, "event", e)
        PROVE  SoundPayload(p, made) /\ p.kind = issue.kind
    <3>1. p.kind = "transport-event" /\ p.evidence = e
          /\ p.receipt = EvidenceReceipt("event", e)
      BY <2>1, <2>5, SentFields
    <3>2. EvidenceReceipt("event", e) = e.receipt  BY DEF EvidenceReceipt
    <3>3. QED  BY <2>1, <3>1, <3>2 DEF SoundPayload, P
  <2>6. Answer(issue) = RepairPayload(issue, "event", event)
    BY <2>1, <2>2 DEF Answer
  <2>7. CASE p \in {Answer(issue), [Answer(issue) EXCEPT !.intact = FALSE]}
    <3>1. p \in Sent(issue, "event", event)  BY <2>6, <2>7 DEF Sent
    <3>2. QED  BY <2>4, <2>5, <3>1
  <2>8. CASE \E q \in P : p = MixedAnswer(issue, q)
    <3>1. PICK q \in P : p = MixedAnswer(issue, q)  BY <2>8
    <3>2. p = RepairPayload(issue, "event", [event EXCEPT !.package = q])
      BY <2>2, <3>1 DEF MixedAnswer
    <3>3. p \in Sent(issue, "event", [event EXCEPT !.package = q])
      BY <3>2 DEF Sent
    <3>4. QED  BY <2>4, <2>5, <3>3
  <2>9. QED  BY <2>1, <2>7, <2>8 DEF PayloadsFor, P
<1>4. ASSUME issue.kind # "transport-event",
             p \in {Answer(issue), [Answer(issue) EXCEPT !.intact = FALSE]},
             issue.kind = "transport-log-chain"
             \/ issue.kind = "compaction-bundle"
      PROVE  SoundPayload(p, made) /\ p.kind = issue.kind
  <2>1. CASE issue.kind = "transport-log-chain"
    <3>1. Answer(issue) = RepairPayload(issue, "log", made)
      BY <2>1 DEF Answer
    <3>2. p \in Sent(issue, "log", made)  BY <1>4, <3>1 DEF Sent
    <3>3. p.kind = "transport-log-chain" /\ p.evidence = made
      BY <2>1, <3>2, SentFields
    <3>4. QED  BY <2>1, <3>3 DEF SoundPayload
  <2>2. CASE issue.kind = "compaction-bundle"
    <3>1. Answer(issue)
            = RepairPayload(issue, "bundle", CompactionReceipt(bundle))
      BY <2>2 DEF Answer
    <3>2. p \in Sent(issue, "bundle", CompactionReceipt(bundle))
      BY <1>4, <3>1 DEF Sent
    <3>3. p.kind = "compaction-bundle"  BY <2>2, <3>2, SentFields
    <3>4. QED  BY <2>2, <3>3 DEF SoundPayload
  <2>3. QED  BY <1>4, <2>1, <2>2
<1>5. \/ \E k \in 1 .. n : issue = EventIssue(log.entries[k])
      \/ issue.kind = "transport-log-chain"
      \/ issue.kind = "compaction-bundle"
  <2>1. DOMAIN log.entries = 1 .. n  BY SoundFacts
  <2>2. QED  BY <2>1 DEF Known, BrokenIssues, Broken, Issue
<1>6. ASSUME issue.kind # "transport-event"
      PROVE  p \in {Answer(issue), [Answer(issue) EXCEPT !.intact = FALSE]}
  BY <1>6 DEF PayloadsFor
<1>7. \A e : EventIssue(e).kind = "transport-event"  BY DEF EventIssue, Issue
<1>8. QED  BY <1>2, <1>3, <1>4, <1>5, <1>6
-----------------------------------------------------------------------------
(* Compaction bundles. *)

EventReceiptsOf(entries) == [i \in DOMAIN entries |-> entries[i].eventReceipt]

\* A bundle over a recorded log, whatever has become of that.
BundleOf(m, c, to, intact) ==
  [to |-> to, logReceipt |-> m.receipt,
   logFrom |-> SubSeq(m.entries, 1, to + 1)[1].receipt,
   logTo |-> SubSeq(m.entries, 1, to + 1)[to + 1].receipt,
   checkpoint |-> c,
   entryReceipts |-> LogReceipt(SubSeq(m.entries, 1, to + 1)),
   eventReceipts |-> EventReceiptsOf(SubSeq(m.entries, 1, to + 1)),
   accepted |-> c.accepted, rejected |-> c.rejected, intact |-> intact]

\* The first entries of a log.
LEMMA CutIs ==
  ASSUME NEW n \in Nat, NEW f, Walk(n, f), NEW k \in 0 .. n
  PROVE  SubSeq(f, 1, k) = [i \in 1 .. k |-> f[i]]
<1> DEFINE U == {f[i] : i \in 1 .. n}
<1>1. \A i \in 1 .. n : f[i] \in U  OBVIOUS
<1>2. f = [i \in 1 .. n |-> f[i]]  BY DEF Walk
<1> HIDE DEF U
<1>3. f \in Seq(U) /\ Len(f) = n  BY <1>1, <1>2
<1>4. QED  BY <1>3

CutsAlike(a, b, k) ==
  /\ a[1].receipt = b[1].receipt /\ a[k].receipt = b[k].receipt
  /\ LogReceipt(a) = LogReceipt(b)
  /\ EventReceiptsOf(a) = EventReceiptsOf(b)

\* What a log has in common with the one it was recorded as.
LEMMA CutAlike ==
  ASSUME NEW m, IsRecorded(m), NEW l, SoundLog(l, m),
         NEW t \in Nat, t < Len(m.entries)
  PROVE  /\ CutsAlike(SubSeq(l.entries, 1, t + 1), SubSeq(m.entries, 1, t + 1),
              t + 1)
         /\ SubSeq(m.entries, 1, t + 1)[1] = m.entries[1]
         /\ SubSeq(m.entries, 1, t + 1)[t + 1] = m.entries[t + 1]
<1> DEFINE n == Len(m.entries)
           k == t + 1
           entries == l.entries
           own == m.entries
           a == SubSeq(entries, 1, k)
           b == SubSeq(own, 1, k)
<1>1. n \in Nat /\ Walk(n, entries) /\ Walk(n, own)
  BY SoundFacts DEF SoundLog, IsRecorded
<1>2. \A i \in 1 .. n : /\ entries[i].receipt = own[i].receipt
                        /\ entries[i].eventReceipt = own[i].eventReceipt
  BY SoundFacts
<1>3. k \in 0 .. n /\ \A i \in 1 .. k : i \in 1 .. n  BY <1>1
<1>4. k \in Nat /\ 1 \in 1 .. k /\ k \in 1 .. k  OBVIOUS
<1> HIDE DEF n, k, entries, own
<1>5. a = [i \in 1 .. k |-> entries[i]] /\ b = [i \in 1 .. k |-> own[i]]
  BY <1>1, <1>3, CutIs
<1> HIDE DEF a, b
<1>6. /\ DOMAIN a = 1 .. k /\ DOMAIN b = 1 .. k
      /\ \A i \in 1 .. k : a[i] = entries[i] /\ b[i] = own[i]
  BY <1>5
<1>7. \A i \in 1 .. k : a[i].receipt = b[i].receipt
                        /\ a[i].eventReceipt = b[i].eventReceipt
  BY <1>2, <1>3, <1>6
<1>8. LogReceipt(a) = LogReceipt(b)  BY <1>6, <1>7 DEF LogReceipt
<1>9. EventReceiptsOf(a) = EventReceiptsOf(b)  BY <1>6, <1>7 DEF EventReceiptsOf
<1>10. b[1] = own[1] /\ b[k] = own[k]  BY <1>4, <1>6
<1>11. CutsAlike(a, b, k)  BY <1>4, <1>7, <1>8, <1>9 DEF CutsAlike
<1>12. QED  BY <1>10, <1>11 DEF k, own, entries, a, b

\* The fields of a bundle.
LEMMA BundleFields ==
  ASSUME NEW m, NEW c, NEW t, NEW intact
  PROVE  LET b == BundleOf(m, c, t, intact)
         IN  /\ b.to = t /\ b.logReceipt = m.receipt /\ b.checkpoint = c
             /\ b.logFrom = SubSeq(m.entries, 1, t + 1)[1].receipt
             /\ b.logTo = SubSeq(m.entries, 1, t + 1)[t + 1].receipt
             /\ b.entryReceipts = LogReceipt(SubSeq(m.entries, 1, t + 1))
             /\ b.eventReceipts = EventReceiptsOf(SubSeq(m.entries, 1, t + 1))
             /\ b.intact = intact
BY DEF BundleOf

\* A bundle is intact if it was made so.
LEMMA BundleIntact ==
  ASSUME NEW m, NEW c, NEW t, NEW intact
  PROVE  BundleOf(m, c, t, intact).intact = intact
BY DEF BundleOf

\* A spoilt bundle is the bundle, not intact.
LEMMA BundleSpoilt ==
  ASSUME NEW m, NEW c, NEW t, NEW intact, NEW b, b = BundleOf(m, c, t, intact),
         NEW other
  PROVE  [b EXCEPT !.intact = other] = BundleOf(m, c, t, other)
<1> DEFINE cut == SubSeq(m.entries, 1, t + 1)
           name == m.receipt
           from == cut[1].receipt
           to == cut[t + 1].receipt
           receipts == LogReceipt(cut)
           events == EventReceiptsOf(cut)
           accepted == c.accepted
           rejected == c.rejected
<1>1. b =
        [to |-> t, logReceipt |-> name, logFrom |-> from, logTo |-> to,
         checkpoint |-> c, entryReceipts |-> receipts, eventReceipts |-> events,
         accepted |-> accepted, rejected |-> rejected, intact |-> intact]
  BY DEF BundleOf
<1>2. BundleOf(m, c, t, other) =
        [to |-> t, logReceipt |-> name, logFrom |-> from, logTo |-> to,
         checkpoint |-> c, entryReceipts |-> receipts, eventReceipts |-> events,
         accepted |-> accepted, rejected |-> rejected, intact |-> other]
  BY DEF BundleOf
<1> HIDE DEF cut, name, from, to, receipts, events, accepted, rejected
<1>3. QED  BY <1>1, <1>2

\* The bundle that is made of a log, and what it covers.
LEMMA CompactionIs ==
  ASSUME NEW m, IsRecorded(m), NEW l, SoundLog(l, m),
         NEW c, c.boundary \in Nat, c.boundary < Len(m.entries), NEW to \in Nat
  PROVE  \E t \in 0 .. c.boundary :
           CreateCompaction(l, c, to) = BundleOf(m, c, t, TRUE)
<1> DEFINE t == Clamp(to, c.boundary)
           a == SubSeq(l.entries, 1, t + 1)
           b == SubSeq(m.entries, 1, t + 1)
<1>1. t \in 0 .. c.boundary  BY DEF Clamp
<1>2. t \in Nat /\ t < Len(m.entries)  BY <1>1 DEF IsRecorded
<1>3. CreateCompaction(l, c, to) =
        [to |-> t, logReceipt |-> l.receipt,
         logFrom |-> a[1].receipt, logTo |-> a[t + 1].receipt, checkpoint |-> c,
         entryReceipts |-> LogReceipt(a), eventReceipts |-> EventReceiptsOf(a),
         accepted |-> c.accepted, rejected |-> c.rejected, intact |-> TRUE]
  BY DEF CreateCompaction, EventReceiptsOf
<1>4. BundleOf(m, c, t, TRUE) =
        [to |-> t, logReceipt |-> m.receipt,
         logFrom |-> b[1].receipt, logTo |-> b[t + 1].receipt, checkpoint |-> c,
         entryReceipts |-> LogReceipt(b), eventReceipts |-> EventReceiptsOf(b),
         accepted |-> c.accepted, rejected |-> c.rejected, intact |-> TRUE]
  BY DEF BundleOf
<1> HIDE DEF t
<1>5. CutsAlike(a, b, t + 1)  BY <1>2, CutAlike
<1>6. l.receipt = m.receipt  BY SoundFacts
<1> HIDE DEF a, b
<1>7. CreateCompaction(l, c, to) = BundleOf(m, c, t, TRUE)
  BY <1>3, <1>4, <1>5, <1>6 DEF CutsAlike
<1>8. QED  BY <1>1, <1>7

\* An intact bundle of the recorded log verifies against any valid log that is
\* sound (verifyTransportCompactionBundle).
LEMMA BundleValid ==
  ASSUME NEW m, IsRecorded(m), NEW l, SoundLog(l, m), ValidLog(l),
         NEW c, NEW t \in Nat, t < Len(m.entries), NEW intact \in BOOLEAN,
         intact
  PROVE  ValidCompaction(BundleOf(m, c, t, intact), l)
<1> DEFINE bundleOf == BundleOf(m, c, t, intact)
           a == SubSeq(l.entries, 1, t + 1)
           b == SubSeq(m.entries, 1, t + 1)
<1>1. /\ bundleOf.to = t /\ bundleOf.logReceipt = m.receipt
      /\ bundleOf.logFrom = b[1].receipt /\ bundleOf.logTo = b[t + 1].receipt
      /\ bundleOf.entryReceipts = LogReceipt(b)
      /\ bundleOf.eventReceipts = EventReceiptsOf(b)
      /\ bundleOf.intact = intact
  BY DEF BundleOf
<1>2. CutsAlike(a, b, t + 1)  BY CutAlike
<1>3. l.receipt = m.receipt /\ Len(l.entries) = Len(m.entries)  BY SoundFacts
<1> HIDE DEF b, bundleOf
<1>4. ValidCompaction(bundleOf, l)
  BY <1>1, <1>2, <1>3 DEF ValidCompaction, EventReceiptsOf, CutsAlike
<1>5. QED  BY <1>4 DEF bundleOf
-----------------------------------------------------------------------------
(* What a repaired replay admits. *)

\* A package that was not offered for the event admits nothing.
LEMMA OfferedOnly ==
  ASSUME NEW event, IsEvent(event), NEW p,
         NEW snapshot \in ProcessTransportEvent(
                            [event EXCEPT !.package = p]).accepted
  PROVE  /\ event.success
         /\ event.offer.packageReceipt = p.receipt
         /\ p # NoPackage
<1> DEFINE copy == [event EXCEPT !.package = p]
           brought == IF copy.success THEN copy.package ELSE NoPackage
           exchange == ReceivePackage(copy.offer, brought)
<1>1. copy.success = event.success /\ copy.offer = event.offer
        /\ copy.package = p
  <2>1. copy = TransportEvent(event.receipt, event.success, event.offer, p)
    BY EventFields DEF IsEvent
  <2> HIDE DEF copy
  <2>2. QED  BY <2>1, EventFields
<1>2. ProcessTransportEvent(copy).accepted = Admitted(exchange)
  BY DEF ProcessTransportEvent
<1> HIDE DEF copy, brought
<1>3. exchange.accepted  BY <1>2 DEF Admitted, copy
<1>4. exchange.accepted = (RejectedReason(copy.offer, brought) = "none")
  BY DEF ReceivePackage
<1>5. brought # NoPackage /\ brought.receipt = copy.offer.packageReceipt
  BY <1>3, <1>4 DEF RejectedReason
<1>6. QED  BY <1>1, <1>5 DEF brought

\* A valid log that is sound admits nothing new.
LEMMA WholeAdmits ==
  ASSUME NEW m, IsRecorded(m), NEW k, SoundLog(k, m), ValidLog(k)
  PROVE  /\ Accepted(Processing(k)) \subseteq Admissible(m)
         /\ PackagesCame(m)
              => Accepted(Processing(k)) \subseteq Accepted(Processing(m))
<1> DEFINE n == Len(m.entries)
           event(i) == m.entries[i].event
<1>1. DOMAIN m.entries = 1 .. n /\ DOMAIN k.entries = 1 .. n
  BY RecordedIsValid, SoundFacts
<1> DEFINE From(i, p) ==
             ProcessTransportEvent([event(i) EXCEPT !.package = p]).accepted
           All == {From(i, p) : i \in DOMAIN m.entries, p \in PackagesOf(m)}
<1>3. SUFFICES ASSUME NEW snapshot \in Accepted(Processing(k))
               PROVE  /\ snapshot \in Admissible(m)
                      /\ PackagesCame(m) => snapshot \in Accepted(Processing(m))
  OBVIOUS
<1>4. PICK i \in 1 .. n :
        snapshot \in ProcessTransportEvent(k.entries[i].event).accepted
  BY <1>1 DEF Accepted, Processing
<1>5. k.entries[i].event \in Copies(event(i), PackagesOf(m))  BY WholeEvents
<1>6. PICK p \in PackagesOf(m) :
        k.entries[i].event
          = TransportEvent(event(i).receipt, event(i).success, event(i).offer,
            p)
  BY <1>5 DEF Copies
<1>7. IsEvent(event(i))  BY RecordedEvents
<1>8. k.entries[i].event = [event(i) EXCEPT !.package = p]
  <2> DEFINE e == event(i)
  <2>1. e = TransportEvent(e.receipt, e.success, e.offer, e.package)
    BY <1>7 DEF IsEvent
  <2> HIDE DEF e
  <2>2. [e EXCEPT !.package = p]
          = TransportEvent(e.receipt, e.success, e.offer, p)
    BY <2>1, EventFields
  <2>3. QED  BY <1>6, <2>2 DEF e
<1>9. snapshot
        \in ProcessTransportEvent([event(i) EXCEPT !.package = p]).accepted
  BY <1>4, <1>8
<1>10. ASSUME PackagesCame(m)  PROVE snapshot \in Accepted(Processing(m))
  <2>1. /\ event(i).success /\ p # NoPackage
        /\ event(i).offer.packageReceipt = p.receipt
    BY <1>7, <1>9, OfferedOnly
  <2>2. PICK j \in 1 .. n : p = event(j).package
    BY <1>1, <2>1 DEF PackagesOf
  <2>3. event(i).package = p
    BY <1>1, <1>10, <2>1, <2>2 DEF PackagesCame
  <2>4. event(i) = k.entries[i].event
    BY <1>6, <1>7, <2>3 DEF IsEvent
  <2>5. snapshot \in ProcessTransportEvent(event(i)).accepted  BY <1>4, <2>4
  <2>6. QED  BY <1>1, <2>5 DEF Accepted, Processing
<1>11. snapshot \in Admissible(m)
  <2> DEFINE one == From(i, p)
  <2>1. one \in All /\ snapshot \in one  BY <1>1, <1>9
  <2>2. Admissible(m) = UNION All  BY DEF Admissible
  <2> HIDE DEF one, All
  <2>3. QED  BY <2>1, <2>2
<1>12. QED  BY <1>10, <1>11

\* What throws admits nothing.
LEMMA RefusalAdmits ==
  ASSUME NEW m, NEW o, ~o.ok  PROVE Admits(o, m)
BY DEF Admits

\* Repair with sound payloads admits nothing new.
LEMMA RepairedAdmits ==
  ASSUME NEW m, IsRecorded(m), NEW l, SoundLog(l, m),
         NEW c, c # None => c.boundary \in Nat, NEW b,
         NEW S, NEW payloads \in Seq(S), \A p \in S : SoundPayload(p, m)
  PROVE  Admits(RepairAndReplay(l, c, b, payloads), m)
<1> DEFINE o == RepairAndReplay(l, c, b, payloads)
<1>1. CASE ~o.ok  BY <1>1, RefusalAdmits
<1>2. CASE o.ok
  <2>1. PICK k : /\ SoundLog(k, m) /\ ValidLog(k)
                 /\ o.accepted = Accepted(Processing(k))
    BY <1>2, RepairedIs
  <2> DEFINE exposed == o.accepted
  <2>2. exposed = Accepted(Processing(k))  BY <2>1
  <2>3. /\ Accepted(Processing(k)) \subseteq Admissible(m)
        /\ PackagesCame(m)
             => Accepted(Processing(k)) \subseteq Accepted(Processing(m))
    BY <2>1, WholeAdmits
  <2> HIDE DEF exposed
  <2>4. /\ exposed \subseteq Admissible(m)
        /\ PackagesCame(m) => exposed \subseteq Accepted(Processing(m))
    BY <2>2, <2>3
  <2> HIDE DEF o
  <2>5. Admits(o, m)  BY <2>4 DEF Admits, exposed
  <2>6. QED  BY <2>5 DEF o
<1>3. QED  BY <1>1, <1>2
-----------------------------------------------------------------------------
(* The inductive invariant: what is stored was recorded as it was made, and *)
(* one fault is in one place.                                               *)

Entries == Len(made.entries)

WasRecorded ==
  \E id \in LogIds, events \in Recordings : made = CreateLog(id, events)

CheckpointKept ==
  checkpoint # None => /\ checkpoint.boundary \in Nat
                       /\ checkpoint.boundary < Entries \/ Entries = 0

BundleKept ==
  bundle # None =>
    /\ checkpoint # None /\ checkpoint.boundary < Entries
    /\ \E to \in 0 .. checkpoint.boundary, intact \in BOOLEAN :
         bundle = BundleOf(made, checkpoint, to, intact)

OnlyAt(l, k) == \A i \in 1 .. Entries : i # k => l.entries[i] = made.entries[i]

FaultsKept ==
  /\ faults \in 0 .. MaxFaults
  /\ faults = 0 => /\ log = made
                   /\ checkpoint # None =>
                        checkpoint = CreateCheckpoint(made, checkpoint.boundary)
  /\ faults = 1 => \E k \in 0 .. Entries : OnlyAt(log, k)

StoreInv ==
  /\ WasRecorded
  /\ SoundLog(log, made)
  /\ CheckpointKept
  /\ BundleKept
  /\ FaultsKept
  /\ RepairAdmitsNothingNew

\* What is asked for is the log or one of its events.
Asked(need) ==
  \/ need.target = made.receipt /\ need.kind = "transport-log"
  \/ /\ need.kind \in {"unknown", "transport-event"}
     /\ \E k \in 1 .. Entries : need.target = made.entries[k].eventReceipt

ScheduleKept ==
  schedule # None =>
    /\ schedule = [requests |-> schedule.requests, needs |-> schedule.needs,
                   policy |-> schedule.policy]
    /\ IsFiniteSet(schedule.needs)
    /\ schedule.requests \in Seq(schedule.needs)
    /\ \A need \in schedule.needs : Asked(need)

InboxKept ==
  /\ inbox \in Seq(ToSet(inbox))
  /\ \A p \in ToSet(inbox) : SoundPayload(p, made)

Inv ==
  /\ StoreInv
  /\ ScheduleKept
  /\ InboxKept
  /\ AnswerableIsRequested
-----------------------------------------------------------------------------
(* What the store does keeps the invariant. *)

\* What the invariant says of the two logs' shape.
LEMMA RecordedMade ==
  ASSUME StoreInv
  PROVE  IsRecorded(made) /\ Entries \in Nat
           /\ DOMAIN log.entries = 1 .. Entries
         /\ Len(log.entries) = Entries /\ Walk(Entries, log.entries)
<1>1. PICK id \in LogIds, events \in Recordings : made = CreateLog(id, events)
  BY DEF StoreInv, WasRecorded
<1>2. IsRecorded(made)  BY <1>1, Recorded
<1>3. SoundLog(log, made)  BY DEF StoreInv
<1>4. QED  BY <1>2, <1>3, SoundFacts DEF Entries, SoundLog

\* The invariant of the store where only the outcome changes.
LEMMA StoreKept ==
  ASSUME StoreInv, UNCHANGED <<made, log, checkpoint, bundle, faults>>,
         RepairAdmitsNothingNew'
  PROVE  StoreInv'
BY DEF StoreInv, WasRecorded, CheckpointKept, BundleKept, FaultsKept, OnlyAt,
       Entries

\* What has been exposed stays what it is.
LEMMA ExposedKept ==
  ASSUME RepairAdmitsNothingNew, UNCHANGED <<made, outcome>>
  PROVE  RepairAdmitsNothingNew'
BY DEF RepairAdmitsNothingNew

\* Taking a checkpoint keeps the invariant of the store.
LEMMA CheckpointTaken ==
  ASSUME StoreInv, TakeCheckpoint
  PROVE  StoreInv'
<1>1. UNCHANGED <<made, log, bundle, faults, outcome>> /\ checkpoint = None
  BY DEF TakeCheckpoint
<1>2. PICK boundary \in Orders : checkpoint' = CreateCheckpoint(log, boundary)
  BY DEF TakeCheckpoint
<1>3. Entries \in Nat /\ Len(log.entries) = Entries  BY RecordedMade
<1>4. boundary \in Nat  BY <1>2, <1>3 DEF Orders
<1>5. /\ checkpoint'.boundary \in Nat
      /\ checkpoint'.boundary < Entries \/ Entries = 0
      /\ checkpoint' = CreateCheckpoint(log, checkpoint'.boundary)
  BY <1>2, <1>3, <1>4, CheckpointBoundary
<1>6. CheckpointKept'  BY <1>1, <1>5 DEF CheckpointKept, Entries
<1>7. BundleKept'
  <2>1. bundle = None  BY <1>1 DEF StoreInv, BundleKept
  <2>2. QED  BY <1>1, <2>1 DEF BundleKept
<1>8. FaultsKept'
  BY <1>1, <1>5 DEF StoreInv, FaultsKept, OnlyAt, Entries
<1>9. RepairAdmitsNothingNew'  BY <1>1, ExposedKept DEF StoreInv
<1>10. WasRecorded' /\ SoundLog(log, made)'
  BY <1>1 DEF StoreInv, WasRecorded
<1>11. QED  BY <1>6, <1>7, <1>8, <1>9, <1>10 DEF StoreInv

\* Taking a compaction bundle keeps the invariant of the store.
LEMMA CompactionTaken ==
  ASSUME StoreInv, TakeCompaction
  PROVE  StoreInv'
<1>1. /\ UNCHANGED <<made, log, checkpoint, faults, outcome>>
      /\ checkpoint # None /\ ValidCheckpoint(checkpoint, log)
  BY DEF TakeCompaction
<1>2. PICK to \in Orders : bundle' = CreateCompaction(log, checkpoint, to)
  BY DEF TakeCompaction
<1>3. IsRecorded(made) /\ Entries \in Nat /\ Len(log.entries) = Entries
      /\ SoundLog(log, made)
  BY RecordedMade DEF StoreInv
<1>4. to \in Nat  BY <1>2, <1>3 DEF Orders
<1>5. checkpoint.boundary \in Nat /\ checkpoint.boundary < Entries
  BY <1>1, <1>3 DEF StoreInv, CheckpointKept, ValidCheckpoint
<1>6. PICK t \in 0 .. checkpoint.boundary :
        bundle' = BundleOf(made, checkpoint, t, TRUE)
  BY <1>2, <1>3, <1>4, <1>5, CompactionIs DEF Entries
<1>7. BundleKept'
  <2>1. checkpoint' # None /\ (checkpoint.boundary < Entries)'
    BY <1>1, <1>5 DEF Entries
  <2>2. bundle' = BundleOf(made', checkpoint', t, TRUE)
        /\ t \in 0 .. checkpoint'.boundary /\ TRUE \in BOOLEAN
    BY <1>1, <1>6
  <2>3. QED  BY <2>1, <2>2, Zenon DEF BundleKept
<1>8. CheckpointKept' /\ FaultsKept'
  BY <1>1 DEF StoreInv, CheckpointKept, FaultsKept, OnlyAt, Entries
<1>9. RepairAdmitsNothingNew'  BY <1>1, ExposedKept DEF StoreInv
<1>10. WasRecorded' /\ SoundLog(log, made)'
  BY <1>1 DEF StoreInv, WasRecorded
<1>11. QED  BY <1>7, <1>8, <1>9, <1>10 DEF StoreInv

\* A fault leaves what fits, and the first one all but one entry.
LEMMA Damaged ==
  ASSUME StoreInv, NEW i \in 1 .. Entries, NEW entry,
         SoundEntry(entry, made.entries[i], PackagesOf(made)),
         DamageEntry(i, entry)
  PROVE  StoreInv'
<1>1. UNCHANGED <<made, checkpoint, bundle, outcome>>
      /\ faults < MaxFaults /\ faults' = faults + 1
  BY DEF DamageEntry, Fault
<1>2. log' = Changed(log, i, entry)  BY DEF DamageEntry, Changed
<1>3. IsRecorded(made) /\ SoundLog(log, made) /\ Entries \in Nat
  BY RecordedMade DEF StoreInv
<1>4. /\ SoundLog(log', made)
      /\ \A j \in 1 .. Entries : j # i => log'.entries[j] = log.entries[j]
  BY <1>2, <1>3, SoundChange DEF Entries
<1>5. FaultsKept'
  <2>1. faults' \in 0 .. MaxFaults /\ faults' # 0 /\ (faults' = 1 => faults = 0)
    BY <1>1, FaultsAssumption DEF StoreInv, FaultsKept
  <2>2. ASSUME faults' = 1
        PROVE  \E k \in 0 .. Entries : OnlyAt(log', k)
    <3>1. log = made  BY <2>1, <2>2 DEF StoreInv, FaultsKept
    <3>2. i \in 0 .. Entries  BY <1>3
    <3>3. QED  BY <1>4, <3>1, <3>2 DEF OnlyAt
  <2>3. QED  BY <1>1, <2>1, <2>2 DEF FaultsKept, OnlyAt, Entries
<1>6. CheckpointKept' /\ BundleKept'
  BY <1>1 DEF StoreInv, CheckpointKept, BundleKept, Entries
<1>7. RepairAdmitsNothingNew'  BY <1>1, ExposedKept DEF StoreInv
<1>8. WasRecorded' /\ SoundLog(log, made)'
  BY <1>1, <1>4 DEF StoreInv, WasRecorded
<1>9. QED  BY <1>5, <1>6, <1>7, <1>8 DEF StoreInv

\* A fault in one entry keeps the invariant of the store.
LEMMA EntryDamaged ==
  ASSUME StoreInv, NEW i \in DOMAIN log.entries,
         LoseEvent(i) \/ RewriteEvent(i) \/ LosePackage(i) \/ BreakChain(i)
  PROVE  StoreInv'
<1> DEFINE e == log.entries[i]
           P == PackagesOf(made)
           r == made.entries[i]
<1>1. IsRecorded(made) /\ i \in 1 .. Entries  BY RecordedMade
<1>2. SoundEntry(e, r, P)  BY <1>1 DEF StoreInv, SoundLog, Entries
<1>3. e.event \in Stored(r.event, P)  BY <1>2 DEF SoundEntry
<1>4. IsEvent(r.event) /\ NoPackage \in P  BY <1>1, RecordedEvents DEF Entries
<1>5. /\ NoEvent \in Stored(r.event, P)
      /\ [e.event EXCEPT !.receipt = Wrong] \in Stored(r.event, P)
      /\ [e.event EXCEPT !.package = NoPackage] \in Stored(r.event, P)
  BY <1>3, <1>4, CopyFacts
<1>6. /\ \A event \in Stored(r.event, P) :
           SoundEntry([e EXCEPT !.event = event], r, P)
      /\ SoundEntry([e EXCEPT !.previous = <<Wrong>>], r, P)
  BY <1>2, EntryChange
<1>7. [e EXCEPT !.event.receipt = Wrong]
        = [e EXCEPT !.event = [e.event EXCEPT !.receipt = Wrong]]
  OBVIOUS
<1>8. [e EXCEPT !.event.package = NoPackage]
        = [e EXCEPT !.event = [e.event EXCEPT !.package = NoPackage]]
  OBVIOUS
<1>9. PICK entry : SoundEntry(entry, r, P) /\ DamageEntry(i, entry)
  <2> HIDE DEF P, r
  <2>1. CASE LoseEvent(i)  BY <1>5, <1>6, <2>1 DEF LoseEvent
  <2>2. CASE RewriteEvent(i)  BY <1>5, <1>6, <1>7, <2>2 DEF RewriteEvent
  <2>3. CASE LosePackage(i)  BY <1>5, <1>6, <1>8, <2>3 DEF LosePackage
  <2>4. CASE BreakChain(i)  BY <1>6, <2>4 DEF BreakChain
  <2>5. QED  BY <2>1, <2>2, <2>3, <2>4
<1>10. QED  BY <1>1, <1>9, Damaged

\* Spoiling the bundle keeps the invariant of the store.
LEMMA BundleDamaged ==
  ASSUME StoreInv, SpoilBundle
  PROVE  StoreInv'
<1> DEFINE no == FALSE
<1>1. /\ UNCHANGED <<made, log, checkpoint, outcome>>
      /\ bundle # None /\ bundle' = [bundle EXCEPT !.intact = no]
      /\ faults < MaxFaults /\ faults' = faults + 1
  BY DEF SpoilBundle, Fault
<1> HIDE DEF no
<1>2. PICK to \in 0 .. checkpoint.boundary, intact \in BOOLEAN :
        bundle = BundleOf(made, checkpoint, to, intact)
  BY <1>1 DEF StoreInv, BundleKept
<1>3. bundle' = BundleOf(made, checkpoint, to, no)
  BY <1>1, <1>2, BundleSpoilt
<1>4. BundleKept'
  <2>1. checkpoint' # None /\ (checkpoint.boundary < Entries)'
    BY <1>1 DEF StoreInv, BundleKept, Entries
  <2>2. bundle' = BundleOf(made', checkpoint', to, no)
        /\ to \in 0 .. checkpoint'.boundary /\ no \in BOOLEAN
    BY <1>1, <1>2, <1>3 DEF no
  <2>3. QED  BY <2>1, <2>2, Zenon DEF BundleKept
<1>5. FaultsKept'
  <2>1. faults' \in 0 .. MaxFaults /\ faults' # 0 /\ (faults' = 1 => faults = 0)
    BY <1>1, FaultsAssumption DEF StoreInv, FaultsKept
  <2>2. ASSUME faults' = 1
        PROVE  \E k \in 0 .. Entries : OnlyAt(log, k)
    <3>1. log = made  BY <2>1, <2>2 DEF StoreInv, FaultsKept
    <3>2. Entries \in Nat  BY RecordedMade
    <3>3. QED  BY <3>1, <3>2 DEF OnlyAt
  <2>3. QED  BY <1>1, <2>1, <2>2 DEF FaultsKept, OnlyAt, Entries
<1>6. CheckpointKept'  BY <1>1 DEF StoreInv, CheckpointKept, Entries
<1>7. RepairAdmitsNothingNew'  BY <1>1, ExposedKept DEF StoreInv
<1>8. WasRecorded' /\ SoundLog(log, made)'
  BY <1>1 DEF StoreInv, WasRecorded
<1>9. QED  BY <1>4, <1>5, <1>6, <1>7, <1>8 DEF StoreInv
-----------------------------------------------------------------------------
(* Repair keeps the invariant. *)

\* An issue is one of those there may be.
LEMMA IssueKnown ==
  ASSUME StoreInv
  PROVE  Issues \in Seq(Known(log, bundle))
BY RecordedMade, IssuesKnown DEF Issues

\* What is detected of the stored evidence is a known issue.
LEMMA IssueAt ==
  ASSUME StoreInv, NEW i \in DOMAIN Issues
  PROVE  Issues[i] \in Known(log, bundle)
<1> DEFINE known == Known(log, bundle)
<1>1. Issues \in Seq(known)  BY IssueKnown
<1> HIDE DEF known
<1>2. Issues[i] \in known  BY <1>1
<1>3. QED  BY <1>2 DEF known

\* What an issue of a log says of it.
LEMMA KnownIs ==
  ASSUME StoreInv, NEW issue \in Known(log, bundle)
  PROVE  /\ issue.kind = "transport-event" =>
              \E k \in 1 .. Entries :
                /\ k \in Broken(log.entries)
                /\ issue = EventIssue(log.entries[k])
         /\ issue.kind = "transport-log-chain" => ~ ValidLog(log)
<1>1. CASE issue \in BrokenIssues(log.entries)
  <2>1. PICK k \in Broken(log.entries) : issue = EventIssue(log.entries[k])
    BY <1>1 DEF BrokenIssues
  <2>2. k \in 1 .. Entries  BY RecordedMade DEF Broken
  <2>3. issue.kind = "transport-event"  BY <2>1 DEF EventIssue, Issue
  <2>4. QED  BY <2>1, <2>2, <2>3
<1>2. CASE issue = Issue("transport-log-chain", log.receipt) /\ ~ValidLog(log)
  BY <1>2 DEF Issue
<1>3. CASE issue = Issue("compaction-bundle", CompactionReceipt(bundle))
  BY <1>3 DEF Issue
<1>4. QED  BY <1>1, <1>2, <1>3 DEF Known

\* An entry of a valid log is not broken.
LEMMA ValidUnbroken ==
  ASSUME NEW l, ValidLog(l)
  PROVE  Broken(l.entries) = {}
BY DEF ValidLog, Broken

\* A broken entry is not as it was made.
LEMMA BrokenChanged ==
  ASSUME StoreInv, NEW k \in 1 .. Entries, k \in Broken(log.entries)
  PROVE  log.entries[k] # made.entries[k]
<1>1. ValidLog(made) /\ k \in DOMAIN made.entries
  BY RecordedMade, RecordedIsValid DEF Entries
<1>2. k \notin Broken(made.entries)  BY <1>1, ValidUnbroken
<1>3. QED  BY <1>1, <1>2 DEF Broken

\* Applying one payload to the stored log keeps the invariant of the store.
LEMMA RepairApplied ==
  ASSUME StoreInv, NEW issue \in Known(log, bundle), ApplyRepair(issue)
  PROVE  StoreInv'
<1>1. UNCHANGED <<made, checkpoint, bundle, faults, outcome>>
      /\ issue.kind \in {"transport-event", "transport-log-chain"}
  BY DEF ApplyRepair
<1>2. PICK p \in PayloadsFor(issue) :
        /\ ValidPayload(p) /\ ApplyPayload(log, p).ok
        /\ log' = ApplyPayload(log, p).log
  BY DEF ApplyRepair
<1>3. IsRecorded(made) /\ SoundLog(log, made) /\ Entries \in Nat
  BY RecordedMade DEF StoreInv
<1>4. SoundPayload(p, made) /\ p.kind = issue.kind  BY <1>3, AnswersSound
<1> DEFINE a == ApplyPayload(log, p)
<1>5. Applied(a, log, p, made)  BY <1>1, <1>2, <1>3, <1>4, ApplySound
<1>6. a.ok /\ log' = a.log  BY <1>2
<1> HIDE DEF a
<1>7. /\ SoundLog(log', made)
      /\ p.kind = "transport-log-chain" => log' = made
      /\ \/ log' = made
         \/ /\ ValidLog(log')
            /\ \E i \in 1 .. Entries :
                 \A j \in 1 .. Entries :
                   j # i => log'.entries[j] = log.entries[j]
  BY <1>5, <1>6 DEF Applied, Entries
<1>8. faults # 0
  <2>1. SUFFICES ASSUME faults = 0  PROVE FALSE  OBVIOUS
  <2>2. log = made  BY <2>1 DEF StoreInv, FaultsKept
  <2>3. ValidLog(log)  BY <1>3, <2>2, RecordedIsValid
  <2>4. QED  BY <1>1, <2>3, KnownIs, ValidUnbroken
<1>9. ASSUME faults = 1
      PROVE  \E k \in 0 .. Entries : OnlyAt(log', k)
  <2>1. CASE log' = made  BY <1>3, <2>1 DEF OnlyAt
  <2>2. CASE log' # made
    <3>1. ValidLog(log') /\ issue.kind = "transport-event"
      BY <1>1, <1>4, <1>7, <2>2
    <3>2. PICK i \in 1 .. Entries :
            \A j \in 1 .. Entries : j # i => log'.entries[j] = log.entries[j]
      BY <1>7, <2>2
    <3>3. PICK k \in 0 .. Entries : OnlyAt(log, k)
      BY <1>9 DEF StoreInv, FaultsKept
    <3>4. PICK b \in 1 .. Entries : b \in Broken(log.entries)
      BY <3>1, KnownIs
    <3>5. b = k  BY <3>3, <3>4, BrokenChanged DEF OnlyAt
    <3>6. b \in DOMAIN log'.entries
      BY <1>3, <1>7, SoundFacts DEF Entries
    <3>7. log'.entries[b] # log.entries[b]
      BY <3>1, <3>4, <3>6, ValidUnbroken DEF Broken
    <3>8. i = k  BY <3>2, <3>5, <3>7
    <3>9. OnlyAt(log', k)  BY <3>2, <3>3, <3>8 DEF OnlyAt
    <3>10. QED  BY <3>9
  <2>3. QED  BY <2>1, <2>2
<1>10. FaultsKept'
  <2>1. faults' = faults /\ faults' \in 0 .. MaxFaults
    BY <1>1 DEF StoreInv, FaultsKept
  <2>2. QED  BY <1>1, <1>8, <1>9, <2>1 DEF FaultsKept, OnlyAt, Entries
<1>11. CheckpointKept' /\ BundleKept'
  BY <1>1 DEF StoreInv, CheckpointKept, BundleKept, Entries
<1>12. RepairAdmitsNothingNew'  BY <1>1, ExposedKept DEF StoreInv
<1>13. WasRecorded' /\ SoundLog(log, made)'
  BY <1>1, <1>7 DEF StoreInv, WasRecorded
<1>14. QED  BY <1>10, <1>11, <1>12, <1>13 DEF StoreInv

\* Repair with sound payloads, in whatever step it happens.
LEMMA Repaired ==
  ASSUME StoreInv, UNCHANGED <<made, log, checkpoint, bundle, faults>>,
         NEW S, NEW payloads \in Seq(S), \A p \in S : SoundPayload(p, made),
         outcome' = RepairAndReplay(log, checkpoint, bundle, payloads)
  PROVE  StoreInv'
<1>1. IsRecorded(made) /\ SoundLog(log, made)
      /\ (checkpoint # None => checkpoint.boundary \in Nat)
  BY RecordedMade DEF StoreInv, CheckpointKept
<1>2. Admits(RepairAndReplay(log, checkpoint, bundle, payloads), made)
  BY <1>1, RepairedAdmits
<1>3. RepairAdmitsNothingNew'  BY <1>2 DEF RepairAdmitsNothingNew
<1>4. QED  BY <1>3, StoreKept

\* Every step of EvidenceStore keeps its invariant.
LEMMA StoreStep ==
  ASSUME StoreInv, [Next]_vars
  PROVE  StoreInv'
<1>1. CASE TakeCheckpoint  BY <1>1, CheckpointTaken
<1>2. CASE TakeCompaction  BY <1>2, CompactionTaken
<1>3. CASE \E i \in DOMAIN log.entries :
             LoseEvent(i) \/ RewriteEvent(i) \/ LosePackage(i) \/ BreakChain(i)
  BY <1>3, EntryDamaged
<1>4. CASE SpoilBundle  BY <1>4, BundleDamaged
<1>5. ASSUME NEW i \in DOMAIN Issues, ApplyRepair(Issues[i])
      PROVE  StoreInv'
  BY <1>5, IssueAt, RepairApplied
<1>6. IsRecorded(made) /\ SoundLog(log, made)
  BY RecordedMade DEF StoreInv
<1>7. ASSUME NEW i \in DOMAIN Issues, NEW p \in PayloadsFor(Issues[i]),
             Repair(<<p>>)
      PROVE  StoreInv'
  <2> DEFINE S == {p}
             payloads == <<p>>
  <2>1. SoundPayload(p, made)  BY <1>6, IssueAt, AnswersSound
  <2>2. payloads \in Seq(S) /\ \A q \in S : SoundPayload(q, made)  BY <2>1
  <2>3. UNCHANGED <<made, log, checkpoint, bundle, faults>>
        /\ outcome' = RepairAndReplay(log, checkpoint, bundle, payloads)
    BY <1>7 DEF Repair
  <2> HIDE DEF S, payloads
  <2>4. QED  BY <2>2, <2>3, Repaired
<1>8. ASSUME Repair(Answers)  PROVE StoreInv'
  <2> DEFINE S == {Answer(Issues[i]) : i \in DOMAIN Issues}
  <2>1. ASSUME NEW i \in DOMAIN Issues
        PROVE  SoundPayload(Answer(Issues[i]), made)
    <3> DEFINE issue == Issues[i]
    <3>1. issue \in Known(log, bundle)  BY IssueAt
    <3> HIDE DEF issue
    <3>2. Answer(issue) \in PayloadsFor(issue)  BY DEF PayloadsFor
    <3>3. SoundPayload(Answer(issue), made)  BY <1>6, <3>1, <3>2, AnswersSound
    <3>4. QED  BY <3>3 DEF issue
  <2>2. Answers \in Seq(S)
    <3>1. PICK n \in Nat : DOMAIN Issues = 1 .. n  BY IssueKnown
    <3>2. Answers = [i \in 1 .. n |-> Answer(Issues[i])]
      BY <3>1 DEF Answers
    <3>3. \A i \in 1 .. n : Answer(Issues[i]) \in S  BY <3>1
    <3> HIDE DEF S
    <3>4. QED  BY <3>1, <3>2, <3>3
  <2>3. UNCHANGED <<made, log, checkpoint, bundle, faults>>
        /\ outcome' = RepairAndReplay(log, checkpoint, bundle, Answers)
    BY <1>8 DEF Repair
  <2>4. \A p \in S : SoundPayload(p, made)  BY <2>1
  <2> HIDE DEF S
  <2>5. QED  BY <2>2, <2>3, <2>4, Repaired
<1>9. CASE UNCHANGED vars
  <2>1. RepairAdmitsNothingNew'  BY <1>9, ExposedKept DEF StoreInv, vars
  <2>2. QED  BY <1>9, <2>1, StoreKept DEF vars
<1>10. QED
  BY <1>1, <1>2, <1>3, <1>4, <1>5, <1>7, <1>8, <1>9 DEF Next

\* A recorded log nothing has happened to satisfies the invariant of the
\* store.
LEMMA StoreBegins ==
  ASSUME Init
  PROVE  StoreInv
<1>1. PICK id \in LogIds, events \in Recordings :
        log = CreateLog(id, events) /\ made = log
  BY DEF Init
<1>2. IsRecorded(made)  BY <1>1, Recorded
<1>3. SoundLog(log, made) /\ Entries \in Nat
  BY <1>1, <1>2, MadeIsSound, SoundFacts DEF Entries
<1>4. FaultsKept
  BY <1>1, <1>3, FaultsAssumption DEF Init, FaultsKept
<1>5. WasRecorded  BY <1>1 DEF WasRecorded
<1>6. CheckpointKept /\ BundleKept /\ RepairAdmitsNothingNew
  BY DEF Init, CheckpointKept, BundleKept, RepairAdmitsNothingNew, Admits
<1>7. QED  BY <1>3, <1>4, <1>5, <1>6 DEF StoreInv
-----------------------------------------------------------------------------
(* Requests keep the invariant. *)

\* The records of what a log needs are of the log and of its events.
LEMMA ReportAsks ==
  ASSUME StoreInv, NEW corrupt, NEW supplied,
         NEW need \in Report(EventReceipts \cup {log.receipt}, corrupt,
             supplied)
  PROVE  Asked(need)
<1>1. PICK r \in EventReceipts \cup {log.receipt} :
        need = [target |-> r, kind |-> KindOf(r),
                status |-> Status(r, corrupt, supplied),
                supplied |-> r \in supplied]
  BY DEF Report
<1>2. need.target = r /\ need.kind = KindOf(r)  BY <1>1
<1>3. IsRecorded(made) /\ SoundLog(log, made)
        /\ DOMAIN log.entries = 1 .. Entries
  BY RecordedMade DEF StoreInv
<1>4. log.receipt = made.receipt  BY <1>3, SoundFacts
<1>5. CASE r = log.receipt
  <2>1. r \in Inventory  BY <1>5 DEF Inventory
  <2>2. KindOf(r) = "transport-log"  BY <1>5, <2>1 DEF KindOf
  <2>3. QED  BY <1>2, <1>4, <1>5, <2>2 DEF Asked
<1>6. CASE r # log.receipt
  <2>1. PICK k \in 1 .. Entries : r = log.entries[k].eventReceipt
    BY <1>1, <1>3, <1>6 DEF EventReceipts
  <2>2. r = made.entries[k].eventReceipt
    BY <1>3, <2>1, SoundFacts DEF Entries
  <2>3. KindOf(r) \in {"unknown", "transport-event"}  BY <1>6 DEF KindOf
  <2>4. QED  BY <1>2, <2>2, <2>3 DEF Asked
<1>7. QED  BY <1>5, <1>6

\* What is cut of an order of needs is a sequence of them.
LEMMA LimitedSeq ==
  ASSUME NEW needs, NEW o \in Seq(needs), NEW max, max = None \/ max \in Int
  PROVE  Limited(o, max) \in Seq(needs)
<1> DEFINE cut == IF max < 0 THEN Len(o) + max
                  ELSE IF max < Len(o) THEN max ELSE Len(o)
<1>1. CASE max = None  BY <1>1 DEF Limited
<1>2. CASE max # None
  <2>1. Limited(o, max) = SubSeq(o, 1, cut)  BY <1>2 DEF Limited
  <2>2. cut \in Int /\ cut <= Len(o)  BY <1>2
  <2> HIDE DEF cut
  <2>3. SubSeq(o, 1, cut) \in Seq(needs)
    <3>1. \A i \in 1 .. cut : o[i] \in needs  BY <2>2
    <3>2. QED  BY <2>2, <3>1
  <2>4. QED  BY <2>1, <2>3
<1>3. QED  BY <1>1, <1>2

\* Making a schedule keeps the invariant.
LEMMA ScheduleMade ==
  ASSUME Inv, MakeSchedule
  PROVE  Inv'
<1>1. PICK corrupt, supplied \in SUBSET (EventReceipts \cup {log.receipt}),
           policy \in Policies :
        schedule' \in RequestSchedules(
          Report(EventReceipts \cup {log.receipt}, corrupt, supplied), policy)
  BY DEF MakeSchedule
<1>2. UNCHANGED <<made, log, checkpoint, bundle, faults, outcome, inbox>>
  BY DEF MakeSchedule, vars
<1> DEFINE report == Report(EventReceipts \cup {log.receipt}, corrupt, supplied)
           needs == {record \in report : record.status # "available"}
<1>3. PICK o \in Orderings(needs, policy) :
        schedule' = [requests |-> Limited(o, policy.max), needs |-> needs,
                     policy |-> policy]
  BY <1>1 DEF RequestSchedules
<1>4. DOMAIN log.entries = 1 .. Entries /\ Entries \in Nat
  BY RecordedMade DEF Inv
<1>5. FiniteLog(log)  BY <1>4, FS_Interval DEF FiniteLog
<1>6. IsFiniteSet(needs)  BY <1>5, RequiredFinite, ReportFinite, FS_Subset
<1>7. \A need \in needs : Asked(need)  BY ReportAsks DEF Inv
<1>8. o \in Seq(needs)
  <2> HIDE DEF needs
  <2>1. o \in SetToSeqs(needs)  BY <1>3 DEF Orderings
  <2>2. Cardinality(needs) \in Nat /\ o \in [1 .. Cardinality(needs) -> needs]
    BY <1>6, <2>1, Onto
  <2>3. QED  BY <2>2
<1> DEFINE requests == Limited(o, policy.max)
<1>9. requests \in Seq(needs)
  <2>1. policy.max = None \/ policy.max \in Int  BY PoliciesAssumption
  <2> HIDE DEF needs
  <2>2. QED  BY <1>8, <2>1, LimitedSeq
<1>10. ScheduleKept'
  <2> HIDE DEF needs, requests
  <2>1. schedule' = [requests |-> requests, needs |-> needs, policy |-> policy]
    BY <1>3 DEF requests
  <2>2. /\ schedule'.requests = requests /\ schedule'.needs = needs
        /\ schedule'.policy = policy
    BY <2>1
  <2>3. \A need \in needs : Asked(need)'
    BY <1>2, <1>7 DEF Asked, Entries
  <2>4. QED  BY <1>6, <1>9, <2>1, <2>2, <2>3 DEF ScheduleKept
<1>11. AnswerableIsRequested'
  <2>1. schedule'.policy = policy  BY <1>1, SchedulePolicy
  <2>2. ASSUME \E need \in schedule'.needs : need.supplied,
               policy.max = None
               \/ /\ policy.order # <<>> /\ policy.order[1] = "repairable"
                  /\ policy.max > 0
        PROVE  \E r \in Range(schedule'.requests) : r.supplied
    BY <1>1, <1>5, <2>2, ScheduleAsks
  <2>3. QED  BY <2>1, <2>2 DEF AnswerableIsRequested, Unsatisfied
<1>12. InboxKept'  BY <1>2 DEF Inv, InboxKept
<1>13. StoreInv'
  <2>1. RepairAdmitsNothingNew'  BY <1>2, ExposedKept DEF Inv, StoreInv
  <2>2. QED  BY <1>2, <2>1, StoreKept DEF Inv
<1>14. QED  BY <1>10, <1>11, <1>12, <1>13 DEF Inv
-----------------------------------------------------------------------------
(* Payloads that arrive, and the plans that are made of them. *)

\* The fields of a payload that carries another event.
LEMMA SwappedFields ==
  ASSUME NEW issue, NEW form, NEW evidence, NEW other
  PROVE  LET p == [RepairPayload(issue, form, evidence) EXCEPT
                     !.evidence = other, !.receipt = other.receipt]
         IN  /\ p.kind = issue.kind /\ p.evidence = other
             /\ p.receipt = other.receipt
BY DEF RepairPayload

\* The fields of an issue.
LEMMA IssueFields ==
  ASSUME NEW kind, NEW target
  PROVE  Issue(kind, target).kind = kind /\ Issue(kind, target).target = target
BY DEF Issue

\* What a supplier sends is a sound payload.
LEMMA SuppliedSound ==
  ASSUME IsRecorded(made), NEW request, Asked(request),
         NEW p \in SuppliedFor(request)
  PROVE  SoundPayload(p, made)
<1> DEFINE issue == Issue(RequestKind(request), request.target)
           P == PackagesOf(made)
<1>1. issue.kind = RequestKind(request) /\ issue.target = request.target
  BY IssueFields
<1>2. ASSUME NEW k \in 1 .. Entries
      PROVE  /\ made.entries[k].eventReceipt # made.receipt
             /\ made.entries[k].event \in Copies(made.entries[k].event, P)
  <2>1. /\ IsEvent(made.entries[k].event) /\ NoPackage \in P
        /\ made.entries[k].event.package \in P
        /\ made.entries[k].event.receipt # made.receipt
        /\ made.entries[k].eventReceipt = made.entries[k].event.receipt
    BY RecordedEvents DEF Entries
  <2> HIDE DEF P
  <2>2. QED  BY <2>1, CopyFacts
<1>3. DOMAIN made.entries = 1 .. Entries  BY RecordedIsValid DEF Entries
<1> HIDE DEF issue
<1>4. CASE request.target = made.receipt
  <2>1. request.kind = "transport-log"  BY <1>2, <1>4 DEF Asked
  <2>2. issue.kind = "transport-log"  BY <1>1, <2>1 DEF RequestKind
  <2>3. p \in Sent(issue, "log", made)
    BY <1>4 DEF SuppliedFor, Sent, issue
  <2>4. p.kind = "transport-log"  BY <2>2, <2>3, SentFields
  <2>5. QED  BY <2>4 DEF SoundPayload
<1>5. CASE request.target # made.receipt
  <2>1. PICK k \in 1 .. Entries : request.target = made.entries[k].eventReceipt
    BY <1>5 DEF Asked
  <2> DEFINE event == made.entries[k].event
  <2>2. RecordedEvent(request.target) = event
    BY <2>1, RecordedEventIs DEF Entries
  <2>3. issue.kind = "transport-event"
    BY <1>1, <1>5 DEF Asked, RequestKind
  <2>4. CASE p \in Sent(issue, "event", event)
    <3>1. p.kind = "transport-event" /\ p.evidence = event
          /\ p.receipt = EvidenceReceipt("event", event)
      BY <2>3, <2>4, SentFields
    <3>2. EvidenceReceipt("event", event) = event.receipt
      BY DEF EvidenceReceipt
    <3>3. QED  BY <1>2, <3>1, <3>2 DEF SoundPayload, Entries
  <2>5. ASSUME NEW i \in 1 .. Entries,
               p = [RepairPayload(issue, "event", event) EXCEPT
                      !.evidence = made.entries[i].event,
                      !.receipt = made.entries[i].event.receipt]
        PROVE  SoundPayload(p, made)
    <3> DEFINE other == made.entries[i].event
    <3>1. p.kind = "transport-event" /\ p.evidence = other
          /\ p.receipt = other.receipt
      <4> HIDE DEF other
      <4>1. p = [RepairPayload(issue, "event", event) EXCEPT
                   !.evidence = other, !.receipt = other.receipt]
        BY <2>5 DEF other
      <4> HIDE DEF event
      <4>2. QED  BY <2>3, <4>1, SwappedFields
    <3>2. QED  BY <1>2, <3>1 DEF SoundPayload, Entries
  <2>6. \/ p \in Sent(issue, "event", event)
        \/ \E i \in 1 .. Entries :
             p = [RepairPayload(issue, "event", event) EXCEPT
                    !.evidence = made.entries[i].event,
                    !.receipt = made.entries[i].event.receipt]
    BY <1>3, <1>5, <2>2 DEF SuppliedFor, Sent, issue
  <2>7. QED  BY <2>4, <2>5, <2>6
<1>6. QED  BY <1>4, <1>5

\* A payload that arrives keeps the invariant.
LEMMA Supplied ==
  ASSUME Inv, schedule # None, NEW request \in Range(schedule.requests),
         Supply(request)
  PROVE  Inv'
<1>1. UNCHANGED <<made, log, checkpoint, bundle, faults, outcome, schedule>>
  BY DEF Supply, vars
<1>2. PICK p \in SuppliedFor(request) : inbox' = Append(inbox, p)
  BY DEF Supply
<1>3. Asked(request)
  <2> DEFINE needs == schedule.needs
  <2>1. schedule.requests \in Seq(needs) /\ \A need \in needs : Asked(need)
    BY DEF Inv, ScheduleKept
  <2> HIDE DEF needs
  <2>2. request \in needs  BY <2>1 DEF Range
  <2>3. QED  BY <2>1, <2>2
<1>4. SoundPayload(p, made)
  BY <1>2, <1>3, RecordedMade, SuppliedSound DEF Inv
<1>5. InboxKept'
  <2> DEFINE S == ToSet(inbox)
             new == Append(inbox, p)
             U == S \cup {p}
  <2>1. inbox \in Seq(S) /\ \A q \in S : SoundPayload(q, made)
    BY DEF Inv, InboxKept
  <2>2. \A q \in U : SoundPayload(q, made)  BY <1>4, <2>1
  <2> HIDE DEF S
  <2>3. new \in Seq(U)  BY <2>1
  <2> HIDE DEF new, U
  <2>4. ToSet(new) = {new[i] : i \in DOMAIN new}  BY DEF ToSet
  <2>5. new \in Seq(ToSet(new)) /\ ToSet(new) \subseteq U
    BY <2>3, <2>4, OwnElements
  <2>6. inbox' = new  BY <1>2 DEF new
  <2>7. QED  BY <1>1, <2>2, <2>5, <2>6 DEF InboxKept
<1>6. StoreInv'
  <2>1. RepairAdmitsNothingNew'  BY <1>1, ExposedKept DEF Inv, StoreInv
  <2>2. QED  BY <1>1, <2>1, StoreKept DEF Inv
<1>7. ScheduleKept' /\ AnswerableIsRequested'
  BY <1>1 DEF Inv, ScheduleKept, Asked, Entries, AnswerableIsRequested,
              Unsatisfied
<1>8. QED  BY <1>5, <1>6, <1>7 DEF Inv

WithPayload(payloads, found, request) ==
  found \o FirstPayload(request.target, payloads)

Scheduling == INSTANCE FoldTheorems WITH
  Step <- LAMBDA payloads, found, request :
    WithPayload(payloads, found, request)

\* The payloads of a plan are gathered request by request
\* (buildScheduledRepairPlan).
LEMMA ScheduledIs ==
  ASSUME NEW s, NEW payloads
  PROVE  ScheduledPayloads(s, payloads)
           = Scheduling!Fold(payloads, <<>>, s.requests)
BY DEF ScheduledPayloads, Scheduling!Fold, FoldLeft, MapThenFoldSet,
       Scheduling!FoldLeft, Scheduling!MapThenFoldSet, Max, Scheduling!Max,
       WithPayload

\* The first payload for a target.
LEMMA FirstPayloadIs ==
  ASSUME NEW S, NEW payloads \in Seq(S), NEW target
  PROVE  /\ FirstPayload(target, payloads) \in Seq(S)
         /\ \A i \in 1 .. Len(payloads) :
              payloads[i].target = target
                /\ (\A j \in 1 .. i - 1 : payloads[j].target # target)
              => FirstPayload(target, payloads) = <<payloads[i]>>
<1> DEFINE n == Len(payloads)
           At == {i \in 1 .. n : payloads[i].target = target}
           first == SelectInSeq(payloads, LAMBDA p : p.target = target)
<1>1. n \in Nat /\ At \in SUBSET Nat /\ \A i \in 1 .. n : payloads[i] \in S
  OBVIOUS
<1>2. FirstPayload(target, payloads)
        = IF first = 0 THEN <<>> ELSE <<payloads[first]>>
  BY DEF FirstPayload
<1>3. CASE At = {}
  <2>1. first = 0  BY <1>3 DEF SelectInSeq
  <2> HIDE DEF first
  <2>2. FirstPayload(target, payloads) = <<>>  BY <1>2, <2>1
  <2>3. QED  BY <1>3, <2>2
<1>4. CASE At # {}
  <2>1. first = Min(At)  BY <1>4 DEF SelectInSeq
  <2>2. Min(At) \in At /\ \A x \in At : Min(At) <= x
    <3> HIDE DEF At
    <3>1. QED  BY <1>1, <1>4, LeastNat
  <2> HIDE DEF first
  <2>3. /\ first \in 1 .. n /\ payloads[first].target = target
        /\ \A x \in At : first <= x
    BY <2>1, <2>2
  <2>4. first # 0  BY <1>1, <2>3
  <2>5. FirstPayload(target, payloads) = <<payloads[first]>>  BY <1>2, <2>4
  <2>6. <<payloads[first]>> \in Seq(S)  BY <1>1, <2>3
  <2>7. ASSUME NEW i \in 1 .. n, payloads[i].target = target,
               \A j \in 1 .. i - 1 : payloads[j].target # target
        PROVE  first = i
    <3>1. first <= i  BY <2>3, <2>7
    <3>2. first \notin 1 .. i - 1  BY <2>3, <2>7
    <3>3. QED  BY <1>1, <2>3, <3>1, <3>2
  <2>8. QED  BY <2>5, <2>6, <2>7
<1>5. QED  BY <1>3, <1>4

\* A plan consists of payloads that have arrived.
LEMMA ScheduledSeq ==
  ASSUME NEW S, NEW payloads \in Seq(S), NEW T, NEW s, s.requests \in Seq(T)
  PROVE  ScheduledPayloads(s, payloads) \in Seq(S)
<1> DEFINE requests == s.requests
           A == Seq(S)
<1>1. <<>> \in A  OBVIOUS
<1>2. ASSUME NEW found \in A, NEW request \in T
      PROVE  WithPayload(payloads, found, request) \in A
  <2>1. FirstPayload(request.target, payloads) \in A  BY FirstPayloadIs
  <2>2. QED  BY <2>1, ConcatFacts DEF WithPayload
<1>3. requests \in Seq(T)  OBVIOUS
<1> HIDE DEF A, requests
<1>4. Scheduling!Fold(payloads, <<>>, requests) \in A
  BY <1>1, <1>2, <1>3, Scheduling!FoldKeeps
<1>5. QED  BY <1>4, ScheduledIs DEF A, requests

\* SetToSeq lists a finite set.
LEMMA SetToSeqIs ==
  ASSUME NEW S, IsFiniteSet(S)
  PROVE  SetToSeq(S) \in Seq(S)
<1> DEFINE n == Cardinality(S)
<1>1. n \in Nat /\ \E f : f \in Bijection(1 .. n, S)
  BY FS_CardinalityType DEF ExistsBijection
<1>2. PICK f : f \in Injection(1 .. n, S)  BY <1>1 DEF Bijection
<1>3. f \in [1 .. n -> S] /\ IsInjective(f)
  BY <1>2 DEF Injection, IsInjective
<1>4. SetToSeq(S) \in [1 .. n -> S]  BY <1>3 DEF SetToSeq
<1>5. QED  BY <1>1, <1>4

\* The payloads of a repair plan are some of those it is given
\* (buildRepairPlan).
LEMMA PlannedSeq ==
  ASSUME Inv, schedule # None, NEW S, NEW payloads \in Seq(S)
  PROVE  PlannedPayloads(schedule, payloads) \in Seq(S)
<1> DEFINE Q == {r \in schedule.needs : r.status = "repairable"}
           list == SetToSeq(Q)
           s == [schedule EXCEPT !.requests = list]
           requests == schedule.requests
           needs == schedule.needs
           policy == schedule.policy
<1>1. IsFiniteSet(Q)  BY FS_Subset DEF Inv, ScheduleKept
<1>2. schedule = [requests |-> requests, needs |-> needs, policy |-> policy]
  BY DEF Inv, ScheduleKept
<1>3. PlannedPayloads(schedule, payloads) = ScheduledPayloads(s, payloads)
  BY DEF PlannedPayloads
<1> HIDE DEF Q
<1>4. list \in Seq(Q)  BY <1>1, SetToSeqIs
<1> HIDE DEF list, requests, needs, policy
<1>5. s.requests = list  BY <1>2
<1> HIDE DEF s
<1>6. QED  BY <1>3, <1>4, <1>5, ScheduledSeq

\* Executing a plan made of what arrived keeps the invariant.
LEMMA Executes ==
  ASSUME Inv, schedule # None, schedule' = None,
         UNCHANGED <<made, log, checkpoint, bundle, faults, inbox>>,
         NEW payloads,
         \A S : inbox \in Seq(S) => payloads \in Seq(S),
         outcome' = Executed(payloads)
  PROVE  Inv'
<1>1. /\ inbox \in Seq(ToSet(inbox))
      /\ \A p \in ToSet(inbox) : SoundPayload(p, made)
  BY DEF Inv, InboxKept
<1>2. payloads \in Seq(ToSet(inbox))  BY <1>1
<1>3. StoreInv'  BY <1>1, <1>2, Repaired DEF Inv, Executed
<1>4. ScheduleKept' /\ AnswerableIsRequested'
  BY DEF ScheduleKept, AnswerableIsRequested
<1>5. InboxKept'  BY <1>1 DEF InboxKept
<1>6. QED  BY <1>3, <1>4, <1>5 DEF Inv

\* Every step keeps the invariant.
LEMMA InvStep ==
  ASSUME Inv, [NextRequests]_allVars
  PROVE  Inv'
<1>1. ASSUME [Next]_vars, UNCHANGED requestVars  PROVE Inv'
  <2>1. StoreInv'  BY <1>1, StoreStep DEF Inv
  <2>2. made' = made
    BY <1>1 DEF Next, vars, TakeCheckpoint, TakeCompaction, LoseEvent,
                RewriteEvent, LosePackage, BreakChain, DamageEntry, SpoilBundle,
                ApplyRepair, Repair
  <2>3. ScheduleKept' /\ AnswerableIsRequested'
    BY <1>1, <2>2 DEF Inv, ScheduleKept, Asked, Entries, AnswerableIsRequested,
                      Unsatisfied, requestVars
  <2>4. InboxKept'  BY <1>1, <2>2 DEF Inv, InboxKept, requestVars
  <2>5. QED  BY <2>1, <2>3, <2>4 DEF Inv
<1>2. CASE MakeSchedule  BY <1>2, ScheduleMade
<1>3. CASE schedule # None /\ \E r \in Range(schedule.requests) : Supply(r)
  BY <1>3, Supplied
<1>4. CASE ExecuteScheduledRepair
  <2> DEFINE payloads == ScheduledPayloads(schedule, inbox)
  <2>1. /\ schedule # None /\ schedule' = None
        /\ UNCHANGED <<made, log, checkpoint, bundle, faults, inbox>>
        /\ outcome' = Executed(payloads)
    BY <1>4 DEF ExecuteScheduledRepair
  <2>2. schedule.requests \in Seq(schedule.needs)
    BY <2>1 DEF Inv, ScheduleKept
  <2>3. \A S : inbox \in Seq(S) => payloads \in Seq(S)
    BY <2>2, ScheduledSeq
  <2> HIDE DEF payloads
  <2>4. QED  BY <2>1, <2>3, Executes
<1>5. CASE ExecuteRepairPlan
  <2> DEFINE payloads == PlannedPayloads(schedule, inbox)
  <2>1. /\ schedule # None /\ schedule' = None
        /\ UNCHANGED <<made, log, checkpoint, bundle, faults, inbox>>
        /\ outcome' = Executed(payloads)
    BY <1>5 DEF ExecuteRepairPlan
  <2>2. \A S : inbox \in Seq(S) => payloads \in Seq(S)
    BY <2>1, PlannedSeq
  <2> HIDE DEF payloads
  <2>3. QED  BY <2>1, <2>2, Executes
<1>6. CASE UNCHANGED allVars  BY <1>1, <1>6 DEF allVars
<1>7. QED
  BY <1>1, <1>2, <1>3, <1>4, <1>5, <1>6 DEF NextRequests

\* The invariant holds at first.
LEMMA InvInit ==
  ASSUME InitRequests
  PROVE  Inv
<1>1. StoreInv  BY StoreBegins DEF InitRequests
<1>2. ScheduleKept /\ AnswerableIsRequested
  BY DEF InitRequests, ScheduleKept, AnswerableIsRequested
<1>3. InboxKept
  <2> DEFINE none == <<>>
  <2>1. none \in Seq({}) /\ DOMAIN none = {}  OBVIOUS
  <2> HIDE DEF none
  <2>2. ToSet(none) = {}  BY <2>1 DEF ToSet
  <2>3. inbox = none  BY DEF InitRequests, none
  <2>4. QED  BY <2>1, <2>2, <2>3 DEF InboxKept
<1>4. QED  BY <1>1, <1>2, <1>3 DEF Inv

\* The invariant: what is stored is sound, faults are counted, what is asked
\* for and what arrives is evidence of the recorded log.
THEOREM Invariance == RequestSpec => []Inv
<1>1. InitRequests => Inv  BY InvInit
<1>2. Inv /\ [NextRequests]_allVars => Inv'  BY InvStep
<1>3. QED  BY <1>1, <1>2, PTL DEF RequestSpec
-----------------------------------------------------------------------------
(* What follows from the invariant. *)

\* The invariant gives the types.
LEMMA TypesHold == ASSUME Inv  PROVE TypeOK
<1>1. /\ IsRecorded(made) /\ SoundLog(log, made) /\ Entries \in Nat
      /\ DOMAIN log.entries = 1 .. Entries
  BY RecordedMade DEF Inv, StoreInv
<1>2. ValidLog(made) /\ DOMAIN made.entries = 1 .. Entries
  BY <1>1, RecordedIsValid DEF Entries
<1>3. Receipts(log) = Receipts(made)
  <2>1. \A i \in 1 .. Entries : log.entries[i].eventReceipt
                                  = made.entries[i].eventReceipt
    BY <1>1, SoundFacts DEF Entries
  <2>2. QED  BY <1>1, <1>2, <2>1 DEF Receipts
<1>4. log.receipt = made.receipt  BY <1>1, SoundFacts
<1>5. bundle # None => bundle.to \in 0 .. checkpoint.boundary
  <2>1. SUFFICES ASSUME bundle # None
                 PROVE  bundle.to \in 0 .. checkpoint.boundary
    OBVIOUS
  <2>2. PICK to \in 0 .. checkpoint.boundary, intact \in BOOLEAN :
          bundle = BundleOf(made, checkpoint, to, intact)
    BY <2>1 DEF Inv, StoreInv, BundleKept
  <2>3. bundle.to = to  BY <2>2, BundleFields
  <2>4. QED  BY <2>3
<1>6. QED
  BY <1>2, <1>3, <1>4, <1>5
     DEF TypeOK, Inv, StoreInv, CheckpointKept, FaultsKept

\* A resumed replay covers the log before the boundary and after it.
LEMMA ResumedMatches == ASSUME Inv  PROVE ResumeMatchesReplay
<1>1. SUFFICES ASSUME checkpoint # None, ResumeReplay(log, checkpoint).ok
               PROVE  /\ ResumeReplay(log, checkpoint).accepted
                           = Accepted(Processing(log))
                      /\ ResumeReplay(log, checkpoint).rejected
                           = Rejected(Processing(log))
  BY DEF ResumeMatchesReplay
<1>2. /\ Entries \in Nat /\ Len(log.entries) = Entries
      /\ Walk(Entries, log.entries) /\ checkpoint.boundary \in Nat
  BY <1>1, RecordedMade DEF Inv, StoreInv, CheckpointKept
<1>3. QED  BY <1>1, <1>2, ResumeIsReplay

\* A checkpoint of a recorded log resumes it.
LEMMA RecordedCheckpointResumes ==
  ASSUME Inv, NoId \notin LogIds, checkpoint # None,
         checkpoint.boundary < Entries,
         checkpoint = CreateCheckpoint(made, checkpoint.boundary)
  PROVE  /\ ValidCheckpoint(checkpoint, made)
         /\ ResumeReplay(made, checkpoint).ok
         /\ ResumeReplay(made, checkpoint).accepted = Accepted(Processing(made))
<1>1. PICK id \in LogIds, events \in Recordings : made = CreateLog(id, events)
  BY DEF Inv, StoreInv, WasRecorded
<1>2. id # NoId /\ checkpoint.boundary \in Nat
  BY DEF Inv, StoreInv, CheckpointKept
<1>3. ValidCheckpoint(checkpoint, made) /\ ResumeReplay(made, checkpoint).ok
  BY <1>1, <1>2, RecordedResumes DEF Entries
<1>4. Entries \in Nat /\ Walk(Entries, made.entries)
  BY RecordedMade DEF Inv, IsRecorded, Entries
<1>5. QED  BY <1>2, <1>3, <1>4, ResumeIsReplay DEF Entries

\* Without a fault the checkpoint is the one of the stored log.
LEMMA UndamagedResumed ==
  ASSUME Inv, NoId \notin LogIds, <<>> \notin Recordings
  PROVE  UndamagedResumes
<1>1. SUFFICES ASSUME faults = 0, checkpoint # None
               PROVE  ResumeReplay(log, checkpoint).ok
  BY DEF UndamagedResumes
<1>2. PICK id \in LogIds, events \in Recordings : made = CreateLog(id, events)
  BY DEF Inv, StoreInv, WasRecorded
<1>3. Entries # 0
  <2>1. Entries = Len(events) /\ events \in Seq(ToSet(events)) /\ events # <<>>
    BY <1>2, Recorded DEF Entries
  <2>2. QED  BY <2>1
<1>4. /\ log = made /\ checkpoint.boundary < Entries
      /\ checkpoint = CreateCheckpoint(made, checkpoint.boundary)
  BY <1>1, <1>3 DEF Inv, StoreInv, FaultsKept, CheckpointKept
<1>5. ResumeReplay(made, checkpoint).ok
  BY <1>1, <1>4, RecordedCheckpointResumes
<1>6. QED  BY <1>4, <1>5

\* Copies differ in nothing but their package.
LEMMA CopyBare ==
  ASSUME NEW r, NEW P, IsEvent(r.event), NEW e, SoundEntry(e, r, P),
         e.event \in Copies(r.event, P), e.previous = r.previous,
         r = [prefix |-> r.prefix, order |-> r.order,
              eventReceipt |-> r.eventReceipt, previous |-> r.previous,
              event |-> r.event, receipt |-> r.receipt]
  PROVE  Bare(e) = Bare(r)
<1> DEFINE old == e.event
           own == r.event
           receipt == own.receipt
           success == own.success
           offer == own.offer
           bare == TransportEvent(receipt, success, offer, NoPackage)
           prefix == r.prefix
           order == r.order
           eventReceipt == r.eventReceipt
           previous == r.previous
           name == r.receipt
           Entry(event) == [prefix |-> prefix, order |-> order,
                            eventReceipt |-> eventReceipt,
                            previous |-> previous,
                            event |-> event, receipt |-> name]
<1>1. PICK p \in P : old = TransportEvent(receipt, success, offer, p)
  BY DEF Copies
<1>2. own = TransportEvent(receipt, success, offer, own.package)  BY DEF IsEvent
<1>3. e = Entry(old) /\ r = Entry(own)  BY DEF SoundEntry
<1>4. /\ Bare(e) = [e EXCEPT !.event = [old EXCEPT !.package = NoPackage]]
      /\ Bare(r) = [r EXCEPT !.event = [own EXCEPT !.package = NoPackage]]
  BY DEF Bare
<1> DEFINE oldBare == [old EXCEPT !.package = NoPackage]
           ownBare == [own EXCEPT !.package = NoPackage]
<1>5. oldBare = bare /\ ownBare = bare
  <2> HIDE DEF old, own, receipt, success, offer
  <2>1. oldBare = bare  BY <1>1, EventFields
  <2>2. ownBare = bare  BY <1>2, EventFields
  <2>3. QED  BY <2>1, <2>2
<1> HIDE DEF old, own, oldBare, ownBare, bare, prefix, order, eventReceipt,
             previous, name
<1>6. [e EXCEPT !.event = bare] = Entry(bare)  BY <1>3
<1>7. [r EXCEPT !.event = bare] = Entry(bare)  BY <1>3
<1>8. QED  BY <1>4, <1>5, <1>6, <1>7 DEF oldBare, ownBare

\* Without an issue every event is a copy of the recorded one.
LEMMA WholeRecorded == ASSUME Inv  PROVE WholeIsRecorded
<1>1. /\ IsRecorded(made) /\ SoundLog(log, made) /\ Entries \in Nat
      /\ DOMAIN log.entries = 1 .. Entries /\ Len(log.entries) = Entries
      /\ Walk(Entries, log.entries)
  BY RecordedMade DEF Inv, StoreInv
<1>2. DOMAIN made.entries = 1 .. Entries
  BY <1>1, RecordedIsValid DEF Entries
<1>3. ASSUME ValidLog(log), NEW i \in 1 .. Entries
      PROVE  Bare(log.entries[i]) = Bare(made.entries[i])
  <2> DEFINE e == log.entries[i]
             r == made.entries[i]
             P == PackagesOf(made)
  <2>1. /\ e.event \in Copies(r.event, P) /\ e.previous = r.previous
        /\ SoundEntry(e, r, P) /\ IsEvent(r.event)
    BY <1>1, <1>3, WholeEvents, RecordedEvents DEF SoundLog, Entries
  <2>2. r = [prefix |-> r.prefix, order |-> r.order,
             eventReceipt |-> r.eventReceipt, previous |-> r.previous,
             event |-> r.event, receipt |-> r.receipt]
    BY <1>1, RecordedEntry DEF Entries
  <2> HIDE DEF e, r, P
  <2>3. Bare(e) = Bare(r)  BY <2>1, <2>2, CopyBare
  <2>4. QED  BY <2>3 DEF e, r
<1>4. WholeLogIsRecorded  BY <1>2, <1>3 DEF WholeLogIsRecorded
<1>5. ASSUME DistinctEvents, EventReceipts \subseteq Inventory,
         NEW i \in 1 .. Entries
      PROVE  i \notin Broken(log.entries)
  <2> DEFINE r == made.entries[i].eventReceipt
  <2>1. /\ log.entries[i].eventReceipt = r
        /\ r # made.receipt /\ r \notin {Wrong, None}
        /\ log.receipt = made.receipt
    BY <1>1, SoundFacts, RecordedEvents DEF IsEvent, Entries
  <2>2. r \in Inventory  BY <1>1, <1>5, <2>1 DEF EventReceipts
  <2> HIDE DEF r
  <2>3. PICK j \in 1 .. Entries : log.entries[j].event.receipt = r
    BY <1>1, <2>1, <2>2 DEF Inventory
  <2>4. made.entries[j].eventReceipt = r
    BY <1>1, <2>1, <2>3, SoundFacts DEF Entries
  <2>5. j = i
    <3>1. Receipts(made)[i] = r /\ Receipts(made)[j] = r
      BY <1>2, <2>4 DEF Receipts, r
    <3>2. QED  BY <1>2, <1>5, <3>1 DEF DistinctEvents
  <2>6. QED  BY <2>1, <2>3, <2>5 DEF Broken
<1>6. AvailableLogIsWhole
  <2>1. SUFFICES ASSUME DistinctEvents, EventReceipts \subseteq Inventory
                 PROVE  EventIssues(log) = <<>>
    BY DEF AvailableLogIsWhole
  <2>2. Broken(log.entries) = {}  BY <1>1, <1>5, <2>1 DEF Broken
  <2>3. QED  BY <1>1, <2>2, EventIssuesIs
<1>7. QED  BY <1>4, <1>6 DEF WholeIsRecorded
-----------------------------------------------------------------------------
(* Repair that restores what was recorded. *)

\* A step that mends what there is.
Mends(a, l, b) ==
  /\ a = [ok |-> a.ok, log |-> a.log, bundle |-> a.bundle]
  /\ a.ok \in BOOLEAN /\ a.ok
  /\ a.log = l /\ a.bundle = b

\* A payload that applies leaves the log it makes.
LEMMA MendingStep ==
  ASSUME NEW a, NEW l, NEW b, Mends(a, l, b), NEW p,
         p.kind \in {"transport-event", "transport-log-chain"},
         NEW m, ApplyPayload(l, p) = [ok |-> TRUE, log |-> m]
  PROVE  Mends(RepairStep(a, p), m, b)
<1> DEFINE applied == ApplyPayload(l, p)
           ok == applied.ok
           new == applied.log
           was == a.ok
           result == RepairStep(a, p)
<1>1. ok \in BOOLEAN /\ ok /\ new = m  OBVIOUS
<1>2. result = [a EXCEPT !.ok = ok, !.log = new]  BY DEF RepairStep, Mends
<1>3. a = [ok |-> was, log |-> l, bundle |-> b]  BY DEF Mends
<1> HIDE DEF ok, new, was, result
<1>4. result = [ok |-> ok, log |-> new, bundle |-> b]  BY <1>2, <1>3
<1>5. result.ok = ok /\ result.log = new /\ result.bundle = b  BY <1>4
<1>6. Mends(result, m, b)  BY <1>1, <1>4, <1>5 DEF Mends
<1>7. QED  BY <1>6 DEF result

\* One payload, however often it is among what has come.
LEMMA OnePayloadMends ==
  ASSUME NEW l, NEW b, NEW p, ValidPayload(p),
         p.kind \in {"transport-event", "transport-log-chain"},
         NEW m, ApplyPayload(l, p) = [ok |-> TRUE, log |-> m],
         ApplyPayload(m, p) = [ok |-> TRUE, log |-> m],
         NEW payloads \in Seq({p}), payloads # <<>>
  PROVE  Mends(RepairEnd(l, b, payloads), m, b)
<1> DEFINE Q == {p}
           start == RepairStart(l, b, payloads)
           Made(s) == Mending!Fold(None, start, s)
           T == {s \in Seq(Q) : IF s = <<>> THEN Mends(Made(s), l, b)
                                ELSE Mends(Made(s), m, b)}
<1>1. Mends(start, l, b)
  <2> DEFINE valid == \A i \in DOMAIN payloads : ValidPayload(payloads[i])
  <2>1. valid  OBVIOUS
  <2>2. valid \in BOOLEAN  OBVIOUS
  <2>3. start = [ok |-> valid, log |-> l, bundle |-> b]  BY DEF RepairStart
  <2> HIDE DEF valid, start
  <2>4. QED  BY <2>1, <2>2, <2>3 DEF Mends
<1> HIDE DEF start
<1>2. <<>> \in T
  <2> DEFINE none == <<>>
  <2>1. Made(none) = start  BY Mending!FoldEmpty
  <2>2. none \in Seq(Q)  OBVIOUS
  <2> HIDE DEF Made, Q
  <2>3. QED  BY <1>1, <2>1, <2>2
<1>3. ASSUME NEW s \in Seq(Q), s \in T, NEW e \in Q  PROVE Append(s, e) \in T
  <2>1. Made(Append(s, e)) = RepairStep(Made(s), p)  BY Mending!FoldAppend
  <2> HIDE DEF Made
  <2>2. Mends(RepairStep(Made(s), p), m, b)  BY <1>3, MendingStep
  <2>3. Append(s, e) \in Seq(Q) /\ Append(s, e) # <<>>  OBVIOUS
  <2>4. QED  BY <2>1, <2>2, <2>3
<1>4. payloads \in T
  <2>1. payloads \in Seq(Q)  OBVIOUS
  <2>2. Seq(Q) \subseteq T
    <3> HIDE DEF T, Q
    <3>1. QED  BY <1>2, <1>3, Mending!SequencesGrow
  <2>3. QED  BY <2>1, <2>2
<1>5. RepairEnd(l, b, payloads) = Made(payloads)  BY DEF RepairEnd, start
<1> HIDE DEF Made
<1>6. QED  BY <1>4, <1>5

\* Evidence that is mended replays as it was recorded.
LEMMA MendedReplays ==
  ASSUME Inv, NoId \notin LogIds, Complete, bundle.intact,
         NEW payloads, Mends(RepairEnd(log, bundle, payloads), made, bundle)
  PROVE  LET o == RepairAndReplay(log, checkpoint, bundle, payloads)
         IN  o.ok /\ o.accepted = Accepted(Processing(made))
<1>1. /\ checkpoint # None /\ bundle # None /\ bundle.logTo = checkpoint.logTo
      /\ checkpoint = CreateCheckpoint(made, checkpoint.boundary)
  BY DEF Complete
<1>2. PICK to \in 0 .. checkpoint.boundary, intact \in BOOLEAN :
        bundle = BundleOf(made, checkpoint, to, intact)
  BY <1>1 DEF Inv, StoreInv, BundleKept
<1>3. checkpoint.boundary \in Nat /\ checkpoint.boundary < Entries
  BY <1>1 DEF Inv, StoreInv, BundleKept, CheckpointKept
<1>4. IsRecorded(made) /\ SoundLog(made, made) /\ ValidLog(made)
      /\ Entries \in Nat /\ Walk(Entries, made.entries)
  BY RecordedMade, MadeIsSound, RecordedIsValid
     DEF Inv, StoreInv, IsRecorded, Entries
<1>5. bundle.checkpoint = checkpoint /\ intact
  <2>1. bundle.checkpoint = checkpoint  BY <1>2, BundleFields
  <2>2. BundleOf(made, checkpoint, to, intact).intact = intact
    BY BundleIntact
  <2>3. bundle.intact = intact  BY <1>2, <2>2, Zenon
  <2>4. QED  BY <2>1, <2>3
<1>6. ValidCompaction(bundle, made)
  <2>1. intact  BY <1>5
  <2>2. to \in Nat /\ to < Len(made.entries)  BY <1>3, <1>4 DEF Entries
  <2>3. ValidCompaction(BundleOf(made, checkpoint, to, intact), made)
    BY <1>4, <2>1, <2>2, BundleValid
  <2>4. QED  BY <1>2, <2>3
<1>7. DetectIssues(made, bundle) = <<>>
  BY <1>4, <1>6, ValidUnbroken, IssuesKnown DEF Entries
<1>8. /\ ValidCheckpoint(checkpoint, made) /\ ResumeReplay(made, checkpoint).ok
      /\ ResumeReplay(made, checkpoint).accepted = Accepted(Processing(made))
  BY <1>1, <1>3, RecordedCheckpointResumes
<1>9. ResumeAfterCompaction(made, bundle, checkpoint)
        = ResumeReplay(made, checkpoint)
  BY <1>1, <1>4, <1>5, <1>6, <1>8 DEF ResumeAfterCompaction
<1> DEFINE end == RepairEnd(log, bundle, payloads)
<1>10. end.ok /\ end.log = made /\ end.bundle = bundle  BY DEF Mends
<1> HIDE DEF end
<1>11. RepairAndReplay(log, checkpoint, bundle, payloads)
         = ResumeAfterCompaction(made, bundle, checkpoint)
  <2>1. /\ end.ok /\ checkpoint # None /\ end.bundle # None
        /\ DetectIssues(end.log, end.bundle) = <<>>
    BY <1>1, <1>7, <1>10
  <2>2. RepairAndReplay(log, checkpoint, bundle, payloads)
          = IF /\ end.ok
               /\ checkpoint # None /\ end.bundle # None
               /\ DetectIssues(end.log, end.bundle) = <<>>
            THEN ResumeAfterCompaction(end.log, end.bundle, checkpoint)
            ELSE [ok |-> FALSE]
    BY RepairAndReplayIs DEF end
  <2>3. RepairAndReplay(log, checkpoint, bundle, payloads)
          = ResumeAfterCompaction(end.log, end.bundle, checkpoint)
    BY <2>1, <2>2, Zenon
  <2>4. QED  BY <1>10, <2>3
<1>12. QED  BY <1>8, <1>9, <1>11

\* The only event that is not as it was recorded is put back by its own copy.
LEMMA PutBack ==
  ASSUME IsRecorded(made), DistinctEvents, NEW l, SoundLog(l, made),
         NEW k \in 1 .. Entries, OnlyAt(l, k),
         l.entries[k].previous = made.entries[k].previous,
         NEW p, p.kind = "transport-event",
         p.target = made.entries[k].eventReceipt,
         p.evidence = made.entries[k].event
  PROVE  ApplyPayload(l, p) = [ok |-> TRUE, log |-> made]
<1> DEFINE i == RepairedEntry(l, p.target)
           e == l.entries[k]
           r == made.entries[k]
           repaired == [l EXCEPT !.entries[i].event = p.evidence]
<1>1. Entries \in Nat /\ Len(l.entries) = Entries
      /\ DOMAIN made.entries = 1 .. Entries /\ ValidLog(made)
  BY SoundFacts, RecordedIsValid DEF Entries
<1>2. \A j \in 1 .. Entries :
        l.entries[j].eventReceipt = made.entries[j].eventReceipt
  BY SoundFacts DEF Entries
<1>3. i = k
  <2>1. i \in 0 .. Entries /\ i # 0 /\ l.entries[i].eventReceipt = p.target
    <3> DEFINE target == p.target
    <3>1. l.entries[k].eventReceipt = target  BY <1>2
    <3> HIDE DEF target
    <3>2. /\ RepairedEntry(l, target) \in 0 .. Entries
          /\ RepairedEntry(l, target) # 0
          /\ l.entries[RepairedEntry(l, target)].eventReceipt = target
      BY <1>1, <3>1, RepairedEntryIs
    <3>3. QED  BY <3>2 DEF target
  <2>2. i \in 1 .. Entries  BY <1>1, <2>1
  <2> HIDE DEF i
  <2>3. Receipts(made)[i] = p.target /\ Receipts(made)[k] = p.target
    BY <1>1, <1>2, <2>1, <2>2 DEF Receipts
  <2>4. QED  BY <1>1, <2>2, <2>3 DEF DistinctEvents
<1>4. [e EXCEPT !.event = p.evidence] = r
  <2> DEFINE old == e.event
             previous == r.previous
             event == r.event
  <2>1. e = [prefix |-> r.prefix, order |-> r.order,
             eventReceipt |-> r.eventReceipt, previous |-> previous,
             event |-> old, receipt |-> r.receipt]
    BY DEF SoundLog, SoundEntry, Entries
  <2>2. r = [prefix |-> r.prefix, order |-> r.order,
             eventReceipt |-> r.eventReceipt, previous |-> previous,
             event |-> event, receipt |-> r.receipt]
    BY RecordedEntry DEF Entries
  <2>3. p.evidence = event  OBVIOUS
  <2> HIDE DEF e, r, old, previous, event
  <2>4. QED  BY <2>1, <2>2, <2>3
<1>5. repaired = Changed(l, k, r)
  <2>1. repaired = Changed(l, k, [e EXCEPT !.event = p.evidence])
    <3>1. repaired = [l EXCEPT !.entries[k].event = p.evidence]
      <4> HIDE DEF i
      <4>1. QED  BY <1>3
    <3>2. QED  BY <3>1 DEF Changed
  <2>2. QED  BY <1>4, <2>1
<1>6. SoundEntry(r, r, PackagesOf(made)) /\ SoundLog(made, made)
  BY MadeIsSound DEF SoundLog, Entries
<1> HIDE DEF i, r, repaired
<1>7. /\ SoundLog(repaired, made) /\ repaired.entries[k] = r
      /\ \A j \in 1 .. Entries : j # k => repaired.entries[j] = l.entries[j]
  BY <1>5, <1>6, SoundChange DEF Entries, r
<1>8. repaired = made
  <2> DEFINE entries == repaired.entries
             own == made.entries
  <2>1. /\ repaired = [name |-> made.name, entries |-> entries,
                       receipt |-> made.receipt]
        /\ made = [name |-> made.name, entries |-> own,
             receipt |-> made.receipt]
        /\ entries = [j \in 1 .. Entries |-> entries[j]]
        /\ own = [j \in 1 .. Entries |-> own[j]]
    BY <1>6, <1>7 DEF SoundLog, Walk, Entries
  <2>2. \A j \in 1 .. Entries : entries[j] = own[j]
    BY <1>7 DEF OnlyAt, r
  <2> HIDE DEF entries, own
  <2>3. entries = own  BY <2>1, <2>2
  <2>4. QED  BY <2>1, <2>3
<1>9. ApplyPayload(l, p)
        = IF i # 0 /\ ValidLog(repaired) THEN [ok |-> TRUE, log |-> repaired]
          ELSE [ok |-> FALSE, log |-> l]
  BY DEF ApplyPayload, i, repaired
<1>10. i # 0 /\ ValidLog(repaired)  BY <1>1, <1>3, <1>8
<1>11. QED  BY <1>8, <1>9, <1>10

\* A payload that holds the recorded event of an entry.
Holds(p, k) ==
  /\ p.kind = "transport-event" /\ p.target = made.entries[k].eventReceipt
  /\ p.evidence = made.entries[k].event
  /\ ValidPayload(p)

\* The recorded event of an entry is a payload that puts it back.
LEMMA HonestHolds ==
  ASSUME IsRecorded(made), NEW k \in 1 .. Entries, NEW target,
         target = made.entries[k].eventReceipt
  PROVE  Holds(RepairPayload(Issue("transport-event", target), "event",
                             RecordedEvent(target)), k)
<1> DEFINE event == made.entries[k].event
           p == RepairPayload(Issue("transport-event", target), "event", event)
<1>1. RecordedEvent(target) = event  BY RecordedEventIs DEF Entries
<1>2. event.receipt = target  BY RecordedEvents DEF Entries
<1> HIDE DEF event
<1>3. /\ p.kind = "transport-event" /\ p.target = target /\ p.evidence = event
      /\ p.receipt = event.receipt /\ p.intact
  BY DEF RepairPayload, Issue, EvidenceReceipt
<1> HIDE DEF p
<1>4. ValidPayload(p)  BY <1>2, <1>3 DEF ValidPayload
<1>5. Holds(p, k)  BY <1>3, <1>4 DEF Holds, event
<1>6. QED  BY <1>1, <1>5 DEF p

\* Where one fault has left one event to be asked for, it is known which.
LEMMA OneBroken ==
  ASSUME Inv, faults = 1, DistinctEvents, OneEventIssue
  PROVE  \E k \in 1 .. Entries :
           /\ Broken(log.entries) = {k}
           /\ EventIssues(log)[1] = EventIssue(log.entries[k])
           /\ log.entries[k].eventReceipt = made.entries[k].eventReceipt
           /\ \A p : Holds(p, k) =>
                \A payloads \in Seq({p}) : payloads # <<>> =>
                  Mends(RepairEnd(log, bundle, payloads), made, bundle)
<1>1. /\ IsRecorded(made) /\ SoundLog(log, made) /\ SoundLog(made, made)
      /\ DOMAIN log.entries = 1 .. Entries /\ Entries \in Nat
      /\ Len(log.entries) = Entries /\ Walk(Entries, log.entries)
  BY RecordedMade, MadeIsSound DEF Inv, StoreInv
<1>2. PICK k \in Broken(log.entries) : Broken(log.entries) = {k}
  BY <1>1, EventIssuesIs DEF OneEventIssue
<1>3. k \in 1 .. Entries  BY <1>1, <1>2 DEF Broken
<1>4. PICK at \in 0 .. Entries : OnlyAt(log, at)
  BY DEF Inv, StoreInv, FaultsKept
<1>5. at = k  BY <1>2, <1>3, <1>4, BrokenChanged DEF OnlyAt, Inv
<1>6. log.entries[k].previous = made.entries[k].previous
  BY <1>1, <1>3 DEF OneEventIssue
<1>7. EventIssues(log)[1] = EventIssue(log.entries[k])
  <2> DEFINE U == BrokenIssues(log.entries)
             issues == EventIssues(log)
  <2>1. issues \in Seq(U) /\ Len(issues) = 1
    BY <1>1, EventIssuesIs DEF OneEventIssue
  <2>2. U = {EventIssue(log.entries[k])}  BY <1>2 DEF BrokenIssues
  <2> HIDE DEF U, issues
  <2>3. issues[1] \in U  BY <2>1, ElementOfSeq
  <2>4. QED  BY <2>2, <2>3 DEF issues
<1>8. ASSUME NEW p, Holds(p, k), NEW payloads \in Seq({p}), payloads # <<>>
      PROVE  Mends(RepairEnd(log, bundle, payloads), made, bundle)
  <2>1. ApplyPayload(log, p) = [ok |-> TRUE, log |-> made]
    BY <1>1, <1>3, <1>4, <1>5, <1>6, <1>8, PutBack DEF Holds
  <2>2. ApplyPayload(made, p) = [ok |-> TRUE, log |-> made]
    BY <1>1, <1>3, <1>8, PutBack DEF Holds, OnlyAt
  <2>3. QED  BY <1>8, <2>1, <2>2, OnePayloadMends DEF Holds
<1>9. log.entries[k].eventReceipt = made.entries[k].eventReceipt
  BY <1>1, <1>3, SoundFacts DEF Entries
<1>10. QED  BY <1>2, <1>3, <1>7, <1>8, <1>9

\* With one fault the right payload leaves the log without an issue, so the
\* replay is the recorded one.
LEMMA RightPayloads ==
  ASSUME Inv, NoId \notin LogIds
  PROVE  RightPayloadsRepair
<1>1. /\ IsRecorded(made) /\ SoundLog(log, made) /\ ValidLog(made)
      /\ log.receipt = made.receipt
  BY RecordedMade, SoundFacts, RecordedIsValid DEF Inv, StoreInv
<1>2. OneEventIsRepaired
  <2>1. SUFFICES ASSUME faults = 1, Complete, DistinctEvents, OneEventIssue,
                        bundle.intact, NEW i \in DOMAIN Issues,
                        Issues[i].kind = "transport-event"
                 PROVE  LET repaired == RepairAndReplay(log, checkpoint, bundle,
                                                        <<Answers[i]>>)
                        IN  /\ repaired.ok
                            /\ repaired.accepted = Accepted(Processing(made))
    BY DEF OneEventIsRepaired
  <2> DEFINE issue == Issues[i]
             p == Answers[i]
             payloads == <<p>>
  <2>2. PICK k \in 1 .. Entries :
          /\ Broken(log.entries) = {k}
          /\ log.entries[k].eventReceipt = made.entries[k].eventReceipt
          /\ \A q : Holds(q, k) =>
               \A list \in Seq({q}) : list # <<>> =>
                 Mends(RepairEnd(log, bundle, list), made, bundle)
    BY <2>1, OneBroken
  <2>3. issue = EventIssue(log.entries[k])
    BY <2>1, <2>2, IssueAt, KnownIs DEF Inv
  <2>4. p = Answer(issue)  BY DEF Answers
  <2> HIDE DEF issue
  <2>5. issue = Issue("transport-event", log.entries[k].eventReceipt)
    BY <2>3 DEF EventIssue
  <2>6. issue.kind = "transport-event"
          /\ issue.target = log.entries[k].eventReceipt
    BY <2>5, IssueFields
  <2>7. Answer(issue)
          = RepairPayload(issue, "event", RecordedEvent(issue.target))
    BY <2>6 DEF Answer
  <2>8. Holds(p, k)
    <3> DEFINE target == log.entries[k].eventReceipt
    <3>1. target = made.entries[k].eventReceipt  BY <2>2
    <3> HIDE DEF target
    <3>2. Holds(RepairPayload(Issue("transport-event", target), "event",
                              RecordedEvent(target)), k)
      BY <1>1, <3>1, HonestHolds
    <3>3. QED  BY <2>4, <2>5, <2>6, <2>7, <3>2 DEF target
  <2> HIDE DEF p
  <2>9. payloads \in Seq({p}) /\ payloads # <<>>  OBVIOUS
  <2> HIDE DEF payloads
  <2>10. Mends(RepairEnd(log, bundle, payloads), made, bundle)
    BY <2>2, <2>8, <2>9
  <2>11. QED  BY <2>1, <2>10, MendedReplays DEF payloads, p
<1>3. LogPayloadRepairs
  <2>1. SUFFICES ASSUME Complete, bundle.intact
                 PROVE  LET whole ==
                              Answer(Issue("transport-log-chain", log.receipt))
                            repaired == RepairAndReplay(log, checkpoint, bundle,
                                                        <<whole>>)
                        IN  /\ repaired.ok
                            /\ repaired.accepted = Accepted(Processing(made))
    BY DEF LogPayloadRepairs
  <2> DEFINE issue == Issue("transport-log-chain", log.receipt)
             p == Answer(issue)
             payloads == <<p>>
  <2>2. issue.kind = "transport-log-chain" /\ issue.target = made.receipt
    BY <1>1, IssueFields
  <2> HIDE DEF issue
  <2>3. p = RepairPayload(issue, "log", made)  BY <2>2 DEF Answer
  <2> HIDE DEF p
  <2>4. /\ p.kind = "transport-log-chain" /\ p.target = made.receipt
        /\ p.evidence = made /\ p.receipt = made.receipt /\ p.intact
    BY <2>2, <2>3 DEF RepairPayload, EvidenceReceipt
  <2>5. ValidPayload(p)  BY <1>1, <2>4 DEF ValidPayload
  <2>6. \A l : ApplyPayload(l, p) = [ok |-> TRUE, log |-> made]
    BY <2>4 DEF ApplyPayload
  <2>7. payloads \in Seq({p}) /\ payloads # <<>>  OBVIOUS
  <2> HIDE DEF payloads
  <2>8. Mends(RepairEnd(log, bundle, payloads), made, bundle)
    BY <2>4, <2>5, <2>6, <2>7, OnePayloadMends
  <2>9. QED  BY <2>1, <2>8, MendedReplays DEF payloads, p, issue
<1>4. QED  BY <1>2, <1>3 DEF RightPayloadsRepair

\* A plan whose requests all find the same payload.
LEMMA OnePayloadPlanned ==
  ASSUME NEW payloads, NEW p, NEW s, NEW U, s.requests \in Seq(U),
         s.requests # <<>>,
         \A r \in U : FirstPayload(r.target, payloads) = <<p>>
  PROVE  /\ ScheduledPayloads(s, payloads) \in Seq({p})
         /\ ScheduledPayloads(s, payloads) # <<>>
<1> DEFINE Found(q) == Scheduling!Fold(payloads, <<>>, q)
           T == {q \in Seq(U) : /\ Found(q) \in Seq({p})
                                /\ q # <<>> => Found(q) # <<>>}
           requests == s.requests
<1>1. <<>> \in T
  <2> DEFINE none == <<>>
  <2>1. Found(none) = none  BY Scheduling!FoldEmpty
  <2>2. none \in Seq(U) /\ none \in Seq({p})  OBVIOUS
  <2> HIDE DEF Found
  <2>3. QED  BY <2>1, <2>2
<1>2. ASSUME NEW q \in Seq(U), q \in T, NEW r \in U  PROVE Append(q, r) \in T
  <2> DEFINE old == Found(q)
             one == <<p>>
             new == old \o one
  <2>1. Found(Append(q, r)) = WithPayload(payloads, old, r)
    BY Scheduling!FoldAppend
  <2>2. WithPayload(payloads, old, r) = new  BY DEF WithPayload
  <2>3. one \in Seq({p}) /\ Len(one) = 1
    <3> DEFINE single == {p}
    <3>1. p \in single  OBVIOUS
    <3> HIDE DEF single
    <3>2. one \in Seq(single) /\ Len(one) = 1  BY <3>1
    <3>3. QED  BY <3>2 DEF single
  <2>8. old \in Seq({p})  BY <1>2
  <2> HIDE DEF Found, old, one
  <2>4. new \in Seq({p}) /\ Len(new) = Len(old) + 1
    <3> DEFINE single == {p}
    <3>1. old \in Seq(single) /\ one \in Seq(single) /\ Len(one) = 1
      BY <2>3, <2>8
    <3> HIDE DEF single
    <3>2. new \in Seq(single) /\ Len(new) = Len(old) + Len(one)
      BY <3>1, ConcatFacts, Zenon
    <3>3. Len(new) = Len(old) + 1  BY <3>1, <3>2
    <3>4. QED  BY <3>2, <3>3 DEF single
  <2> HIDE DEF new
  <2>7. new # <<>>
    <3>1. Len(old) \in Nat  BY <2>8
    <3>2. Len(new) # 0  BY <2>4, <3>1
    <3>3. Len(<<>>) = 0  OBVIOUS
    <3>4. QED  BY <3>2, <3>3
  <2>5. Append(q, r) \in Seq(U)  OBVIOUS
  <2>6. QED  BY <2>1, <2>2, <2>4, <2>5, <2>7 DEF Found
<1>3. requests \in T
  <2>1. Seq(U) \subseteq T
    <3> HIDE DEF T
    <3>1. QED  BY <1>1, <1>2, Scheduling!SequencesGrow
  <2>2. QED  BY <2>1
<1>4. ScheduledPayloads(s, payloads) = Found(requests)  BY ScheduledIs
<1> HIDE DEF Found
<1>5. QED  BY <1>3, <1>4

\* A plan for one lost event holds nothing but its recorded payload.
LEMMA ScheduledRestores ==
  ASSUME Inv, NoId \notin LogIds
  PROVE  ScheduledRepairRestores
<1>1. SUFFICES ASSUME schedule # None, faults = 1, Complete, DistinctEvents,
                      OneEventIssue, bundle.intact,
                      NEW lost, lost = EventIssues(log)[1].target,
                      NEW honest,
                      honest = RepairPayload(Issue("transport-event", lost),
                                             "event", RecordedEvent(lost)),
                      {r.target : r \in Range(schedule.requests)} = {lost},
                      NEW i \in DOMAIN inbox, inbox[i] = honest,
                      \A j \in 1 .. i - 1 : inbox[j].target # lost
               PROVE  LET result == Executed(ScheduledPayloads(schedule, inbox))
                      IN  result.ok
                            /\ result.accepted = Accepted(Processing(made))
  BY DEF ScheduledRepairRestores
<1> DEFINE payloads == ScheduledPayloads(schedule, inbox)
           requests == schedule.requests
           U == {requests[j] : j \in DOMAIN requests}
<1>2. PICK k \in 1 .. Entries :
        /\ EventIssues(log)[1] = EventIssue(log.entries[k])
        /\ log.entries[k].eventReceipt = made.entries[k].eventReceipt
        /\ \A q : Holds(q, k) =>
             \A list \in Seq({q}) : list # <<>> =>
               Mends(RepairEnd(log, bundle, list), made, bundle)
  BY <1>1, OneBroken
<1>3. lost = made.entries[k].eventReceipt
  BY <1>1, <1>2, IssueFields DEF EventIssue
<1>4. Holds(honest, k)  BY <1>1, <1>3, RecordedMade, HonestHolds DEF Inv
<1>5. honest.target = lost  BY <1>3, <1>4 DEF Holds
<1>6. inbox \in Seq(ToSet(inbox)) /\ i \in 1 .. Len(inbox)
  BY DEF Inv, InboxKept
<1>7. FirstPayload(lost, inbox) = <<honest>>
  BY <1>1, <1>5, <1>6, FirstPayloadIs
<1>8. requests \in Seq(U)
  <2>1. requests \in Seq(schedule.needs)  BY <1>1 DEF Inv, ScheduleKept
  <2> HIDE DEF requests
  <2>2. QED  BY <2>1, OwnElements
<1>9. \A r \in U : r.target = lost  BY <1>1 DEF Range
<1>10. requests # <<>>
  <2>1. PICK r \in Range(requests) : r.target = lost  BY <1>1
  <2>2. DOMAIN requests # {}  BY <2>1 DEF Range
  <2>3. DOMAIN <<>> = {}  OBVIOUS
  <2> HIDE DEF requests
  <2>4. QED  BY <2>2, <2>3
<1>11. payloads \in Seq({honest}) /\ payloads # <<>>
  <2> HIDE DEF U
  <2>1. \A r \in U : FirstPayload(r.target, inbox) = <<honest>>  BY <1>7, <1>9
  <2>2. QED  BY <1>8, <1>10, <2>1, OnePayloadPlanned
<1> HIDE DEF payloads
<1>12. Mends(RepairEnd(log, bundle, payloads), made, bundle)
  BY <1>2, <1>4, <1>11
<1>13. QED  BY <1>1, <1>12, MendedReplays DEF Executed, payloads
-----------------------------------------------------------------------------
(* The theorems. *)

\* The state keeps its types: the recorded log is valid, the stored one names
\* the same events in the same order, a bundle ends where its checkpoint does
\* or before, and no more faults happen than are counted
\* (createTransportReplayLog, createTransportReplayCheckpoint,
\* createTransportCompactionBundle).
THEOREM EvidenceTypes == RequestSpec => []TypeOK
<1>1. RequestSpec => []Inv  BY Invariance
<1>2. Inv => TypeOK  BY TypesHold
<1>3. QED  BY <1>1, <1>2, PTL

\* Whatever was lost, rewritten or repaired since a checkpoint was taken, a
\* replay resumed from it accepts and rejects what the whole log replayed does,
\* or throws (resumeTransportReplay).
THEOREM ResumeMatches == RequestSpec => []ResumeMatchesReplay
<1>1. RequestSpec => []Inv  BY Invariance
<1>2. Inv => ResumeMatchesReplay  BY ResumedMatches
<1>3. QED  BY <1>1, <1>2, PTL

\* Evidence nothing has happened to resumes from its checkpoint, where every log
\* was given a name and at least one event. Made again under its name, a log that
\* was given none has other entries, and an empty log has no entry for the
\* checkpoint to be at (resumeTransportReplay, verifyTransportReplayCheckpoint).
THEOREM Undamaged ==
  ASSUME NoId \notin LogIds, <<>> \notin Recordings
  PROVE  RequestSpec => []UndamagedResumes
<1>1. RequestSpec => []Inv  BY Invariance
<1>2. Inv => UndamagedResumes  BY UndamagedResumed
<1>3. QED  BY <1>1, <1>2, PTL

\* Whatever payloads are applied, in whatever order, asked for or not, a replay
\* of repaired evidence admits no more than the recorded events and packages do,
\* and no more than the recorded log where its packages are those that were
\* offered (applyRepairPayload, repairAndReplay).
THEOREM NothingNew == RequestSpec => []RepairAdmitsNothingNew
<1>1. RequestSpec => []Inv  BY Invariance
<1>2. Inv => RepairAdmitsNothingNew
  BY DEF Inv, StoreInv, RepairAdmitsNothingNew
<1>3. QED  BY <1>1, <1>2, PTL

\* A log in which no issue is found, or nothing of which has to be requested, is
\* the recorded one, but for the packages of its events: those are in no receipt
\* (validateTransportReplayLog, classifyEvidence).
THEOREM Whole == RequestSpec => []WholeIsRecorded
<1>1. RequestSpec => []Inv  BY Invariance
<1>2. Inv => WholeIsRecorded  BY WholeRecorded
<1>3. QED  BY <1>1, <1>2, PTL

\* The recorded event put back for the one that was damaged, or the recorded log
\* for one whose chain is broken, replays to what was recorded, where every log
\* was given a name (applyRepairPayload, repairAndReplay).
THEOREM Repairs ==
  ASSUME NoId \notin LogIds
  PROVE  RequestSpec => []RightPayloadsRepair
<1>1. RequestSpec => []Inv  BY Invariance
<1>2. Inv => RightPayloadsRepair  BY RightPayloads
<1>3. QED  BY <1>1, <1>2, PTL

\* One damaged event, scheduled alone, is back once the plan is executed, if its
\* recorded payload is the first that came for it, whatever else came, where
\* every log was given a name
\* (buildScheduledRepairPlan, executeScheduledRepair).
THEOREM Restores ==
  ASSUME NoId \notin LogIds
  PROVE  RequestSpec => []ScheduledRepairRestores
<1>1. RequestSpec => []Inv  BY Invariance
<1>2. Inv => ScheduledRepairRestores  BY ScheduledRestores
<1>3. QED  BY <1>1, <1>2, PTL

\* Whatever was damaged, however receipts sort and whatever was claimed of the
\* evidence: under a policy that ranks what is repairable first, or cuts
\* nothing, a schedule asks for something that can be answered if anything can
\* be (createRequestSchedule, priorityFor).
THEOREM Answerable == RequestSpec => []AnswerableIsRequested
<1>1. RequestSpec => []Inv  BY Invariance
<1>2. Inv => AnswerableIsRequested  BY DEF Inv
<1>3. QED  BY <1>1, <1>2, PTL
=============================================================================
