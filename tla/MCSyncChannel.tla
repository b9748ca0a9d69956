---------------------------- MODULE MCSyncChannel ----------------------------
(* Instances of SyncChannel for TLC. *)
EXTENDS SyncChannel

CONSTANTS alice, bob, me, k1, t1, t2

\* What mergeLogs leaves of two logs that agree on nothing but one edit.
MergedLog ==
  AppendConflict(
    AppendImportedCommit(<<>>, [Blank("commit") EXCEPT !.key = k1, !.text = t1,
                                                       !.from = alice, !.seq = 2]),
    k1, [from |-> alice, text |-> t1], [from |-> me, text |-> t2])

EmptyLogs == {<<>>}
EmptyOrMerged == {<<>>, MergedLog}
SameBase == [s \in Senders |-> 1]
TwoEvents == [s \in Senders |-> 2]
ThreeEvents == [s \in Senders |-> 3]
FourEvents == [s \in Senders |-> 4]
BobNone == [s \in Senders |-> IF s = bob THEN 0 ELSE 1]
BobElsewhere == [s \in Senders |-> IF s = bob THEN 2 ELSE 1]
=============================================================================
