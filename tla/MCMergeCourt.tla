---------------------------- MODULE MCMergeCourt ----------------------------
(* Instances of MergeCourt for TLC. *)
EXTENDS MergeCourt

Key(a, p) == [action |-> a, path |-> p]
TwoKeys == {Key(1, 2), Key(2, 1)}

\* Two logs that disagree in every way, each with one undo or redo at most;
\* and a single edit undone and redone at length, before and after a merge.
Disagreeing == [events |-> [s \in Sides |-> IF s = "left" THEN 4 ELSE 2],
                masks  |-> [l \in Logs |-> IF l = "left" THEN 1 ELSE 0],
                keys |-> TwoKeys, texts |-> {1, 2}]
LongMasked  == [events |-> [s \in Sides |-> IF s = "left" THEN 5 ELSE 0],
                masks  |-> [l \in Logs |-> CASE l = "left" -> 3
                                              [] l = "merged" -> 2 [] OTHER -> 0],
                keys |-> {Key(1, 2)}, texts |-> {1}]
TwoBounds == {Disagreeing, LongMasked}
=============================================================================
