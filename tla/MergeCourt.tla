----------------------------- MODULE MergeCourt -----------------------------
(***************************************************************************)
(* Two people edit their own logs, the logs are merged, and commits of the *)
(* merged log are undone and redone.  mergeLogs copies what it takes and   *)
(* the input logs play no part afterwards, so editing stops at the merge.  *)
(***************************************************************************)
EXTENDS EditMerge

CONSTANTS Left, Right,  \* the names the two logs are merged under
          Bounds        \* bound: what the logs may hold, one record or another:
                        \* events of each input log, undos and redos of each
                        \* log, the keys and the texts

Sides == {"left", "right"}
Logs == Sides \cup {"merged"}

ASSUME SidesAssumption == Left \in Peers /\ Right \in Peers /\ Left # Right
ASSUME OrderAssumption == /\ Peers \cup Texts \subseteq Nat
                          /\ Keys \subseteq [action : Nat, path : Nat]
ASSUME MergeBounds == \A b \in Bounds : /\ b.events \in [Sides -> Nat]
                                       /\ b.masks \in [Logs -> Nat]
                                       /\ b.keys \subseteq Keys
                                       /\ b.texts \subseteq Texts

VARIABLES log,    \* the three edit logs
          done    \* whether the logs have been merged

vars == <<log, done>>

Init == log = [l \in Logs |-> <<>>] /\ done = FALSE

Writable(l) == done <=> l = "merged"

Masks(events) == SelectSeq(events, LAMBDA e : e.type \in {"undo", "redo"})

Fits(logs, b) ==
  /\ \A s \in Sides :
       /\ Len(logs[s]) <= b.events[s]
       /\ \A i \in DOMAIN logs[s] : /\ logs[s][i].key \in b.keys \cup {NoKey}
                                   /\ logs[s][i].text \in b.texts \cup {NoText}
  /\ \A l \in Logs : Len(Masks(logs[l])) <= b.masks[l]

EditTo(l, events) ==
  /\ Writable(l)
  /\ log' = [log EXCEPT ![l] = events]
  /\ \E b \in Bounds : Fits(log', b)
  /\ UNCHANGED done

Propose(l) == /\ l \in Sides
              /\ \E key \in Keys, text \in Texts :
                   EditTo(l, AppendProposal(log[l], key, text))

Commit(l) == /\ l \in Sides
             /\ \E i \in DOMAIN log[l] :
                  HasProposal(log[l], i) /\ EditTo(l, CommitProposal(log[l], i))

\* Any number may be named: a commit, another event, or one yet to come.
Undo(l) == \E i \in 1 .. Len(log[l]) + 1 : EditTo(l, AppendUndo(log[l], i))
Redo(l) == \E i \in 1 .. Len(log[l]) + 1 : EditTo(l, AppendRedo(log[l], i))

Merge ==
  /\ ~done
  /\ done' = TRUE
  /\ log' = [log EXCEPT !["merged"] =
               MergeLogs(log["left"], log["right"], Left, Right)]

Next == \/ \E l \in Logs : Propose(l) \/ Commit(l) \/ Undo(l) \/ Redo(l)
        \/ Merge

Spec == Init /\ [][Next]_vars

----------------------------------------------------------------------------
(* Properties *)

\* Types of the state.
TypeOK == log \in [Logs -> Seq(Event)] /\ done \in BOOLEAN

\* Whatever was undone and redone, and however often, the walk over a log
\* (activeCommitEvents) keeps a commit exactly when the last undo or redo of
\* it is a redo, or there is none; masks of anything else are void.
LastMaskWins ==
  \A l \in Logs : \A c \in DOMAIN log[l] :
     c \in ActiveSeqs(log[l]) <=> LastMaskDecides(log[l], c)

Active(l) == ToSet(ActiveCommitEvents(log[l]))
Contenders == Active("left") \cup Active("right")
IdOf(side) == IF side = "left" THEN Left ELSE Right
Outcome == MergeLogs(log["left"], log["right"], Left, Right)
Conflicts == {e \in ToSet(Outcome) : e.type = "conflict"}
Commits == {e \in ToSet(Outcome) : e.type = "commit"}

\* Which log is called left does not matter, as long as the names stay with
\* their logs: "same base source + same logs = same merged source"
\* (docs/PHASE-49, Root Law).
MergeSymmetric ==
  MergeLogs(log["right"], log["left"], Right, Left) = Outcome

\* The conflict law of docs/PHASE-49: a key two active commits disagree on is
\* in conflict and gets no commit; every other edited key gets exactly one.
ConflictLaw ==
  \A key \in Keys :
    LET texts == {e.text : e \in {c \in Contenders : c.key = key}}
    IN  /\ Cardinality(texts) > 1 <=> \E e \in Conflicts : e.key = key
        /\ Cardinality({e \in Commits : e.key = key})
             = IF Cardinality(texts) = 1 THEN 1 ELSE 0

\* No active edit is lost in a merge: a commit carries its text, or a
\* conflict names it with the log it came from.
NothingLost ==
  \A side \in Sides : \A e \in Active(side) :
    \/ \E c \in Commits : c.key = e.key /\ c.text = e.text
    \/ \E c \in Conflicts : /\ c.key = e.key
                            /\ [from |-> IdOf(side), text |-> e.text]
                                 \in {c.left, c.right}

\* Merging the result of a merge without conflicts with one of its inputs
\* again changes nothing in the source it replays to.
RemergeAbsorbs ==
  Conflicts = {} =>
    ReplayEdits(MergeLogs(Outcome, log["right"], Left, Right))
      = ReplayEdits(Outcome)
=============================================================================
