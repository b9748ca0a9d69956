----------------------------- MODULE EditMerge -----------------------------
(***************************************************************************)
(* The merge court (edit_merge.js): two edit logs over one base source are *)
(* merged into a third.  Names are compared as strings in the code, so     *)
(* actions, paths, texts and peers are numbers here, in the order          *)
(* localeCompare puts the names; 0 is the empty string.                    *)
(***************************************************************************)
EXTENDS EditLog, Sorting

----------------------------------------------------------------------------
(* mergeLogs *)

CloneCommit(commit, id) ==
  [Blank("commit") EXCEPT !.key = commit.key, !.text = commit.text,
                          !.proposalSeq = commit.proposalSeq, !.from = id,
                          !.originalSeq = commit.seq]

ActiveClones(log, id) ==
  {CloneCommit(e, id) : e \in ToSet(ActiveCommitEvents(log))}

\* mergeKey is action, then path.
KeyBefore(k, l) == \/ k.action < l.action
                   \/ k.action = l.action /\ k.path < l.path

\* sortKey within a group, where all commits have the same path and action.
CommitBefore(c, d) ==
  \/ c.text < d.text
  \/ c.text = d.text /\ c.from < d.from
  \/ c.text = d.text /\ c.from = d.from /\ c.originalSeq < d.originalSeq

SideOf(commit) == [from |-> commit.from, text |-> commit.text]

\* Faults: a conflicting group keeps its first commit too, only its first two
\* commits are compared, or a group that agrees keeps every commit.
MergeGroupKeepsFirst(log, group) ==
  LET commits == Sorted(group, CommitBefore)
      Chain(merged, i) == AppendConflict(merged, commits[1].key,
        SideOf(commits[i]),
                                         SideOf(commits[i + 1]))
  IN  FoldLeft(Chain, AppendImportedCommit(log, commits[1]),
               SelectSeq([i \in 1 .. Len(commits) - 1 |-> i],
                         LAMBDA i : commits[i].text # commits[i + 1].text))
MergeGroupFirstPair(log, group) ==
  LET commits == Sorted(group, CommitBefore)
  IN  IF \A commit \in group : commit.text = commits[1].text
      THEN AppendImportedCommit(log, commits[1])
      ELSE AppendConflict(log, commits[1].key, SideOf(commits[1]),
        SideOf(commits[2]))
MergeGroupKeepsAll(log, group) ==
  FoldLeft(AppendImportedCommit, log, Sorted(group, CommitBefore))

\* One commit for a group that agrees, else a conflict for every two
\* neighbours of the sorted group and no commit at all.
MergeGroup(log, group) ==
  LET commits == Sorted(group, CommitBefore)
      first   == commits[1]
      Chain(merged, i) == AppendConflict(merged, first.key, SideOf(commits[i]),
                                         SideOf(commits[i + 1]))
  IN  IF \A commit \in group : commit.text = first.text
      THEN AppendImportedCommit(log, first)
      ELSE FoldLeft(Chain, log, [i \in 1 .. Len(commits) - 1 |-> i])

\* Fault: the keys are not sorted, those of the left log come first.
MergeLogsLeftFirst(left, right, leftId, rightId) ==
  LET active == ActiveClones(left, leftId) \cup ActiveClones(right, rightId)
      leftKeys == {commit.key : commit \in ActiveClones(left, leftId)}
      rest     == {commit.key : commit \in active} \ leftKeys
      Group(key) == {commit \in active : commit.key = key}
  IN  FoldLeft(LAMBDA log, key : MergeGroup(log, Group(key)), <<>>,
               Sorted(leftKeys, KeyBefore) \o Sorted(rest, KeyBefore))

MergeLogs(left, right, leftId, rightId) ==
  LET active == ActiveClones(left, leftId) \cup ActiveClones(right, rightId)
      keys   == Sorted({commit.key : commit \in active}, KeyBefore)
      Group(key) == {commit \in active : commit.key = key}
  IN  FoldLeft(LAMBDA log, key : MergeGroup(log, Group(key)), <<>>, keys)
=============================================================================
