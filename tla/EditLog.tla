------------------------------ MODULE EditLog ------------------------------
(***************************************************************************)
(* The append-only edit log of the workbench (edit_log.js) and its replay  *)
(* (edit_replay.js), as operators on sequences.  A log is the sequence of  *)
(* its events; nextSeq starts at 1 and grows by one with every append, so  *)
(* an event's seq is its position.  All events have the fields that        *)
(* normalizeEvent gives them on the wire, with its defaults.  The action   *)
(* and path of an edit are one "key" (they are only ever compared          *)
(* together); receipts hash the whole event and are left out, since two    *)
(* logs have equal receipts when they are equal.                           *)
(***************************************************************************)
EXTENDS Integers, Sequences, FiniteSets, SequencesExt

CONSTANTS Keys,    \* what an edit targets: action and path
          Texts,   \* proposal texts
          Peers,   \* names that importedFrom may hold
          NoKey, NoText, NoPeer   \* the defaults of absent fields

EventTypes == {"proposal", "commit", "undo", "redo", "conflict"}
Side == [from : Peers \cup {NoPeer}, text : Texts \cup {NoText}]
NoSide == [from |-> NoPeer, text |-> NoText]

Event == [type : EventTypes, seq : Nat,
          key : Keys \cup {NoKey}, text : Texts \cup {NoText},
          proposalSeq : Nat, commitSeq : Nat,
          from : Peers \cup {NoPeer}, originalSeq : Nat,
          left : Side, right : Side]

\* An event none of whose optional fields is set.
Blank(type) ==
  [type |-> type, seq |-> 0, key |-> NoKey, text |-> NoText,
   proposalSeq |-> 0, commitSeq |-> 0, from |-> NoPeer, originalSeq |-> 0,
   left |-> NoSide, right |-> NoSide]

----------------------------------------------------------------------------
(* Appending *)

AppendEvent(log, e) == Append(log, [e EXCEPT !.seq = Len(log) + 1])

AppendProposal(log, key, text) ==
  AppendEvent(log, [Blank("proposal") EXCEPT !.key = key, !.text = text])

HasProposal(log, s) == s \in DOMAIN log /\ log[s].type = "proposal"

\* A commit copies its proposal; with no such proposal nothing is appended.
\* Nothing stops a proposal from being committed twice.
CommitProposal(log, s) ==
  IF HasProposal(log, s)
  THEN AppendEvent(log, [Blank("commit") EXCEPT !.key = log[s].key,
                                                !.text = log[s].text,
                                                !.proposalSeq = s])
  ELSE log

\* Undo and redo name any sequence number, committed or not.
AppendUndo(log, c) == AppendEvent(log, [Blank("undo") EXCEPT !.commitSeq = c])
AppendRedo(log, c) == AppendEvent(log, [Blank("redo") EXCEPT !.commitSeq = c])

AppendImportedCommit(log, commit) ==
  AppendEvent(log,
    [Blank("commit") EXCEPT
       !.key = commit.key, !.text = commit.text,
       !.proposalSeq = commit.proposalSeq, !.from = commit.from,
       !.originalSeq = IF commit.originalSeq # 0 THEN commit.originalSeq
                                                 ELSE commit.seq])

AppendConflict(log, key, left, right) ==
  AppendEvent(log, [Blank("conflict") EXCEPT !.key = key, !.left = left,
                                             !.right = right])

----------------------------------------------------------------------------
(* Replay *)

\* Fault: an undo or redo counts although its commit has not been met yet.
MaskStepAhead(acc, e) ==
  CASE e.type = "commit" ->
         [commits |-> acc.commits \cup {e.seq}, active |-> acc.active \cup {e.seq}]
    [] e.type = "undo" -> [acc EXCEPT !.active = @ \ {e.commitSeq}]
    [] e.type = "redo" -> [acc EXCEPT !.active = @ \cup {e.commitSeq}]
    [] OTHER -> acc

\* One step of the walk over the log: commits are the commits met so far,
\* active those no undo masks.  An undo or a redo of anything else is void.
MaskStep(acc, e) ==
  CASE e.type = "commit" ->
         [commits |-> acc.commits \cup {e.seq}, active |-> acc.active \cup {e.seq}]
    [] e.type = "undo" /\ e.commitSeq \in acc.commits ->
         [acc EXCEPT !.active = @ \ {e.commitSeq}]
    [] e.type = "redo" /\ e.commitSeq \in acc.commits ->
         [acc EXCEPT !.active = @ \cup {e.commitSeq}]
    [] OTHER -> acc

ActiveSeqs(log) ==
  FoldLeft(MaskStep, [commits |-> {}, active |-> {}], log).active

\* The elements of s at the places I, in the order they have in s.
Subsequence(s, I) ==
  LET sub[n \in 0 .. Len(s)] ==
        IF n = 0 THEN <<>>
        ELSE IF n \in I THEN Append(sub[n - 1], s[n]) ELSE sub[n - 1]
  IN  sub[Len(s)]

ActiveCommitEvents(log) ==
  LET active == ActiveSeqs(log)
  IN  Subsequence(log, {i \in DOMAIN log : log[i].seq \in active})

\* What replay adds to the base source: the texts of the active commits, in
\* log order, the empty ones left out.
ReplayEdits(log) ==
  LET active == ActiveCommitEvents(log)
      edits  == Subsequence(active, {i \in DOMAIN active : active[i].text # NoText})
  IN  [i \in DOMAIN edits |-> edits[i].text]

----------------------------------------------------------------------------
(* What the documentation promises of the walk (docs/PHASE-48, Replay      *)
(* Model): undo masks a prior commit, redo reactivates it.                 *)

\* The events of the log after position c that mask or unmask commit c.
MasksOf(log, c) ==
  {i \in (c + 1) .. Len(log) :
      log[i].type \in {"undo", "redo"} /\ log[i].commitSeq = c}

\* Commit c counts unless the last event that concerns it is an undo.
LastMaskDecides(log, c) ==
  /\ log[c].type = "commit"
  /\ \A i \in MasksOf(log, c) :
        (\A j \in MasksOf(log, c) : j <= i) => log[i].type = "redo"
=============================================================================
