-------------------------- MODULE MergeCourtProofs --------------------------
(***************************************************************************)
(* Proofs about the merge court, for any keys, texts and bounds: what a    *)
(* merge makes of the active commits of two logs, and that merging its     *)
(* result again changes nothing.                                           *)
(***************************************************************************)
EXTENDS MergeCourt, EditLogProofs, FiniteSetTheorems

\* What is proposed or committed has a key and a text.
Edited(events) ==
  \A i \in DOMAIN events : events[i].type \in {"proposal", "commit"} =>
                            events[i].key \in Keys /\ events[i].text \in Texts

WellFormed == {events \in Seq(Event) : Numbered(events) /\ Edited(events)}

LogsInv == log \in [Logs -> WellFormed] /\ done \in BOOLEAN

-----------------------------------------------------------------------------
(* Sorting *)

\* The two comparisons the court sorts by.
ByCommit == INSTANCE FoldTheorems
  WITH Step <- LAMBDA context, x, y : CommitBefore(x, y)
ByKey == INSTANCE FoldTheorems
  WITH Step <- LAMBDA context, x, y : KeyBefore(x, y)

\* list has every element of S once.
Enumerates(list, S) ==
  /\ list \in Seq(S) /\ Len(list) = Cardinality(S) /\ ToSet(list) = S
  /\ \A i, j \in DOMAIN list : list[i] = list[j] => i = j

-----------------------------------------------------------------------------
(* The commits that are merged *)

\* The active commits of a log are in it, at the places they are numbered by.
LEMMA ActiveFacts ==
  ASSUME NEW events \in WellFormed
  PROVE  /\ ActiveCommitEvents(events) \in Seq(Event)
         /\ ToSet(ActiveCommitEvents(events))
              = {events[i] : i \in Unmasked(events)}
         /\ \A e \in ToSet(ActiveCommitEvents(events)) :
              /\ e \in Event /\ e.type = "commit" /\ e.key \in Keys
                   /\ e.text \in Texts
              /\ e.seq \in DOMAIN events /\ events[e.seq] = e
<1>1. events \in Seq(Event) /\ Numbered(events) /\ Edited(events)
  BY DEF WellFormed
<1>2. ActiveSeqs(events) = Unmasked(events)
        /\ Unmasked(events) \subseteq DOMAIN events
  BY <1>1, WalkKeeps DEF Unmasked
<1>3. {i \in DOMAIN events : events[i].seq \in ActiveSeqs(events)}
        = Unmasked(events)
  BY <1>1, <1>2 DEF Numbered
<1>4. ActiveCommitEvents(events) = Subsequence(events, Unmasked(events))
  BY <1>3 DEF ActiveCommitEvents
<1>5. /\ ActiveCommitEvents(events) \in Seq(Event)
      /\ ToSet(ActiveCommitEvents(events))
           = {events[i] : i \in Unmasked(events) \cap DOMAIN events}
  BY <1>1, <1>4, SubsequenceHolds
<1>6. ToSet(ActiveCommitEvents(events)) = {events[i] : i \in Unmasked(events)}
  <2>1. Unmasked(events) \cap DOMAIN events = Unmasked(events)  BY <1>2
  <2> QED BY <1>5, <2>1
<1>7. ASSUME NEW e \in ToSet(ActiveCommitEvents(events))
      PROVE  /\ e \in Event /\ e.type = "commit" /\ e.key \in Keys
                  /\ e.text \in Texts
             /\ e.seq \in DOMAIN events /\ events[e.seq] = e
  <2>1. PICK i \in Unmasked(events) : e = events[i]  BY <1>6
  <2>2. i \in DOMAIN events /\ e.type = "commit"
    BY <2>1 DEF Unmasked, LastMaskDecides
  <2>3. e \in Event  BY <1>1, <2>1, <2>2
  <2>4. e.seq = i  BY <1>1, <2>1, <2>2 DEF Numbered
  <2>5. e.key \in Keys /\ e.text \in Texts  BY <1>1, <2>1, <2>2 DEF Edited
  <2> QED BY <2>1, <2>2, <2>3, <2>4, <2>5
<1> QED BY <1>5, <1>6, <1>7

\* A sequence holds finitely much.
LEMMA ToSetFinite ==
  ASSUME NEW S, NEW s \in Seq(S)  PROVE IsFiniteSet(ToSet(s))
<1>1. s \in [1 .. Len(s) -> ToSet(s)] /\ Len(s) \in Nat
        /\ DOMAIN s = 1 .. Len(s)
  BY DEF ToSet
<1>2. \A x \in ToSet(s) : \E i \in 1 .. Len(s) : s[i] = x
  BY <1>1 DEF ToSet
<1>3. s \in Surjection(1 .. Len(s), ToSet(s))  BY <1>1, <1>2 DEF Surjection
<1>4. IsFiniteSet(1 .. Len(s))  BY <1>1, FS_Interval
<1> QED BY <1>3, <1>4, FS_Surjection

\* What a function makes of a finite set is finite.
LEMMA ImageFinite ==
  ASSUME NEW S, IsFiniteSet(S), NEW f, DOMAIN f = S
  PROVE  IsFiniteSet({f[x] : x \in S})
<1> DEFINE T == {f[x] : x \in S}
           g == [x \in S |-> f[x]]
<1>1. g \in [S -> T] /\ \A t \in T : \E x \in S : g[x] = t  OBVIOUS
<1> HIDE DEF T, g
<1>2. g \in Surjection(S, T)  BY <1>1 DEF Surjection
<1> QED BY <1>2, FS_Surjection DEF T

\* The clone of a commit tells whose it is, and its place in the log it is
\* from (cloneCommit).
LEMMA CloneFacts ==
  ASSUME NEW e \in Event, NEW id \in Peers
  PROVE  /\ CloneCommit(e, id) \in Event
         /\ CloneCommit(e, id).type = "commit" /\ CloneCommit(e, id).from = id
         /\ CloneCommit(e, id).key = e.key /\ CloneCommit(e, id).text = e.text
         /\ CloneCommit(e, id).originalSeq = e.seq
  BY BlankTyped DEF CloneCommit, Blank, Event, EventTypes

\* The clones of the active commits of a log tell the log they are from, and
\* their place in it.
LEMMA ActiveClonesFacts ==
  ASSUME NEW events \in WellFormed, NEW id \in Peers
  PROVE  /\ IsFiniteSet(ActiveClones(events, id))
         /\ \A c \in ActiveClones(events, id) :
              /\ c \in Event /\ c.type = "commit" /\ c.from = id
              /\ c.key \in Keys /\ c.text \in Texts /\ c.originalSeq \in Nat
              /\ \E e \in ToSet(ActiveCommitEvents(events)) :
                   c.key = e.key /\ c.text = e.text
         /\ \A e \in ToSet(ActiveCommitEvents(events)) :
              \E c \in ActiveClones(events, id) :
                c.key = e.key /\ c.text = e.text
         /\ \A c, d \in ActiveClones(events, id) :
              c.originalSeq = d.originalSeq => c = d
<1> DEFINE active == ToSet(ActiveCommitEvents(events))
           clone == [e \in active |-> CloneCommit(e, id)]
<1>1. \A e \in active : /\ e \in Event /\ e.key \in Keys /\ e.text \in Texts
                        /\ events[e.seq] = e
  BY ActiveFacts
<1>2. IsFiniteSet(active)  BY ActiveFacts, ToSetFinite
<1>3. ActiveClones(events, id) = {clone[e] : e \in active}
  BY DEF ActiveClones
<1>4. \A e \in active : clone[e] = CloneCommit(e, id)  OBVIOUS
<1>5. IsFiniteSet(ActiveClones(events, id))
  <2>1. DOMAIN clone = active  OBVIOUS
  <2> HIDE DEF clone, active
  <2> QED BY <1>2, <1>3, <2>1, ImageFinite
<1> HIDE DEF clone, active
<1>6. ASSUME NEW e \in active
      PROVE  /\ clone[e] \in Event /\ clone[e].type = "commit"
                  /\ clone[e].from = id
             /\ clone[e].key = e.key /\ clone[e].text = e.text
             /\ clone[e].originalSeq = e.seq /\ e.seq \in Nat
  BY <1>1, <1>4, CloneFacts DEF Event
<1>7. \A c, d \in ActiveClones(events, id) :
        c.originalSeq = d.originalSeq => c = d
  <2> SUFFICES ASSUME NEW e \in active, NEW f \in active,
                      clone[e].originalSeq = clone[f].originalSeq
               PROVE  e = f
    BY <1>3
  <2> QED BY <1>1, <1>6
<1>8. ASSUME NEW c \in ActiveClones(events, id)
      PROVE  /\ c \in Event /\ c.type = "commit" /\ c.from = id
             /\ c.key \in Keys /\ c.text \in Texts /\ c.originalSeq \in Nat
             /\ \E e \in active : c.key = e.key /\ c.text = e.text
  <2>1. PICK e \in active : c = clone[e]  BY <1>3
  <2> QED BY <1>1, <1>6, <2>1
<1>9. ASSUME NEW e \in active
      PROVE  \E c \in ActiveClones(events, id) :
               c.key = e.key /\ c.text = e.text
  <2>1. clone[e] \in ActiveClones(events, id)  BY <1>3
  <2> QED BY <1>6, <2>1
<1> QED BY <1>5, <1>7, <1>8, <1>9 DEF active

\* What a merge is made from: finitely many commits, told apart by the log
\* they are from and their place in it.
Contending(commits) ==
  /\ IsFiniteSet(commits)
  /\ \A c \in commits :
       /\ c \in Event /\ c.type = "commit" /\ c.from \in Peers
       /\ c.key \in Keys /\ c.text \in Texts /\ c.originalSeq \in Nat
  /\ \A c, d \in commits :
       c.from = d.from /\ c.originalSeq = d.originalSeq => c = d

\* The clones of two logs, of two peers, contend: no two of them come from the
\* same place of the same log.
LEMMA BothContend ==
  ASSUME NEW left \in WellFormed, NEW right \in WellFormed,
         NEW a \in Peers, NEW b \in Peers, a # b
  PROVE  Contending(ActiveClones(left, a) \cup ActiveClones(right, b))
<1> DEFINE A == ActiveClones(left, a)
           B == ActiveClones(right, b)
<1>1. /\ IsFiniteSet(A)
      /\ \A c \in A : /\ c \in Event /\ c.type = "commit" /\ c.from = a
                      /\ c.key \in Keys /\ c.text \in Texts
                           /\ c.originalSeq \in Nat
      /\ \A c, d \in A : c.originalSeq = d.originalSeq => c = d
  BY ActiveClonesFacts
<1>2. /\ IsFiniteSet(B)
      /\ \A c \in B : /\ c \in Event /\ c.type = "commit" /\ c.from = b
                      /\ c.key \in Keys /\ c.text \in Texts
                           /\ c.originalSeq \in Nat
      /\ \A c, d \in B : c.originalSeq = d.originalSeq => c = d
  BY ActiveClonesFacts
<1> HIDE DEF A, B
<1>3. IsFiniteSet(A \cup B)  BY <1>1, <1>2, FS_Union
<1>4. \A c, d \in A \cup B :
        c.from = d.from /\ c.originalSeq = d.originalSeq => c = d
  BY <1>1, <1>2
<1>5. \A c \in A \cup B :
        /\ c \in Event /\ c.type = "commit" /\ c.from \in Peers
        /\ c.key \in Keys /\ c.text \in Texts /\ c.originalSeq \in Nat
  BY <1>1, <1>2
<1> QED BY <1>3, <1>4, <1>5 DEF Contending, A, B

\* Commits are sorted by text, then by the log they are from, then by place.
LEMMA CommitsSorted ==
  ASSUME NEW group, Contending(group)
  PROVE  Enumerates(Sorted(group, CommitBefore), group)
<1> DEFINE R == {p \in group \X group : CommitBefore(p[1], p[2])}
           list == Sorted(group, CommitBefore)
<1>1. /\ IsFiniteSet(group)
      /\ \A c \in group :
           c.text \in Nat /\ c.from \in Nat /\ c.originalSeq \in Nat
      /\ \A c, d \in group :
           c.from = d.from /\ c.originalSeq = d.originalSeq => c = d
  BY OrderAssumption DEF Contending
<1>2. \A c, d \in group : <<c, d>> \in R <=> CommitBefore(c, d)  OBVIOUS
<1> HIDE DEF R
<1>3. ByCommit!Orders(R, group)
  <2>1. \A c \in group : <<c, c>> \notin R  BY <1>1, <1>2 DEF CommitBefore
  <2>2. \A c, d, e \in group :
          <<c, d>> \in R /\ <<d, e>> \in R => <<c, e>> \in R
    <3> SUFFICES ASSUME NEW c \in group, NEW d \in group, NEW e \in group,
                        CommitBefore(c, d), CommitBefore(d, e)
                 PROVE  CommitBefore(c, e)
      BY <1>2
    <3> QED BY <1>1 DEF CommitBefore
  <2>3. \A c, d \in group : c # d => <<c, d>> \in R \/ <<d, c>> \in R
    <3> SUFFICES ASSUME NEW c \in group, NEW d \in group, c # d
                 PROVE  CommitBefore(c, d) \/ CommitBefore(d, c)
      BY <1>2
    <3> QED BY <1>1 DEF CommitBefore
  <2> QED BY <2>1, <2>2, <2>3 DEF ByCommit!Orders
<1>4. ByCommit!Lists(ByCommit!Sorted(group, LAMBDA x, y : CommitBefore(x, y)), R, group)
  BY <1>1, <1>3, ByCommit!SortLists
     DEF R, ByCommit!Pairs, ByCommit!IsFiniteSet, IsFiniteSet
<1>5. ByCommit!Sorted(group, LAMBDA x, y : CommitBefore(x, y)) = list
  BY DEF ByCommit!Sorted, Sorted, ByCommit!Cardinality, Cardinality
<1> HIDE DEF list
<1>6. /\ list \in Seq(group) /\ Len(list) = Cardinality(group)
      /\ \A x \in group : \E i \in DOMAIN list : list[i] = x
      /\ \A i, j \in DOMAIN list : list[i] = list[j] => i = j
  BY <1>4, <1>5 DEF ByCommit!Lists, ByCommit!Cardinality, Cardinality
<1>7. ToSet(list) = group  BY <1>6 DEF ToSet
<1> QED BY <1>6, <1>7 DEF Enumerates, list

\* Keys are sorted by action, then by path.
LEMMA KeysSorted ==
  ASSUME NEW keys \in SUBSET Keys, IsFiniteSet(keys)
  PROVE  Enumerates(Sorted(keys, KeyBefore), keys)
<1> DEFINE R == {p \in keys \X keys : KeyBefore(p[1], p[2])}
           list == Sorted(keys, KeyBefore)
<1>1. /\ IsFiniteSet(keys)
      /\ \A k \in keys : k.action \in Nat /\ k.path \in Nat
      /\ \A k, l \in keys : k.action = l.action /\ k.path = l.path => k = l
  BY OrderAssumption
<1>2. \A k, l \in keys : <<k, l>> \in R <=> KeyBefore(k, l)  OBVIOUS
<1> HIDE DEF R
<1>3. ByKey!Orders(R, keys)
  <2>1. \A k \in keys : <<k, k>> \notin R  BY <1>1, <1>2 DEF KeyBefore
  <2>2. \A k, l, m \in keys : <<k, l>> \in R /\ <<l, m>> \in R => <<k, m>> \in R
    BY <1>1, <1>2 DEF KeyBefore
  <2>3. \A k, l \in keys : k # l => <<k, l>> \in R \/ <<l, k>> \in R
    BY <1>1, <1>2 DEF KeyBefore
  <2> QED BY <2>1, <2>2, <2>3 DEF ByKey!Orders
<1>4. ByKey!Lists(ByKey!Sorted(keys, LAMBDA x, y : KeyBefore(x, y)), R, keys)
  BY <1>1, <1>3, ByKey!SortLists
     DEF R, ByKey!Pairs, ByKey!IsFiniteSet, IsFiniteSet
<1>5. ByKey!Sorted(keys, LAMBDA x, y : KeyBefore(x, y)) = list
  BY DEF ByKey!Sorted, Sorted, ByKey!Cardinality, Cardinality
<1> HIDE DEF list
<1>6. /\ list \in Seq(keys) /\ Len(list) = Cardinality(keys)
      /\ \A x \in keys : \E i \in DOMAIN list : list[i] = x
      /\ \A i, j \in DOMAIN list : list[i] = list[j] => i = j
  BY <1>4, <1>5 DEF ByKey!Lists, ByKey!Cardinality, Cardinality
<1>7. ToSet(list) = keys  BY <1>6 DEF ToSet
<1> QED BY <1>6, <1>7 DEF Enumerates, list

----------------------------------------------------------------------------
(* Appending to a well-formed log *)

\* An event appended to a log gets the next number, and the log stays as it
\* was before it.
LEMMA AppendWellFormed ==
  ASSUME NEW events \in WellFormed, NEW e \in Event,
         e.type \in {"proposal", "commit"} => e.key \in Keys /\ e.text \in Texts
  PROVE  /\ AppendEvent(events, e) \in WellFormed
         /\ Len(AppendEvent(events, e)) = Len(events) + 1
         /\ AppendEvent(events, e)[Len(events) + 1]
              = [e EXCEPT !.seq = Len(events) + 1]
         /\ \A i \in DOMAIN events : AppendEvent(events, e)[i] = events[i]
<1> DEFINE n == Len(events) + 1
           x == [e EXCEPT !.seq = n]
           longer == Append(events, x)
<1>1. events \in Seq(Event) /\ Numbered(events) /\ Edited(events) /\ n \in Nat
  BY DEF WellFormed
<1>2. /\ x \in Event /\ x.seq = n /\ x.type = e.type
      /\ x.key = e.key /\ x.text = e.text
  BY <1>1 DEF Event
<1> HIDE DEF x
<1>3. /\ longer \in Seq(Event) /\ Len(longer) = n /\ longer[n] = x
      /\ DOMAIN longer = DOMAIN events \cup {n}
      /\ \A i \in DOMAIN events : longer[i] = events[i]
  BY <1>1, <1>2
<1> HIDE DEF n, longer
<1>4. Numbered(longer)  BY <1>1, <1>2, <1>3 DEF Numbered
<1>5. Edited(longer)  BY <1>1, <1>2, <1>3 DEF Edited
<1>6. AppendEvent(events, e) = longer  BY DEF AppendEvent, longer, x, n
<1> QED BY <1>3, <1>4, <1>5, <1>6 DEF WellFormed, x, n
-----------------------------------------------------------------------------
(* What becomes of a group *)

Chains == INSTANCE FoldTheorems WITH
  Step <- LAMBDA c, acc, e :
    AppendConflict(acc, c[1].key, SideOf(c[e]), SideOf(c[e + 1]))

\* chained continues events by a conflict for every place in steps, between
\* the commit at that place and the next.
Chained(chained, events, commits, steps) ==
  /\ chained \in WellFormed
  /\ Len(chained) = Len(events) + Len(steps)
  /\ \A i \in DOMAIN events : chained[i] = events[i]
  /\ \A j \in DOMAIN steps :
       /\ chained[Len(events) + j].type = "conflict"
       /\ chained[Len(events) + j].key = commits[1].key
       /\ chained[Len(events) + j].left = SideOf(commits[steps[j]])
       /\ chained[Len(events) + j].right = SideOf(commits[steps[j] + 1])

\* The conflicts of a group are one between each commit and the next, appended
\* to the log in that order.
LEMMA ConflictsChain ==
  ASSUME NEW events \in WellFormed, NEW n \in Nat,
         NEW commits \in Seq(Event), Len(commits) = n + 1,
         NEW steps \in Seq(1 .. n)
  PROVE  Chained(Chains!Fold(commits, events, steps), events, commits, steps)
<1> DEFINE Walked(s) == Chains!Fold(commits, events, s)
           T == {s \in Seq(1 .. n) : Chained(Walked(s), events, commits, s)}
<1>1. <<>> \in T
  <2> DEFINE none == <<>>
  <2>1. none \in Seq(1 .. n) /\ DOMAIN none = {} /\ Len(none) = 0  OBVIOUS
  <2>2. Walked(none) = events  BY Chains!FoldEmpty
  <2>3. Len(events) \in Nat  BY DEF WellFormed
  <2> HIDE DEF none, Walked
  <2>4. Chained(Walked(none), events, commits, none)
    BY <2>1, <2>2, <2>3 DEF Chained
  <2>5. none \in T  BY <2>1, <2>4
  <2> QED BY <2>5 DEF none
<1>2. ASSUME NEW s \in Seq(1 .. n), s \in T, NEW k \in 1 .. n
      PROVE Append(s, k) \in T
  <2> DEFINE t == Append(s, k)
             old == Walked(s)
             new == Walked(t)
             e == [Blank("conflict") EXCEPT !.key = commits[1].key,
                     !.left = SideOf(commits[k]),
                       !.right = SideOf(commits[k + 1])]
             last == [e EXCEPT !.seq = Len(old) + 1]
  <2>1. /\ t \in Seq(1 .. n) /\ Len(t) = Len(s) + 1 /\ t[Len(s) + 1] = k
        /\ DOMAIN t = DOMAIN s \cup {Len(s) + 1} /\ \A i \in DOMAIN s :
             t[i] = s[i]
        /\ DOMAIN s = 1 .. Len(s) /\ Len(s) \in Nat
    OBVIOUS
  <2>2. Chained(old, events, commits, s)  BY <1>2
  <2>3. new = AppendEvent(old, e)
    <3>1. new = AppendConflict(old, commits[1].key, SideOf(commits[k]),
            SideOf(commits[k + 1]))
      BY Chains!FoldAppend
    <3> QED BY <3>1 DEF AppendConflict
  <2>4. commits[1] \in Event /\ commits[k] \in Event /\ commits[k + 1] \in Event
    OBVIOUS
  <2>5. /\ SideOf(commits[k]) \in Side /\ SideOf(commits[k + 1]) \in Side
        /\ commits[1].key \in Keys \cup {NoKey}
    BY <2>4 DEF SideOf, Side, Event
  <2>6. Blank("conflict") \in Event /\ Blank("conflict").type = "conflict"
    BY BlankTyped DEF EventTypes, Blank
  <2>7. /\ e \in Event /\ e.type = "conflict" /\ e.key = commits[1].key
        /\ e.left = SideOf(commits[k]) /\ e.right = SideOf(commits[k + 1])
    BY <2>5, <2>6 DEF Event
  <2> HIDE DEF e, t, old, new, Walked
  <2>8. /\ new \in WellFormed /\ Len(new) = Len(old) + 1
        /\ new[Len(old) + 1] = last /\ \A i \in DOMAIN old : new[i] = old[i]
    BY <2>2, <2>3, <2>7, AppendWellFormed DEF Chained
  <2>9. /\ last.type = "conflict" /\ last.key = commits[1].key
        /\ last.left = SideOf(commits[k]) /\ last.right = SideOf(commits[k + 1])
    BY <2>7 DEF Event
  <2> HIDE DEF last
  <2>10. /\ Len(events) \in Nat /\ DOMAIN events = 1 .. Len(events)
         /\ DOMAIN old = 1 .. Len(old) /\ Len(old) = Len(events) + Len(s)
    BY <2>2 DEF Chained, WellFormed
  <2>11. Len(new) = Len(events) + Len(t)  BY <2>1, <2>8, <2>10
  <2>12. \A i \in DOMAIN events : new[i] = events[i]
    <3>1. \A i \in DOMAIN events : i \in DOMAIN old  BY <2>1, <2>10
    <3> QED BY <2>2, <2>8, <3>1 DEF Chained
  <2>13. ASSUME NEW j \in DOMAIN t
         PROVE  /\ new[Len(events) + j].type = "conflict"
                /\ new[Len(events) + j].key = commits[1].key
                /\ new[Len(events) + j].left = SideOf(commits[t[j]])
                /\ new[Len(events) + j].right = SideOf(commits[t[j] + 1])
    <3>1. CASE j \in DOMAIN s
      <4>1. Len(events) + j \in DOMAIN old
        <5>1. j \in 1 .. Len(s) /\ Len(s) \in Nat  BY <2>1, <3>1
        <5> QED BY <2>10, <5>1
      <4>2. new[Len(events) + j] = old[Len(events) + j] /\ t[j] = s[j]
        BY <2>1, <2>8, <3>1, <4>1
      <4>3. /\ old[Len(events) + j].type = "conflict"
            /\ old[Len(events) + j].key = commits[1].key
            /\ old[Len(events) + j].left = SideOf(commits[s[j]])
            /\ old[Len(events) + j].right = SideOf(commits[s[j] + 1])
        BY <2>2, <3>1, Zenon DEF Chained
      <4> QED BY <4>2, <4>3
    <3>2. CASE j = Len(s) + 1
      <4>1. Len(events) + j = Len(old) + 1 /\ t[j] = k  BY <2>1, <2>10, <3>2
      <4> QED BY <2>8, <2>9, <4>1
    <3> QED BY <2>1, <3>1, <3>2
  <2>14. Chained(new, events, commits, t)
    BY <2>8, <2>11, <2>12, <2>13 DEF Chained
  <2> QED BY <2>1, <2>14 DEF t, new
<1>3. Seq(1 .. n) \subseteq T
  <2> HIDE DEF T
  <2> QED BY <1>1, <1>2, Chains!SequencesGrow
<1> QED BY <1>3
New(longer, events) == Len(events) + 1 .. Len(longer)

\* The group of a key agrees on one text.
Agrees(group) == \A c, d \in group : c.text = d.text

\* settled continues events by what the commits of a key come to: one commit
\* of the text they agree on, or conflicts that name them all.
Settled(settled, events, group, key) ==
  /\ settled \in WellFormed
  /\ Len(events) < Len(settled)
  /\ \A i \in DOMAIN events : settled[i] = events[i]
  /\ \A i \in New(settled, events) : settled[i].key = key
  /\ Agrees(group) => /\ Len(settled) = Len(events) + 1
                      /\ settled[Len(settled)].type = "commit"
                      /\ \A c \in group : c.text = settled[Len(settled)].text
  /\ ~Agrees(group) =>
       /\ \A i \in New(settled, events) : settled[i].type = "conflict"
       /\ \A c \in group : \E i \in New(settled, events) :
            SideOf(c) \in {settled[i].left, settled[i].right}

\* What merging the commits of one key appends (mergeGroup).
LEMMA GroupSettles ==
  ASSUME NEW events \in WellFormed, NEW group, Contending(group), group # {},
         NEW key, \A c \in group : c.key = key
  PROVE  Settled(MergeGroup(events, group), events, group, key)
<1> DEFINE commits == Sorted(group, CommitBefore)
           merged == MergeGroup(events, group)
           n == Len(commits) - 1
           steps == [i \in 1 .. n |-> i]
<1>1. Enumerates(commits, group)  BY CommitsSorted
<1>2. MergeGroup(events, group)
        = IF \A c \in group : c.text = commits[1].text
          THEN AppendImportedCommit(events, commits[1])
          ELSE Chains!Fold(commits, events, steps)
  BY DEF MergeGroup, Chains!Fold, FoldLeft, MapThenFoldSet, Chains!FoldLeft,
         Chains!MapThenFoldSet, Max, Chains!Max
<1> HIDE DEF commits, merged
<1>3. /\ group \subseteq Event /\ \A c \in group :
           c.key \in Keys /\ c.text \in Texts
  BY DEF Contending
<1>4. /\ commits \in Seq(group) /\ commits \in Seq(Event)
           /\ Len(commits) \in Nat
      /\ DOMAIN commits = 1 .. Len(commits) /\ ToSet(commits) = group
  BY <1>1, <1>3 DEF Enumerates
<1>5. Len(commits) # 0
  <2> SUFFICES ASSUME Len(commits) = 0  PROVE FALSE  OBVIOUS
  <2>1. DOMAIN commits = {}  BY <1>4
  <2> QED BY <1>4, <2>1 DEF ToSet
<1>6. /\ n \in Nat /\ Len(commits) = n + 1 /\ commits[1] \in group
      /\ \A i \in 1 .. n + 1 : commits[i] \in group
  BY <1>4, <1>5
<1>7. \A c \in group : \E i \in 1 .. n + 1 : c = commits[i]
  BY <1>4, <1>6 DEF ToSet
<1> HIDE DEF n
<1>8. steps \in Seq(1 .. n) /\ Len(steps) = n /\ DOMAIN steps = 1 .. n
      /\ \A i \in 1 .. n : steps[i] = i
  BY <1>6
<1> HIDE DEF steps
<1>9. Agrees(group) <=> \A c \in group : c.text = commits[1].text
  BY <1>6 DEF Agrees
<1>10. Len(events) \in Nat /\ DOMAIN events = 1 .. Len(events)
  BY DEF WellFormed
<1>11. CASE Agrees(group)
  <2> DEFINE c == commits[1]
             original == IF c.originalSeq # 0 THEN c.originalSeq ELSE c.seq
             e == [Blank("commit") EXCEPT
                     !.key = c.key, !.text = c.text,
                       !.proposalSeq = c.proposalSeq,
                     !.from = c.from, !.originalSeq = original]
             last == [e EXCEPT !.seq = Len(events) + 1]
  <2>1. c \in Event /\ c.key = key /\ c.key \in Keys /\ c.text \in Texts
    BY <1>3, <1>6
  <2>2. original \in Nat  BY <2>1 DEF Event
  <2>3. merged = AppendEvent(events, e)
    BY <1>2, <1>9, <1>11 DEF merged, AppendImportedCommit
  <2> HIDE DEF original, c
  <2>4. Blank("commit") \in Event /\ Blank("commit").type = "commit"
    BY BlankTyped DEF EventTypes, Blank
  <2>5. /\ e \in Event /\ e.type = "commit" /\ e.key = key /\ e.text = c.text
        /\ e.key \in Keys /\ e.text \in Texts
    BY <2>1, <2>2, <2>4 DEF Event
  <2> HIDE DEF e
  <2>6. /\ merged \in WellFormed /\ Len(merged) = Len(events) + 1
        /\ merged[Len(events) + 1] = last
        /\ \A i \in DOMAIN events : merged[i] = events[i]
    BY <2>3, <2>5, AppendWellFormed
  <2>7. last.type = "commit" /\ last.key = key /\ last.text = c.text
    BY <2>5 DEF Event
  <2> HIDE DEF last
  <2>8. \A d \in group : d.text = c.text  BY <1>9, <1>11 DEF c
  <2>9. New(merged, events) = {Len(events) + 1}  BY <1>10, <2>6 DEF New
  <2>10. \A i \in New(merged, events) : merged[i].key = key  BY <2>6, <2>7, <2>9
  <2>11. Len(events) < Len(merged)  BY <1>10, <2>6
  <2>12. /\ merged[Len(merged)].type = "commit"
         /\ \A d \in group : d.text = merged[Len(merged)].text
    BY <2>6, <2>7, <2>8
  <2> QED BY <1>11, <2>6, <2>10, <2>11, <2>12 DEF Settled, merged
<1>12. CASE ~Agrees(group)
  <2>1. merged = Chains!Fold(commits, events, steps)
    BY <1>2, <1>9, <1>12 DEF merged
  <2>2. Chained(merged, events, commits, steps)
    BY <1>4, <1>6, <1>8, <2>1, ConflictsChain
  <2>3. /\ merged \in WellFormed /\ Len(merged) = Len(events) + n
        /\ \A i \in DOMAIN events : merged[i] = events[i]
        /\ \A j \in 1 .. n : /\ merged[Len(events) + j].type = "conflict"
                             /\ merged[Len(events) + j].key = key
                             /\ merged[Len(events) + j].left
                                  = SideOf(commits[j])
                             /\ merged[Len(events) + j].right
                                  = SideOf(commits[j + 1])
    <3>1. commits[1].key = key  BY <1>6
    <3>2. /\ merged \in WellFormed /\ Len(merged) = Len(events) + Len(steps)
          /\ \A i \in DOMAIN events : merged[i] = events[i]
      BY <2>2, Zenon DEF Chained
    <3>3. ASSUME NEW j \in 1 .. n
          PROVE  /\ merged[Len(events) + j].type = "conflict"
                 /\ merged[Len(events) + j].key = commits[1].key
                 /\ merged[Len(events) + j].left = SideOf(commits[steps[j]])
                 /\ merged[Len(events) + j].right
                      = SideOf(commits[steps[j] + 1])
      <4>1. j \in DOMAIN steps  BY <1>8
      <4> QED BY <2>2, <4>1, Zenon DEF Chained
    <3>4. ASSUME NEW j \in 1 .. n
          PROVE  /\ merged[Len(events) + j].left = SideOf(commits[j])
                 /\ merged[Len(events) + j].right = SideOf(commits[j + 1])
      <4>1. steps[j] = j  BY <1>8
      <4> QED BY <3>3, <4>1
    <3>5. Len(merged) = Len(events) + n  BY <1>8, <3>2
    <3> QED BY <3>1, <3>2, <3>3, <3>4, <3>5, Zenon
  <2>4. n # 0
    <3> SUFFICES ASSUME n = 0  PROVE Agrees(group)  BY <1>12
    <3>1. \A i \in 1 .. n + 1 : i = 1  OBVIOUS
    <3>2. \A c \in group : c = commits[1]  BY <1>7, <3>1
    <3> QED BY <3>2 DEF Agrees
  <2>5. Len(events) < Len(merged)  BY <1>6, <1>10, <2>3, <2>4
  <2>6. /\ \A i \in New(merged, events) : \E j \in 1 .. n : i = Len(events) + j
        /\ \A j \in 1 .. n : Len(events) + j \in New(merged, events)
    <3>1. ASSUME NEW i \in New(merged, events)
          PROVE  \E j \in 1 .. n : i = Len(events) + j
      <4>1. i - Len(events) \in 1 .. n /\ i = Len(events) + (i - Len(events))
        BY <1>6, <1>10, <2>3 DEF New
      <4> QED BY <4>1
    <3>2. \A j \in 1 .. n : Len(events) + j \in New(merged, events)
      BY <1>6, <1>10, <2>3 DEF New
    <3> QED BY <3>1, <3>2
  <2>7. \A i \in New(merged, events) :
          merged[i].key = key /\ merged[i].type = "conflict"
    BY <2>3, <2>6
  <2>8. ASSUME NEW c \in group
        PROVE  \E i \in New(merged, events) :
                 SideOf(c) \in {merged[i].left, merged[i].right}
    <3>1. PICK k \in 1 .. n + 1 : c = commits[k]  BY <1>7
    <3>2. CASE k \in 1 .. n
      <4>1. merged[Len(events) + k].left = SideOf(c)  BY <2>3, <3>1, <3>2
      <4> QED BY <2>6, <3>2, <4>1
    <3>3. CASE k = n + 1
      <4>1. n \in 1 .. n  BY <1>6, <2>4
      <4>2. merged[Len(events) + n].right = SideOf(c)  BY <2>3, <3>1, <3>3, <4>1
      <4> QED BY <2>6, <4>1, <4>2
    <3> QED BY <1>6, <3>1, <3>2, <3>3
  <2> QED BY <1>12, <2>3, <2>5, <2>7, <2>8 DEF Settled, merged
<1> QED BY <1>11, <1>12
-----------------------------------------------------------------------------
(* What a merge gives *)

Group(commits, key) == {commit \in commits : commit.key = key}

Courts == INSTANCE FoldTheorems WITH
  Step <- LAMBDA c, acc, e : MergeGroup(acc, {commit \in c : commit.key = e})

\* What out holds of the commits with a key.
Ruled(out, commits, key) ==
  /\ Agrees(Group(commits, key)) =>
       \E i \in DOMAIN out :
         /\ out[i].type = "commit" /\ out[i].key = key
         /\ \A c \in Group(commits, key) : c.text = out[i].text
         /\ \A j \in DOMAIN out : out[j].key = key => j = i
  /\ ~Agrees(Group(commits, key)) =>
       /\ \A i \in DOMAIN out : out[i].key = key => out[i].type = "conflict"
       /\ \A c \in Group(commits, key) :
            \E i \in DOMAIN out : /\ out[i].key = key
                                  /\ SideOf(c) \in {out[i].left, out[i].right}

\* out is what a merge makes of commits as far as the keys listed.
Judged(out, commits, keys) ==
  /\ out \in WellFormed
  /\ \A i \in DOMAIN out : /\ out[i].key \in ToSet(keys)
                           /\ out[i].type \in {"commit", "conflict"}
  /\ \A key \in ToSet(keys) : Ruled(out, commits, key)
  /\ (\A key \in ToSet(keys) : Agrees(Group(commits, key))) =>
       Len(out) = Len(keys) /\ \A i \in DOMAIN out : out[i].key = keys[i]

\* The court takes the next key.
LEMMA OneMoreKey ==
  ASSUME NEW commits, Contending(commits),
         NEW keys \in Seq({c.key : c \in commits}),
             NEW key \in {c.key : c \in commits},
         key \notin ToSet(keys), NEW out, Judged(out, commits, keys)
  PROVE  Judged(MergeGroup(out, Group(commits, key)), commits,
           Append(keys, key))
<1> DEFINE G == Group(commits, key)
           new == MergeGroup(out, G)
           more == Append(keys, key)
<1>1. Contending(G) /\ G # {} /\ \A c \in G : c.key = key
  <2>1. G \in SUBSET commits /\ IsFiniteSet(commits)  BY DEF Group, Contending
  <2>2. IsFiniteSet(G)  BY <2>1, FS_Subset
  <2> QED BY <2>1, <2>2 DEF Contending, Group
<1>2. out \in WellFormed  BY DEF Judged
<1>3. Settled(new, out, G, key)
  <2> HIDE DEF G
  <2> QED BY <1>1, <1>2, GroupSettles
<1>4. /\ Len(out) \in Nat /\ DOMAIN out = 1 .. Len(out)
      /\ Len(new) \in Nat /\ DOMAIN new = 1 .. Len(new)
      /\ Len(out) < Len(new)
  BY <1>2, <1>3 DEF Settled, WellFormed
<1>5. /\ DOMAIN new = DOMAIN out \cup New(new, out)
      /\ DOMAIN out \cap New(new, out) = {} /\ Len(new) \in New(new, out)
  BY <1>4 DEF New
<1>6. /\ ToSet(more) = ToSet(keys) \cup {key} /\ Len(more) = Len(keys) + 1
      /\ Len(keys) \in Nat /\ DOMAIN keys = 1 .. Len(keys)
           /\ more[Len(keys) + 1] = key
      /\ \A i \in DOMAIN keys : more[i] = keys[i]
  <2> DEFINE K == {c.key : c \in commits}
  <2>1. keys \in Seq(K) /\ key \in K  OBVIOUS
  <2> HIDE DEF K
  <2>2. /\ DOMAIN more = DOMAIN keys \cup {Len(keys) + 1}
             /\ more[Len(keys) + 1] = key
        /\ \A i \in DOMAIN keys : more[i] = keys[i]
        /\ Len(more) = Len(keys) + 1 /\ Len(keys) \in Nat
             /\ DOMAIN keys = 1 .. Len(keys)
    BY <2>1
  <2> HIDE DEF more
  <2>3. ToSet(more) = ToSet(keys) \cup {key}  BY <2>2 DEF ToSet
  <2> QED BY <2>2, <2>3
<1> HIDE DEF G, new, more
<1>7. /\ \A i \in DOMAIN out : new[i] = out[i] /\ new[i].key # key
      /\ \A i \in New(new, out) : new[i].key = key
  BY <1>3 DEF Settled, Judged
<1>8. new \in WellFormed  BY <1>3 DEF Settled
<1>9. \A i \in DOMAIN new :
        new[i].key \in ToSet(more) /\ new[i].type \in {"commit", "conflict"}
  <2>1. \A i \in DOMAIN out :
          new[i].key \in ToSet(more) /\ new[i].type \in {"commit", "conflict"}
    BY <1>6, <1>7 DEF Judged
  <2>2. \A i \in New(new, out) : new[i].type \in {"commit", "conflict"}
    <3>1. CASE Agrees(G)
      <4>1. Len(new) = Len(out) + 1 /\ new[Len(new)].type = "commit"
        BY <1>3, <3>1 DEF Settled
      <4>2. \A i \in New(new, out) : i = Len(new)  BY <1>4, <4>1 DEF New
      <4> QED BY <4>1, <4>2
    <3>2. CASE ~Agrees(G)  BY <1>3, <3>2 DEF Settled
    <3> QED BY <3>1, <3>2
  <2> QED BY <1>5, <1>6, <1>7, <2>1, <2>2
<1>10. ASSUME NEW k \in ToSet(keys)  PROVE Ruled(new, commits, k)
  <2>1. Ruled(out, commits, k)  BY <1>10 DEF Judged
  <2>2. k # key  BY <1>10
  <2>3. \A i \in DOMAIN new :
          new[i].key = k => i \in DOMAIN out /\ out[i] = new[i]
    BY <1>5, <1>7, <2>2
  <2>4. \A i \in DOMAIN out : i \in DOMAIN new /\ new[i] = out[i]
    BY <1>5, <1>7
  <2>5. CASE Agrees(Group(commits, k))
    <3>1. PICK i \in DOMAIN out :
            /\ out[i].type = "commit" /\ out[i].key = k
            /\ \A c \in Group(commits, k) : c.text = out[i].text
            /\ \A j \in DOMAIN out : out[j].key = k => j = i
      BY <2>1, <2>5 DEF Ruled
    <3>2. /\ i \in DOMAIN new /\ new[i].type = "commit" /\ new[i].key = k
          /\ \A c \in Group(commits, k) : c.text = new[i].text
          /\ \A j \in DOMAIN new : new[j].key = k => j = i
      BY <2>3, <2>4, <3>1
    <3> QED BY <2>5, <3>2 DEF Ruled
  <2>6. CASE ~Agrees(Group(commits, k))
    <3>1. \A i \in DOMAIN new : new[i].key = k => new[i].type = "conflict"
      BY <2>1, <2>3, <2>6 DEF Ruled
    <3>2. ASSUME NEW c \in Group(commits, k)
          PROVE  \E i \in DOMAIN new : /\ new[i].key = k
                                       /\ SideOf(c) \in {new[i].left,
                                             new[i].right}
      BY <2>1, <2>4, <2>6 DEF Ruled
    <3> QED BY <2>6, <3>1, <3>2 DEF Ruled
  <2> QED BY <2>5, <2>6
<1>11. Ruled(new, commits, key)
  <2>1. \A i \in DOMAIN new : new[i].key = key => i \in New(new, out)
    BY <1>5, <1>7
  <2>2. CASE Agrees(G)
    <3>1. /\ Len(new) = Len(out) + 1 /\ new[Len(new)].type = "commit"
          /\ \A c \in G : c.text = new[Len(new)].text
      BY <1>3, <2>2 DEF Settled
    <3>2. \A i \in New(new, out) : i = Len(new)  BY <1>4, <3>1 DEF New
    <3>3. Len(new) \in DOMAIN new /\ new[Len(new)].key = key  BY <1>5, <1>7
    <3> QED BY <2>1, <2>2, <3>1, <3>2, <3>3 DEF Ruled, G
  <2>3. CASE ~Agrees(G)
    <3>1. /\ \A i \in New(new, out) : new[i].type = "conflict"
          /\ \A c \in G : \E i \in New(new, out) :
               SideOf(c) \in {new[i].left, new[i].right}
      BY <1>3, <2>3 DEF Settled
    <3>2. \A i \in DOMAIN new : new[i].key = key => new[i].type = "conflict"
      BY <2>1, <3>1
    <3>3. \A c \in G : \E i \in DOMAIN new :
            /\ new[i].key = key
            /\ SideOf(c) \in {new[i].left, new[i].right}
      BY <1>5, <1>7, <3>1
    <3> QED BY <2>3, <3>2, <3>3 DEF Ruled, G
  <2> QED BY <2>2, <2>3
<1>12. ASSUME \A k \in ToSet(more) : Agrees(Group(commits, k))
       PROVE  Len(new) = Len(more) /\ \A i \in DOMAIN new : new[i].key = more[i]
  <2>1. Len(out) = Len(keys) /\ \A i \in DOMAIN out : out[i].key = keys[i]
    BY <1>6, <1>12 DEF Judged
  <2>2. Len(new) = Len(out) + 1  BY <1>3, <1>6, <1>12 DEF Settled, G
  <2>3. \A i \in DOMAIN out : new[i].key = more[i]
    BY <1>4, <1>6, <1>7, <2>1
  <2>4. new[Len(out) + 1].key = more[Len(out) + 1]
    BY <1>5, <1>6, <1>7, <2>1, <2>2
  <2>5. DOMAIN new = DOMAIN out \cup {Len(out) + 1}  BY <1>4, <2>2
  <2> QED BY <1>6, <2>1, <2>2, <2>3, <2>4, <2>5
<1>13. \A k \in ToSet(more) : Ruled(new, commits, k)  BY <1>6, <1>10, <1>11
<1>14. Judged(new, commits, more)
  BY <1>8, <1>9, <1>12, <1>13 DEF Judged
<1> QED BY <1>14 DEF new, more, G

Distinct(s) == \A i, j \in DOMAIN s : s[i] = s[j] => i = j

\* The active commits of both logs, under the names of the logs, and the keys
\* they have.
Pool(left, right, a, b) == ActiveClones(left, a) \cup ActiveClones(right, b)
KeysOf(commits) == {c.key : c \in commits}

\* A merge depends on nothing but the active commits and their names.
LEMMA MergeFolds ==
  ASSUME NEW left, NEW right, NEW a, NEW b
  PROVE  MergeLogs(left, right, a, b)
           = Courts!Fold(Pool(left, right, a, b), <<>>,
                         Sorted(KeysOf(Pool(left, right, a, b)), KeyBefore))
  BY DEF MergeLogs, Pool, KeysOf, Courts!Fold, FoldLeft, MapThenFoldSet,
         Courts!FoldLeft, Courts!MapThenFoldSet, Max, Courts!Max

\* A merge rules on every key of the active commits, in the order of the keys.
LEMMA MergeJudges ==
  ASSUME NEW left \in WellFormed, NEW right \in WellFormed,
         NEW a \in Peers, NEW b \in Peers, a # b
  PROVE  /\ Contending(Pool(left, right, a, b))
         /\ Enumerates(Sorted(KeysOf(Pool(left, right, a, b)), KeyBefore),
                       KeysOf(Pool(left, right, a, b)))
         /\ Judged(MergeLogs(left, right, a, b), Pool(left, right, a, b),
                   Sorted(KeysOf(Pool(left, right, a, b)), KeyBefore))
<1> DEFINE commits == Pool(left, right, a, b)
           K == KeysOf(commits)
           keys == Sorted(K, KeyBefore)
           Walked(s) == Courts!Fold(commits, <<>>, s)
           T == {s \in Seq(K) : Distinct(s) => Judged(Walked(s), commits, s)}
<1>1. Contending(commits)  BY BothContend DEF Pool
<1>2. MergeLogs(left, right, a, b) = Walked(keys)  BY MergeFolds
<1> HIDE DEF commits
<1>3. K \in SUBSET Keys /\ IsFiniteSet(K)
  <2> DEFINE f == [c \in commits |-> c.key]
  <2>1. K = {f[c] : c \in commits} /\ DOMAIN f = commits  BY DEF KeysOf
  <2>2. IsFiniteSet(commits)  BY <1>1 DEF Contending
  <2>3. IsFiniteSet({f[c] : c \in commits})
    <3> HIDE DEF f
    <3> QED BY <2>1, <2>2, ImageFinite
  <2>4. K \in SUBSET Keys  BY <1>1 DEF KeysOf, Contending
  <2> QED BY <2>1, <2>3, <2>4
<1>4. Enumerates(keys, K)
  <2> HIDE DEF K
  <2> QED BY <1>3, KeysSorted
<1> HIDE DEF keys
<1>5. <<>> \in T
  <2> DEFINE none == <<>>
  <2>1. /\ none \in Seq(K) /\ DOMAIN none = {} /\ Len(none) = 0
        /\ none \in Seq(Event)
    OBVIOUS
  <2>2. Walked(none) = none  BY Courts!FoldEmpty
  <2> HIDE DEF none, Walked, K
  <2>3. none \in WellFormed  BY <2>1 DEF WellFormed, Numbered, Edited
  <2>4. ToSet(none) = {}  BY <2>1 DEF ToSet
  <2>5. Judged(none, commits, none)  BY <2>1, <2>3, <2>4 DEF Judged
  <2>6. none \in T  BY <2>1, <2>2, <2>5
  <2> QED BY <2>6 DEF none
<1>6. ASSUME NEW s \in Seq(K), s \in T, NEW k \in K  PROVE Append(s, k) \in T
  <2> DEFINE t == Append(s, k)
  <2> SUFFICES ASSUME Distinct(t)
               PROVE t \in Seq(K) /\ Judged(Walked(t), commits, t)
    OBVIOUS
  <2>1. /\ t \in Seq(K) /\ DOMAIN t = DOMAIN s \cup {Len(s) + 1}
        /\ Len(s) + 1 \notin DOMAIN s /\ t[Len(s) + 1] = k
        /\ \A i \in DOMAIN s : t[i] = s[i]
    <3> HIDE DEF K
    <3> QED OBVIOUS
  <2> HIDE DEF t
  <2>2. Distinct(s) /\ k \notin ToSet(s)  BY <2>1 DEF Distinct, ToSet
  <2>3. Judged(Walked(s), commits, s)  BY <1>6, <2>2
  <2>4. Walked(t) = MergeGroup(Walked(s), Group(commits, k))
    <3> HIDE DEF K
    <3> QED BY Courts!FoldAppend DEF Group, t
  <2>5. Judged(Walked(t), commits, t)
    <3> HIDE DEF Walked
    <3> QED BY <1>1, <2>2, <2>3, <2>4, OneMoreKey DEF t, KeysOf
  <2> QED BY <2>1, <2>5
<1>7. Seq(K) \subseteq T
  <2> HIDE DEF T, K
  <2> QED BY <1>5, <1>6, Courts!SequencesGrow
<1>8. keys \in Seq(K) /\ Distinct(keys)  BY <1>4 DEF Enumerates, Distinct
<1>9. Judged(Walked(keys), commits, keys)  BY <1>7, <1>8
<1> QED BY <1>1, <1>2, <1>4, <1>9 DEF commits, keys
-----------------------------------------------------------------------------
(* The invariant *)

\* Every edit of a log leaves it well formed.
LEMMA EditsWellFormed ==
  ASSUME NEW events \in WellFormed
  PROVE  /\ \A key \in Keys, text \in Texts :
              AppendProposal(events, key, text) \in WellFormed
         /\ \A i \in DOMAIN events :
              HasProposal(events, i) => CommitProposal(events, i) \in WellFormed
         /\ \A i \in 1 .. Len(events) + 1 :
              AppendUndo(events, i) \in WellFormed
                /\ AppendRedo(events, i) \in WellFormed
<1>1. ASSUME NEW key \in Keys, NEW text \in Texts
      PROVE  AppendProposal(events, key, text) \in WellFormed
  <2> DEFINE e == [Blank("proposal") EXCEPT !.key = key, !.text = text]
  <2>1. e \in Event /\ e.key = key /\ e.text = text
    BY BlankTyped DEF EventTypes, Event
  <2> HIDE DEF e
  <2>2. AppendEvent(events, e) \in WellFormed  BY <2>1, AppendWellFormed
  <2> QED BY <2>2 DEF AppendProposal, e
<1>2. ASSUME NEW i \in DOMAIN events, HasProposal(events, i)
      PROVE  CommitProposal(events, i) \in WellFormed
  <2> DEFINE e == [Blank("commit") EXCEPT !.key = events[i].key,
        !.text = events[i].text,
                                          !.proposalSeq = i]
  <2>1. /\ events[i] \in Event /\ events[i].key \in Keys
             /\ events[i].text \in Texts
        /\ i \in Nat
    BY <1>2 DEF WellFormed, Edited, HasProposal
  <2>2. e \in Event /\ e.key = events[i].key /\ e.text = events[i].text
    BY <2>1, BlankTyped DEF EventTypes, Event
  <2> HIDE DEF e
  <2>3. AppendEvent(events, e) \in WellFormed  BY <2>1, <2>2, AppendWellFormed
  <2> QED BY <1>2, <2>3 DEF CommitProposal, e
<1>3. ASSUME NEW i \in 1 .. Len(events) + 1
      PROVE  AppendUndo(events, i) \in WellFormed
               /\ AppendRedo(events, i) \in WellFormed
  <2> DEFINE undo == [Blank("undo") EXCEPT !.commitSeq = i]
             redo == [Blank("redo") EXCEPT !.commitSeq = i]
  <2>1. /\ Blank("undo") \in Event /\ Blank("redo") \in Event
        /\ Blank("undo").type = "undo" /\ Blank("redo").type = "redo"
    BY BlankTyped DEF EventTypes, Blank
  <2>2. i \in Nat  BY DEF WellFormed
  <2>3. undo \in Event /\ undo.type = "undo"  BY <2>1, <2>2 DEF Event
  <2>4. redo \in Event /\ redo.type = "redo"  BY <2>1, <2>2 DEF Event
  <2> HIDE DEF undo, redo
  <2>5. AppendEvent(events, undo) \in WellFormed
          /\ AppendEvent(events, redo) \in WellFormed
    BY <2>3, <2>4, AppendWellFormed
  <2> QED BY <2>5 DEF AppendUndo, AppendRedo, undo, redo
<1> QED BY <1>1, <1>2, <1>3

\* Every log, the merged one too, numbers its events by their places, and
\* gives each proposal and commit a key and a text.
THEOREM LogsInvariance == Spec => []LogsInv
<1>1. Init => LogsInv
  <2> DEFINE none == <<>>
  <2>1. none \in Seq(Event) /\ DOMAIN none = {}  OBVIOUS
  <2> HIDE DEF none
  <2>2. none \in WellFormed  BY <2>1 DEF WellFormed, Numbered, Edited
  <2>3. <<>> \in WellFormed  BY <2>2 DEF none
  <2> QED BY <2>3 DEF Init, LogsInv
<1>2. LogsInv /\ [Next]_vars => LogsInv'
  <2> SUFFICES ASSUME LogsInv, [Next]_vars  PROVE LogsInv'
    OBVIOUS
  <2>1. ASSUME NEW l \in Logs, NEW events \in WellFormed, EditTo(l, events)
        PROVE  LogsInv'
    BY <2>1 DEF LogsInv, EditTo
  <2>2. \A l \in Logs : log[l] \in WellFormed  BY DEF LogsInv
  <2>3. ASSUME NEW l \in Logs, Propose(l)  PROVE LogsInv'
    <3>1. PICK key \in Keys, text \in Texts :
            EditTo(l, AppendProposal(log[l], key, text))
      BY <2>3 DEF Propose
    <3>2. AppendProposal(log[l], key, text) \in WellFormed
      BY <2>2, EditsWellFormed
    <3> QED BY <2>1, <3>1, <3>2
  <2>4. ASSUME NEW l \in Logs, Commit(l)  PROVE LogsInv'
    <3>1. PICK i \in DOMAIN log[l] :
            HasProposal(log[l], i) /\ EditTo(l, CommitProposal(log[l], i))
      BY <2>4 DEF Commit
    <3>2. CommitProposal(log[l], i) \in WellFormed
      BY <2>2, <3>1, EditsWellFormed
    <3> QED BY <2>1, <3>1, <3>2
  <2>5. ASSUME NEW l \in Logs, Undo(l)  PROVE LogsInv'
    <3>1. PICK i \in 1 .. Len(log[l]) + 1 : EditTo(l, AppendUndo(log[l], i))
      BY <2>5 DEF Undo
    <3>2. AppendUndo(log[l], i) \in WellFormed  BY <2>2, EditsWellFormed
    <3> QED BY <2>1, <3>1, <3>2
  <2>6. ASSUME NEW l \in Logs, Redo(l)  PROVE LogsInv'
    <3>1. PICK i \in 1 .. Len(log[l]) + 1 : EditTo(l, AppendRedo(log[l], i))
      BY <2>6 DEF Redo
    <3>2. AppendRedo(log[l], i) \in WellFormed  BY <2>2, EditsWellFormed
    <3> QED BY <2>1, <3>1, <3>2
  <2>7. CASE Merge
    <3>1. log["left"] \in WellFormed /\ log["right"] \in WellFormed
      BY <2>2 DEF Logs, Sides
    <3>2. MergeLogs(log["left"], log["right"], Left, Right) \in WellFormed
      BY <3>1, SidesAssumption, MergeJudges DEF Judged
    <3> QED BY <2>7, <3>2 DEF Merge, LogsInv, Logs
  <2>8. CASE UNCHANGED vars  BY <2>8 DEF vars, LogsInv
  <2> QED BY <2>3, <2>4, <2>5, <2>6, <2>7, <2>8 DEF Next
<1> QED BY <1>1, <1>2, PTL DEF Spec

\* Both logs that are merged are well formed.
LEMMA Inputs == LogsInv => log["left"] \in WellFormed
                  /\ log["right"] \in WellFormed
  BY DEF LogsInv, Logs, Sides

\* Whatever was undone and redone, the walk over a log keeps a commit exactly
\* when the last undo or redo of it is a redo, or there is none.
THEOREM LastMask == Spec => []LastMaskWins
<1>1. LogsInv => LastMaskWins
  <2> SUFFICES ASSUME LogsInv, NEW l \in Logs
               PROVE  \A c \in DOMAIN log[l] :
                        c \in ActiveSeqs(log[l]) <=> LastMaskDecides(log[l], c)
    BY DEF LastMaskWins
  <2>1. log[l] \in Seq(Event) /\ Numbered(log[l])  BY DEF LogsInv, WellFormed
  <2>2. ActiveSeqs(log[l]) = Unmasked(log[l])  BY <2>1, WalkKeeps
  <2> QED BY <2>2 DEF Unmasked
<1> QED BY <1>1, LogsInvariance, PTL

\* Which log is called left does not matter: the merge depends on the set of
\* active commits with the names of their logs.
THEOREM Symmetry == Spec => []MergeSymmetric
<1>1. MergeSymmetric
  <2>1. Pool(log["right"], log["left"], Right, Left)
          = Pool(log["left"], log["right"], Left, Right)
    BY DEF Pool
  <2> QED BY <2>1, MergeFolds DEF MergeSymmetric, Outcome
<1> QED BY <1>1, PTL
-----------------------------------------------------------------------------
(* What becomes of the edits *)

\* The active edits of both logs and their clones tell of the same edits.
LEMMA EditsArePooled ==
  ASSUME NEW left \in WellFormed, NEW right \in WellFormed,
         NEW a \in Peers, NEW b \in Peers
  PROVE  /\ \A e \in ToSet(ActiveCommitEvents(left)) :
              \E c \in Pool(left, right, a, b) :
                c.key = e.key /\ c.text = e.text /\ c.from = a
         /\ \A e \in ToSet(ActiveCommitEvents(right)) :
              \E c \in Pool(left, right, a, b) :
                c.key = e.key /\ c.text = e.text /\ c.from = b
         /\ \A c \in Pool(left, right, a, b) :
              \E e \in ToSet(ActiveCommitEvents(left))
                \cup ToSet(ActiveCommitEvents(right)) :
                c.key = e.key /\ c.text = e.text
<1>1. /\ \A e \in ToSet(ActiveCommitEvents(left)) :
           \E c \in ActiveClones(left, a) : c.key = e.key /\ c.text = e.text
      /\ \A c \in ActiveClones(left, a) :
           /\ c.from = a
           /\ \E e \in ToSet(ActiveCommitEvents(left)) :
                c.key = e.key /\ c.text = e.text
  BY ActiveClonesFacts
<1>2. /\ \A e \in ToSet(ActiveCommitEvents(right)) :
           \E c \in ActiveClones(right, b) : c.key = e.key /\ c.text = e.text
      /\ \A c \in ActiveClones(right, b) :
           /\ c.from = b
           /\ \E e \in ToSet(ActiveCommitEvents(right)) :
                c.key = e.key /\ c.text = e.text
  BY ActiveClonesFacts
<1> QED BY <1>1, <1>2 DEF Pool

\* What the merge of the two logs rules, and on which keys.
LEMMA OutcomeRuled ==
  ASSUME LogsInv
  PROVE  LET commits == Pool(log["left"], log["right"], Left, Right) IN
           /\ \A key \in KeysOf(commits) : Ruled(Outcome, commits, key)
           /\ \A i \in DOMAIN Outcome : Outcome[i].key \in KeysOf(commits)
<1> DEFINE commits == Pool(log["left"], log["right"], Left, Right)
           keys == Sorted(KeysOf(commits), KeyBefore)
<1>1. Enumerates(keys, KeysOf(commits)) /\ Judged(Outcome, commits, keys)
  BY Inputs, SidesAssumption, MergeJudges DEF Outcome
<1> HIDE DEF keys, commits
<1>2. ToSet(keys) = KeysOf(commits)  BY <1>1 DEF Enumerates
<1>3. /\ \A key \in KeysOf(commits) : Ruled(Outcome, commits, key)
      /\ \A i \in DOMAIN Outcome : Outcome[i].key \in KeysOf(commits)
  BY <1>1, <1>2 DEF Judged
<1> QED BY <1>3 DEF commits

\* No active edit is lost in a merge: a commit carries its text, or a
\* conflict names it with the log it came from.
THEOREM NoEditLost == Spec => []NothingLost
<1>1. ASSUME LogsInv, NEW side \in Sides, NEW e \in Active(side)
      PROVE  \/ \E c \in Commits : c.key = e.key /\ c.text = e.text
             \/ \E c \in Conflicts : /\ c.key = e.key
                                     /\ [from |-> IdOf(side), text |-> e.text]
                                          \in {c.left, c.right}
  <2> DEFINE commits == Pool(log["left"], log["right"], Left, Right)
  <2>1. \E c \in commits :
          c.key = e.key /\ c.text = e.text /\ c.from = IdOf(side)
    <3>1. /\ \A x \in ToSet(ActiveCommitEvents(log["left"])) :
               \E c \in commits :
                 c.key = x.key /\ c.text = x.text /\ c.from = Left
          /\ \A x \in ToSet(ActiveCommitEvents(log["right"])) :
               \E c \in commits :
                 c.key = x.key /\ c.text = x.text /\ c.from = Right
      BY <1>1, Inputs, SidesAssumption, EditsArePooled
    <3> QED BY <1>1, <3>1 DEF Active, IdOf, Sides
  <2> HIDE DEF commits
  <2>2. PICK c \in commits :
          c.key = e.key /\ c.text = e.text /\ c.from = IdOf(side)
    BY <2>1
  <2>3. c \in Group(commits, e.key) /\ e.key \in KeysOf(commits)
    BY <2>2 DEF Group, KeysOf
  <2>4. Ruled(Outcome, commits, e.key)
    BY <1>1, <2>3, OutcomeRuled DEF commits
  <2>5. \A i \in DOMAIN Outcome : Outcome[i] \in ToSet(Outcome)  BY DEF ToSet
  <2>6. SideOf(c) = [from |-> IdOf(side), text |-> e.text]  BY <2>2 DEF SideOf
  <2>7. CASE Agrees(Group(commits, e.key))
    <3>1. PICK i \in DOMAIN Outcome :
            /\ Outcome[i].type = "commit" /\ Outcome[i].key = e.key
            /\ c.text = Outcome[i].text
      BY <2>3, <2>4, <2>7 DEF Ruled
    <3>2. Outcome[i] \in Commits  BY <2>5, <3>1 DEF Commits
    <3> QED BY <2>2, <3>1, <3>2
  <2>8. CASE ~Agrees(Group(commits, e.key))
    <3>1. PICK i \in DOMAIN Outcome :
            /\ Outcome[i].key = e.key /\ Outcome[i].type = "conflict"
            /\ SideOf(c) \in {Outcome[i].left, Outcome[i].right}
      BY <2>3, <2>4, <2>8 DEF Ruled
    <3>2. Outcome[i] \in Conflicts  BY <2>5, <3>1 DEF Conflicts
    <3> QED BY <2>6, <3>1, <3>2
  <2> QED BY <2>7, <2>8
<1>2. LogsInv => NothingLost  BY <1>1 DEF NothingLost
<1> QED BY <1>2, LogsInvariance, PTL

\* A finite set with two elements has more than one.
LEMMA TwoOrMore ==
  ASSUME NEW S, IsFiniteSet(S), NEW x \in S, NEW y \in S, x # y
  PROVE  Cardinality(S) \in Nat /\ Cardinality(S) > 1
<1>1. Cardinality(S) \in Nat  BY FS_CardinalityType
<1>2. Cardinality(S) # 0  BY FS_EmptySet
<1>3. Cardinality(S) # 1
  <2> SUFFICES ASSUME Cardinality(S) = 1  PROVE FALSE
    OBVIOUS
  <2>1. \E z : S = {z}  BY FS_Singleton
  <2> QED BY <2>1
<1> QED BY <1>1, <1>2, <1>3

\* A key two active commits disagree on is in conflict and gets no commit;
\* every other edited key gets exactly one.
THEOREM ConflictsAreLaw == Spec => []ConflictLaw
<1>1. ASSUME LogsInv, NEW key \in Keys
      PROVE  LET texts == {e.text : e \in {c \in Contenders : c.key = key}}
             IN  /\ Cardinality(texts) > 1 <=> \E e \in Conflicts : e.key = key
                 /\ Cardinality({e \in Commits : e.key = key})
                      = IF Cardinality(texts) = 1 THEN 1 ELSE 0
  <2> DEFINE commits == Pool(log["left"], log["right"], Left, Right)
             G == Group(commits, key)
             texts == {e.text : e \in {c \in Contenders : c.key = key}}
             kept == {e \in Commits : e.key = key}
  <2>1. /\ \A e \in Contenders : \E c \in commits :
             c.key = e.key /\ c.text = e.text
        /\ \A c \in commits : \E e \in Contenders :
             c.key = e.key /\ c.text = e.text
    <3>1. /\ \A x \in ToSet(ActiveCommitEvents(log["left"])) :
               \E c \in commits : c.key = x.key /\ c.text = x.text
          /\ \A x \in ToSet(ActiveCommitEvents(log["right"])) :
               \E c \in commits : c.key = x.key /\ c.text = x.text
          /\ \A c \in commits :
               \E x \in ToSet(ActiveCommitEvents(log["left"]))
                          \cup ToSet(ActiveCommitEvents(log["right"])) :
                 c.key = x.key /\ c.text = x.text
      BY <1>1, Inputs, SidesAssumption, EditsArePooled
    <3> QED BY <3>1 DEF Contenders, Active
  <2>2. Contending(commits)
    BY <1>1, Inputs, SidesAssumption, MergeJudges
  <2>3. /\ \A k \in KeysOf(commits) : Ruled(Outcome, commits, k)
        /\ \A i \in DOMAIN Outcome : Outcome[i].key \in KeysOf(commits)
    BY <1>1, OutcomeRuled
  <2> HIDE DEF commits
  <2>4. texts = {c.text : c \in G}  BY <2>1 DEF Group
  <2>5. IsFiniteSet(texts)
    <3> DEFINE f == [c \in G |-> c.text]
    <3>1. G \in SUBSET commits /\ IsFiniteSet(commits)
      BY <2>2 DEF Group, Contending
    <3>2. IsFiniteSet(G)  BY <3>1, FS_Subset
    <3>3. texts = {f[c] : c \in G} /\ DOMAIN f = G  BY <2>4
    <3> HIDE DEF f, G, texts
    <3> QED BY <3>2, <3>3, ImageFinite
  <2>6. \A e : e \in ToSet(Outcome) <=> \E i \in DOMAIN Outcome : e = Outcome[i]
    BY DEF ToSet
  <2> HIDE DEF texts, G
  <2>7. CASE G = {}
    <3>1. texts = {} /\ key \notin KeysOf(commits)
      BY <2>4, <2>7 DEF G, Group, KeysOf
    <3>2. kept = {} /\ ~ \E e \in Conflicts : e.key = key
      BY <2>3, <2>6, <3>1 DEF Commits, Conflicts
    <3>3. Cardinality(texts) = 0 /\ Cardinality(kept) = 0
      BY <3>1, <3>2, FS_EmptySet
    <3> QED BY <3>2, <3>3 DEF texts
  <2>8. CASE G # {} /\ Agrees(G)
    <3>1. PICK c \in G : TRUE  BY <2>8
    <3>2. texts = {c.text}  BY <2>4, <2>8, <3>1 DEF Agrees
    <3>3. key \in KeysOf(commits)  BY <3>1 DEF G, Group, KeysOf
    <3>4. PICK i \in DOMAIN Outcome :
            /\ Outcome[i].type = "commit" /\ Outcome[i].key = key
            /\ \A j \in DOMAIN Outcome : Outcome[j].key = key => j = i
      BY <2>3, <2>8, <3>3 DEF Ruled, G
    <3>5. kept = {Outcome[i]} /\ ~ \E e \in Conflicts : e.key = key
      BY <2>6, <3>4 DEF Commits, Conflicts
    <3>6. Cardinality(texts) = 1 /\ Cardinality(kept) = 1
      BY <3>2, <3>5, FS_Singleton
    <3> QED BY <3>5, <3>6 DEF texts
  <2>9. CASE ~Agrees(G)
    <3>1. PICK c \in G, d \in G : c.text # d.text  BY <2>9 DEF Agrees
    <3>2. Cardinality(texts) \in Nat /\ Cardinality(texts) > 1
      BY <2>4, <2>5, <3>1, TwoOrMore
    <3>3. key \in KeysOf(commits)  BY <3>1 DEF G, Group, KeysOf
    <3>4. /\ \A i \in DOMAIN Outcome :
               Outcome[i].key = key => Outcome[i].type = "conflict"
          /\ \E i \in DOMAIN Outcome : Outcome[i].key = key
      BY <2>3, <2>9, <3>1, <3>3 DEF Ruled, G
    <3>5. kept = {} /\ \E e \in Conflicts : e.key = key
      BY <2>6, <3>4 DEF Commits, Conflicts
    <3>6. Cardinality(kept) = 0  BY <3>5, FS_EmptySet
    <3> QED BY <3>2, <3>5, <3>6 DEF texts
  <2> QED BY <2>7, <2>8, <2>9
<1>2. LogsInv => ConflictLaw  BY <1>1 DEF ConflictLaw
<1> QED BY <1>2, LogsInvariance, PTL
-----------------------------------------------------------------------------
(* Merging again *)

AllCommits(events) == \A i \in DOMAIN events : events[i].type = "commit"

\* Every commit of a log without undo counts, and replay adds their texts.
LEMMA CommitsReplay ==
  ASSUME NEW events \in WellFormed, AllCommits(events)
  PROVE  ActiveCommitEvents(events) = events
<1>1. \A c \in DOMAIN events : MasksOf(events, c) = {}
  <2> SUFFICES ASSUME NEW c \in DOMAIN events, NEW i \in MasksOf(events, c)
               PROVE FALSE
    OBVIOUS
  <2>1. i \in DOMAIN events /\ events[i].type \in {"undo", "redo"}
    BY DEF MasksOf, WellFormed
  <2> QED BY <2>1 DEF AllCommits
<1>2. Unmasked(events) = DOMAIN events
  BY <1>1 DEF Unmasked, LastMaskDecides, AllCommits
<1>3. events \in Seq(Event) /\ Numbered(events)  BY DEF WellFormed
<1>4. {i \in DOMAIN events : events[i].seq \in ActiveSeqs(events)}
        = DOMAIN events
  BY <1>2, <1>3, WalkKeeps DEF Numbered
<1>5. ActiveCommitEvents(events) = Subsequence(events, DOMAIN events)
  BY <1>4 DEF ActiveCommitEvents
<1> QED BY <1>3, <1>5, SubsequenceWhole

\* Logs of commits that read alike replay alike.
LEMMA AlikeReplay ==
  ASSUME NEW s \in WellFormed, NEW t \in WellFormed, AllCommits(s),
             AllCommits(t),
         Alike(s, t)
  PROVE  ReplayEdits(s) = ReplayEdits(t)
<1> DEFINE I == {i \in DOMAIN s : s[i].text # NoText}
           J == {i \in DOMAIN t : t[i].text # NoText}
           a == Subsequence(s, I)
           b == Subsequence(t, J)
<1>1. s \in Seq(Event) /\ t \in Seq(Event)  BY DEF WellFormed
<1>2. /\ ReplayEdits(s) = [i \in DOMAIN a |-> a[i].text]
      /\ ReplayEdits(t) = [i \in DOMAIN b |-> b[i].text]
  BY CommitsReplay DEF ReplayEdits
<1>3. I = J
  <2>1. DOMAIN s = DOMAIN t  BY <1>1 DEF Alike
  <2> QED BY <2>1 DEF Alike
<1>4. Alike(a, b)
  <2> HIDE DEF I
  <2> QED BY <1>1, <1>3, SubsequencesAlike
<1>5. a \in Seq(Event) /\ b \in Seq(Event)
  <2> HIDE DEF I, J
  <2> QED BY <1>1, SubsequenceHolds
<1> HIDE DEF a, b
<1>6. DOMAIN a = DOMAIN b /\ \A i \in DOMAIN a : a[i].text = b[i].text
  BY <1>4, <1>5 DEF Alike
<1> QED BY <1>2, <1>6

\* Merging the result of a merge without conflicts with one of its inputs
\* again changes nothing in the source it replays to.
THEOREM Absorption == Spec => []RemergeAbsorbs
<1>1. ASSUME LogsInv, Conflicts = {}
      PROVE  ReplayEdits(MergeLogs(Outcome, log["right"], Left, Right))
               = ReplayEdits(Outcome)
  <2> DEFINE left == log["left"]
             right == log["right"]
             commits == Pool(left, right, Left, Right)
             keys == Sorted(KeysOf(commits), KeyBefore)
             out == Outcome
             again == MergeLogs(out, right, Left, Right)
             pool == Pool(out, right, Left, Right)
             order == Sorted(KeysOf(pool), KeyBefore)
  <2>1. left \in WellFormed /\ right \in WellFormed /\ Left \in Peers
          /\ Right \in Peers
        /\ Left # Right
    BY <1>1, Inputs, SidesAssumption
  <2>2. Judged(out, commits, keys) /\ Enumerates(keys, KeysOf(commits))
    BY <2>1, MergeJudges DEF Outcome
  <2> HIDE DEF left, right, out
  <2>3. out \in WellFormed /\ ToSet(keys) = KeysOf(commits)
    BY <2>2 DEF Judged, Enumerates
  <2>4. Judged(again, pool, order)
    BY <2>1, <2>3, MergeJudges
  <2>5. AllCommits(out)
    <3>1. \A i \in DOMAIN out : out[i] \in ToSet(out)  BY DEF ToSet
    <3>2. \A i \in DOMAIN out : out[i].type # "conflict"
      BY <1>1, <3>1 DEF Conflicts, out
    <3> QED BY <2>2, <3>2 DEF Judged, AllCommits
  <2>6. ActiveCommitEvents(out) = out  BY <2>3, <2>5, CommitsReplay
  <2>7. /\ \A i \in DOMAIN out : \E c \in pool :
             c.key = out[i].key /\ c.text = out[i].text
        /\ \A c \in pool :
             \/ \E i \in DOMAIN out : c.key = out[i].key /\ c.text = out[i].text
             \/ \E d \in commits : c.key = d.key /\ c.text = d.text
    <3>1. /\ \A e \in ToSet(out) : \E c \in pool :
               c.key = e.key /\ c.text = e.text
          /\ \A c \in pool :
               \E e \in ToSet(out) \cup ToSet(ActiveCommitEvents(right)) :
                 c.key = e.key /\ c.text = e.text
      BY <2>1, <2>3, <2>6, EditsArePooled
    <3>2. \A e \in ToSet(ActiveCommitEvents(right)) : \E d \in commits :
            d.key = e.key /\ d.text = e.text
      BY <2>1, EditsArePooled
    <3>3. \A e : e \in ToSet(out) <=> \E i \in DOMAIN out : e = out[i]
      BY DEF ToSet
    <3> HIDE DEF pool, commits
    <3> QED BY <3>1, <3>2, <3>3
  <2> HIDE DEF pool, commits, keys, again, order
  <2>8. ASSUME NEW key \in KeysOf(commits)
        PROVE  Agrees(Group(commits, key))
    <3> SUFFICES ASSUME ~Agrees(Group(commits, key))  PROVE FALSE
      OBVIOUS
    <3>1. Ruled(out, commits, key)  BY <2>2, <2>3 DEF Judged
    <3>2. PICK c \in Group(commits, key) : TRUE  BY DEF Agrees
    <3>3. PICK i \in DOMAIN out : out[i].key = key  BY <3>1, <3>2 DEF Ruled
    <3>4. out[i].type = "conflict"  BY <3>1, <3>3 DEF Ruled
    <3> QED BY <2>5, <3>4 DEF AllCommits
  <2>9. Len(out) = Len(keys) /\ \A i \in DOMAIN out : out[i].key = keys[i]
    BY <2>2, <2>3, <2>8 DEF Judged
  <2>10. ASSUME NEW key \in KeysOf(commits)
         PROVE  \E i \in DOMAIN out : /\ out[i].key = key
                                      /\ \A c \in pool :
                                            c.key = key => c.text = out[i].text
    <3>1. Ruled(out, commits, key) /\ Agrees(Group(commits, key))
      BY <2>2, <2>3, <2>8 DEF Judged
    <3>2. PICK i \in DOMAIN out :
            /\ out[i].key = key
            /\ \A c \in Group(commits, key) : c.text = out[i].text
            /\ \A j \in DOMAIN out : out[j].key = key => j = i
      BY <3>1 DEF Ruled
    <3>3. \A d \in commits : d.key = key => d.text = out[i].text
      BY <3>2 DEF Group
    <3> QED BY <2>7, <3>2, <3>3
  <2>11. KeysOf(pool) = KeysOf(commits)
    <3>1. ASSUME NEW c \in pool  PROVE c.key \in KeysOf(commits)
      <4>1. CASE \E i \in DOMAIN out : c.key = out[i].key
        <5>1. \A i \in DOMAIN out : out[i].key \in ToSet(keys)
          BY <2>2 DEF Judged
        <5> QED BY <2>3, <4>1, <5>1
      <4>2. CASE \E d \in commits : c.key = d.key  BY <4>2 DEF KeysOf
      <4> QED BY <2>7, <4>1, <4>2
    <3>2. ASSUME NEW key \in KeysOf(commits)  PROVE \E c \in pool : c.key = key
      <4>1. PICK i \in DOMAIN out : out[i].key = key  BY <2>10
      <4> QED BY <2>7, <4>1
    <3> QED BY <3>1, <3>2 DEF KeysOf
  <2>12. order = keys  BY <2>11 DEF order, keys
  <2>13. \A key \in ToSet(keys) : Agrees(Group(pool, key))
    BY <2>3, <2>10 DEF Agrees, Group
  <2>14. Len(again) = Len(keys) /\ \A i \in DOMAIN again :
           again[i].key = keys[i]
    BY <2>4, <2>12, <2>13 DEF Judged
  <2>15. again \in WellFormed  BY <2>4 DEF Judged
  <2>16. DOMAIN again = DOMAIN out
    BY <2>3, <2>9, <2>14, <2>15 DEF WellFormed
  <2>17. ASSUME NEW i \in DOMAIN again
         PROVE  again[i].type = "commit" /\ again[i].text = out[i].text
    <3> DEFINE key == keys[i]
    <3>1. out[i].key = key /\ again[i].key = key  BY <2>9, <2>14, <2>16
    <3>2. key \in ToSet(keys)  BY <2>2, <2>16, <3>1 DEF Judged
    <3>3. PICK j \in DOMAIN again :
            /\ again[j].type = "commit" /\ again[j].key = key
            /\ \A c \in Group(pool, key) : c.text = again[j].text
            /\ \A k \in DOMAIN again : again[k].key = key => k = j
      BY <2>4, <2>12, <2>13, <3>2 DEF Judged, Ruled
    <3>4. j = i  BY <3>1, <3>3
    <3>5. PICK c \in pool : c.key = key /\ c.text = out[i].text
      BY <2>7, <2>16, <3>1
    <3>6. c.text = again[i].text  BY <3>3, <3>4, <3>5 DEF Group
    <3> QED BY <3>3, <3>4, <3>5, <3>6
  <2>18. AllCommits(again)  BY <2>17 DEF AllCommits
  <2>19. Alike(again, out)  BY <2>9, <2>14, <2>17 DEF Alike
  <2>20. ReplayEdits(again) = ReplayEdits(out)
    BY <2>3, <2>5, <2>15, <2>18, <2>19, AlikeReplay
  <2> QED BY <2>20 DEF again, out, right
<1>2. LogsInv => RemergeAbsorbs  BY <1>1 DEF RemergeAbsorbs
<1> QED BY <1>2, LogsInvariance, PTL
=============================================================================
