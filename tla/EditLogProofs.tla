--------------------------- MODULE EditLogProofs ---------------------------
(***************************************************************************)
(* Lemmas about the operators of EditLog, on which the proofs about the    *)
(* sync channel and the merge court rest: what appending to a log gives,   *)
(* what a subsequence holds, what the walk over a log keeps, and when two  *)
(* logs that number their events apart replay alike.                       *)
(***************************************************************************)
EXTENDS EditLog, TLAPS

\* The logs that are log or continue it.
Longer(log) == {longer \in Seq(Event) : IsPrefix(log, longer)}

Walks == INSTANCE FoldTheorems WITH Step <- LAMBDA c, acc, e : MaskStep(acc, e)

-----------------------------------------------------------------------------
(* Appending *)

\* Events that are appended to a log of events keep it one, in front of them.
LEMMA AppendEventTyped ==
  ASSUME NEW log \in Seq(Event), NEW e \in Event
  PROVE  AppendEvent(log, e) \in Longer(log)
<1>1. Len(log) + 1 \in Nat
  OBVIOUS
<1>2. \A n \in Nat : [e EXCEPT !.seq = n] \in Event
  BY DEF Event
<1>3. \A x \in Event :
        Append(log, x) \in Seq(Event) /\ IsPrefix(log, Append(log, x))
  BY DEF IsPrefix
<1> QED BY <1>1, <1>2, <1>3 DEF AppendEvent, Longer

\* What the longer of two logs is.
LEMMA LongerFacts ==
  ASSUME NEW log \in Seq(Event)
  PROVE  /\ log \in Longer(log)
         /\ \A l \in Longer(log) : \A m \in Longer(l) : m \in Longer(log)
<1>1. log \in Longer(log)
  BY DEF Longer, IsPrefix
<1>2. ASSUME NEW l \in Longer(log), NEW m \in Longer(l)
      PROVE  m \in Longer(log)
  BY DEF Longer, IsPrefix
<1> QED BY <1>1, <1>2

\* An empty peer is typed.
LEMMA BlankTyped ==
  ASSUME NEW type \in EventTypes
  PROVE  Blank(type) \in Event
  BY DEF Blank, Event, NoSide, Side

\* Every append function appends one event or nothing.
LEMMA EditsTyped ==
  ASSUME NEW log \in Seq(Event)
  PROVE  /\ \A k \in Keys, t \in Texts :
              AppendProposal(log, k, t) \in Longer(log)
         /\ \A i \in Nat : CommitProposal(log, i) \in Longer(log)
         /\ \A i \in Nat : AppendUndo(log, i) \in Longer(log)
         /\ \A i \in Nat : AppendRedo(log, i) \in Longer(log)
<1>1. ASSUME NEW k \in Keys, NEW t \in Texts
      PROVE  AppendProposal(log, k, t) \in Longer(log)
  <2>1. [Blank("proposal") EXCEPT !.key = k, !.text = t] \in Event
    BY BlankTyped DEF EventTypes, Event
  <2> QED BY <2>1, AppendEventTyped DEF AppendProposal
<1>2. ASSUME NEW i \in Nat, HasProposal(log, i)
      PROVE  CommitProposal(log, i) \in Longer(log)
  <2>1. log[i] \in Event
    BY <1>2 DEF HasProposal
  <2>2. [Blank("commit") EXCEPT !.key = log[i].key, !.text = log[i].text,
                                !.proposalSeq = i] \in Event
    BY <2>1, BlankTyped DEF EventTypes, Event
  <2> QED BY <1>2, <2>2, AppendEventTyped DEF CommitProposal
<1>3. ASSUME NEW i \in Nat, ~HasProposal(log, i)
      PROVE  CommitProposal(log, i) \in Longer(log)
  BY <1>3, LongerFacts DEF CommitProposal
<1>4. ASSUME NEW i \in Nat
      PROVE  AppendUndo(log, i) \in Longer(log)
               /\ AppendRedo(log, i) \in Longer(log)
  <2>1. /\ [Blank("undo") EXCEPT !.commitSeq = i] \in Event
        /\ [Blank("redo") EXCEPT !.commitSeq = i] \in Event
    BY BlankTyped DEF EventTypes, Event
  <2> QED BY <2>1, AppendEventTyped DEF AppendUndo, AppendRedo
<1> QED BY <1>1, <1>2, <1>3, <1>4

\* Imports of typed packets are typed.
LEMMA ImportsTyped ==
  ASSUME NEW log \in Seq(Event)
  PROVE  /\ \A e \in Event : AppendImportedCommit(log, e) \in Longer(log)
         /\ \A k \in Keys \cup {NoKey}, left \in Side, right \in Side :
              AppendConflict(log, k, left, right) \in Longer(log)
<1>1. ASSUME NEW e \in Event  PROVE AppendImportedCommit(log, e) \in Longer(log)
  <2> DEFINE original == IF e.originalSeq # 0 THEN e.originalSeq ELSE e.seq
             commit == [Blank("commit") EXCEPT
               !.key = e.key, !.text = e.text, !.proposalSeq = e.proposalSeq,
               !.from = e.from, !.originalSeq = original]
  <2>1. original \in Nat  BY DEF Event
  <2> HIDE DEF original
  <2>2. commit \in Event  BY <2>1, BlankTyped DEF EventTypes, Event
  <2> QED BY <2>2, AppendEventTyped DEF AppendImportedCommit, original
<1>2. ASSUME NEW k \in Keys \cup {NoKey}, NEW left \in Side, NEW right \in Side
      PROVE  AppendConflict(log, k, left, right) \in Longer(log)
  <2>1. [Blank("conflict") EXCEPT !.key = k, !.left = left, !.right = right]
          \in Event
    BY BlankTyped DEF EventTypes, Event
  <2> QED BY <2>1, AppendEventTyped DEF AppendConflict
<1> QED BY <1>1, <1>2
-----------------------------------------------------------------------------
(* Subsequences *)

IsPick(sub, s, I, N) ==
  sub = [n \in 0 .. N |->
           IF n = 0 THEN <<>>
           ELSE IF n \in I THEN Append(sub[n - 1], s[n]) ELSE sub[n - 1]]

\* The recursive function that a subsequence goes by is there.
LEMMA PickExists ==
  ASSUME NEW s, NEW I, NEW N \in Nat
  PROVE  \E sub : IsPick(sub, s, I, N)
<1> DEFINE T == {n \in Nat : \E sub : IsPick(sub, s, I, n)}
<1>1. 0 \in T
  <2> DEFINE sub == [n \in 0 .. 0 |-> <<>>]
  <2>1. IsPick(sub, s, I, 0)  BY DEF IsPick
  <2> QED BY <2>1
<1>2. ASSUME NEW n \in Nat, n \in T  PROVE n + 1 \in T
  <2>1. PICK f : IsPick(f, s, I, n)  BY <1>2
  <2> DEFINE D == 0 .. n + 1
             last == IF n + 1 \in I THEN Append(f[n], s[n + 1]) ELSE f[n]
             g == [k \in D |-> IF k = n + 1 THEN last ELSE f[k]]
             h == [k \in D |-> IF k = 0 THEN <<>>
                    ELSE IF k \in I THEN Append(g[k - 1], s[k]) ELSE g[k - 1]]
  <2>2. ASSUME NEW k \in D  PROVE g[k] = h[k]
    <3>1. CASE k = n + 1
      <4>1. g[k] = last /\ g[k - 1] = f[n]  BY <3>1
      <4>2. h[k] = IF k \in I THEN Append(g[k - 1], s[k]) ELSE g[k - 1]  BY <3>1
      <4> HIDE DEF g, h
      <4> QED BY <3>1, <4>1, <4>2
    <3>2. CASE k # n + 1
      <4>1. k \in 0 .. n /\ (k # 0 => k - 1 \in 0 .. n)  BY <3>2
      <4> DEFINE ff == [x \in 0 .. n |-> IF x = 0 THEN <<>>
                    ELSE IF x \in I THEN Append(f[x - 1], s[x]) ELSE f[x - 1]]
      <4>2. f = ff  BY <2>1 DEF IsPick
      <4>3. ff[k] = IF k = 0 THEN <<>>
                    ELSE IF k \in I THEN Append(f[k - 1], s[k]) ELSE f[k - 1]
        BY <4>1
      <4>4. g[k] = f[k] /\ (k # 0 => g[k - 1] = f[k - 1])  BY <4>1
      <4>5. h[k] = IF k = 0 THEN <<>>
                   ELSE IF k \in I THEN Append(g[k - 1], s[k]) ELSE g[k - 1]
        OBVIOUS
      <4> HIDE DEF g, h, ff
      <4> QED BY <4>2, <4>3, <4>4, <4>5
    <3> QED BY <3>1, <3>2
  <2>3. g = h
    <3>1. g = [k \in D |-> g[k]] /\ h = [k \in D |-> h[k]]  OBVIOUS
    <3> HIDE DEF g, h, D
    <3> QED BY <2>2, <3>1
  <2>4. IsPick(g, s, I, n + 1)
    <3> HIDE DEF g
    <3> QED BY <2>3 DEF IsPick
  <2> QED BY <2>4
<1>3. Nat \subseteq T
  <2> HIDE DEF T
  <2> QED BY <1>1, <1>2, Walks!Induction
<1> QED BY <1>3

Pick(s, I) == CHOOSE sub : IsPick(sub, s, I, Len(s))

\* One step of the fold that picks a mask.
LEMMA PickStep ==
  ASSUME NEW S, NEW s \in Seq(S), NEW I
  PROVE  /\ Subsequence(s, I) = Pick(s, I)[Len(s)]
         /\ Pick(s, I)[0] = <<>>
         /\ \A n \in 1 .. Len(s) : Pick(s, I)[n] =
              IF n \in I THEN Append(Pick(s, I)[n - 1], s[n])
              ELSE Pick(s, I)[n - 1]
<1> DEFINE f == Pick(s, I)
           ff == [n \in 0 .. Len(s) |->
                    IF n = 0 THEN <<>>
                    ELSE IF n \in I THEN Append(f[n - 1], s[n]) ELSE f[n - 1]]
<1>1. Len(s) \in Nat  OBVIOUS
<1>2. IsPick(f, s, I, Len(s))  BY <1>1, PickExists DEF Pick
<1>3. f = ff  BY <1>2 DEF IsPick
<1>4. /\ ff[0] = <<>>
      /\ \A n \in 1 .. Len(s) :
           ff[n] = IF n \in I THEN Append(f[n - 1], s[n]) ELSE f[n - 1]
  BY <1>1
<1>5. Subsequence(s, I) = f[Len(s)]  BY DEF Subsequence, Pick, IsPick
<1> HIDE DEF f, ff
<1>6. /\ f[0] = <<>>
      /\ \A n \in 1 .. Len(s) :
           f[n] = IF n \in I THEN Append(f[n - 1], s[n]) ELSE f[n - 1]
  BY <1>3, <1>4
<1> QED BY <1>5, <1>6 DEF f

\* Nothing is taken from the empty sequence.
LEMMA SubsequenceEmpty ==
  ASSUME NEW I  PROVE Subsequence(<<>>, I) = <<>>
<1> DEFINE none == <<>>
<1>1. none \in Seq({}) /\ Len(none) = 0  OBVIOUS
<1> HIDE DEF none
<1>2. Subsequence(none, I) = Pick(none, I)[0] /\ Pick(none, I)[0] = <<>>
  BY <1>1, PickStep
<1> QED BY <1>2 DEF none

\* A subsequence grows with the sequence it is taken from.
LEMMA SubsequenceGrows ==
  ASSUME NEW S, NEW s \in Seq(S), NEW e \in S, NEW I
  PROVE  Subsequence(Append(s, e), I)
           = IF Len(s) + 1 \in I THEN Append(Subsequence(s, I), e)
                                  ELSE Subsequence(s, I)
<1> DEFINE t == Append(s, e)
           N == Len(s)
           f == Pick(s, I)
           g == Pick(t, I)
<1>1. /\ t \in Seq(S) /\ N \in Nat /\ Len(t) = N + 1 /\ t[N + 1] = e
      /\ \A n \in 1 .. N : t[n] = s[n]
  OBVIOUS
<1> HIDE DEF t
<1>3. /\ Subsequence(s, I) = f[N] /\ f[0] = <<>>
      /\ \A n \in 1 .. N :
           f[n] = IF n \in I THEN Append(f[n - 1], s[n]) ELSE f[n - 1]
  BY PickStep
<1>4. /\ Subsequence(t, I) = g[N + 1] /\ g[0] = <<>>
      /\ \A n \in 1 .. N + 1 :
           g[n] = IF n \in I THEN Append(g[n - 1], t[n]) ELSE g[n - 1]
  BY <1>1, PickStep
<1> HIDE DEF f, g, N
<1> DEFINE T == {n \in Nat : n <= N => f[n] = g[n]}
<1>5. 0 \in T  BY <1>3, <1>4
<1>6. ASSUME NEW n \in Nat, n \in T  PROVE n + 1 \in T
  <2> SUFFICES ASSUME n + 1 <= N  PROVE f[n + 1] = g[n + 1]
    OBVIOUS
  <2> DEFINE m == n + 1
  <2>1. m \in 1 .. N /\ m \in 1 .. N + 1 /\ m - 1 = n  BY <1>1
  <2>2. f[n] = g[n]  BY <1>1, <1>6
  <2> HIDE DEF m
  <2>3. f[m] = g[m]  BY <1>1, <1>3, <1>4, <2>1, <2>2
  <2> QED BY <2>3 DEF m
<1>7. Nat \subseteq T
  <2> HIDE DEF T
  <2> QED BY <1>5, <1>6, Walks!Induction
<1>8. f[N] = g[N]  BY <1>1, <1>7
<1>9. g[N + 1] = IF N + 1 \in I THEN Append(g[N], e) ELSE g[N]
  <2>1. N + 1 \in 1 .. N + 1 /\ (N + 1) - 1 = N  BY <1>1
  <2> QED BY <1>1, <1>4, <2>1
<1> QED BY <1>3, <1>4, <1>8, <1>9 DEF t, N

\* A subsequence holds the elements at the places it is taken at, no others.
LEMMA SubsequenceHolds ==
  ASSUME NEW S, NEW s \in Seq(S), NEW I
  PROVE  /\ Subsequence(s, I) \in Seq(S)
         /\ ToSet(Subsequence(s, I)) = {s[i] : i \in I \cap DOMAIN s}
<1> DEFINE Good(t) == /\ Subsequence(t, I) \in Seq(S)
                      /\ ToSet(Subsequence(t, I))
                           = {t[i] : i \in I \cap DOMAIN t}
           T == {t \in Seq(S) : Good(t)}
<1>1. <<>> \in T
  <2> DEFINE none == <<>>
  <2>1. none \in Seq(S) /\ DOMAIN none = {}  OBVIOUS
  <2>2. Subsequence(none, I) = none  BY SubsequenceEmpty
  <2> HIDE DEF none
  <2>3. Good(none)  BY <2>1, <2>2 DEF ToSet
  <2>4. none \in T  BY <2>1, <2>3
  <2> QED BY <2>4 DEF none
<1>2. ASSUME NEW t \in Seq(S), t \in T, NEW e \in S  PROVE Append(t, e) \in T
  <2> DEFINE u == Append(t, e)
             n == Len(t) + 1
             sub == Subsequence(t, I)
  <2>1. /\ u \in Seq(S) /\ DOMAIN u = DOMAIN t \cup {n} /\ u[n] = e
        /\ n \notin DOMAIN t /\ \A i \in DOMAIN t : u[i] = t[i]
    OBVIOUS
  <2>2. sub \in Seq(S) /\ ToSet(sub) = {t[i] : i \in I \cap DOMAIN t}
    BY <1>2
  <2>3. Subsequence(u, I) = IF n \in I THEN Append(sub, e) ELSE sub
    BY SubsequenceGrows
  <2>4. {u[i] : i \in I \cap DOMAIN u}
          = {t[i] : i \in I \cap DOMAIN t} \cup (IF n \in I THEN {e} ELSE {})
    <3> HIDE DEF u, n
    <3> QED BY <2>1
  <2>5. ToSet(Append(sub, e)) = ToSet(sub) \cup {e}
    <3> HIDE DEF sub
    <3>1. DOMAIN Append(sub, e) = DOMAIN sub \cup {Len(sub) + 1}  BY <2>2
    <3>2. /\ Append(sub, e)[Len(sub) + 1] = e
          /\ \A i \in DOMAIN sub : Append(sub, e)[i] = sub[i]
      BY <2>2
    <3> QED BY <3>1, <3>2 DEF ToSet
  <2>6. Append(sub, e) \in Seq(S)  BY <2>2
  <2> HIDE DEF u, n, sub
  <2>7. Good(u)  BY <2>2, <2>3, <2>4, <2>5, <2>6
  <2> QED BY <2>1, <2>7 DEF u
<1>3. Seq(S) \subseteq T
  <2> HIDE DEF T
  <2> QED BY <1>1, <1>2, Walks!SequencesGrow
<1> QED BY <1>3

\* Places that are none of the sequence's do not count.
LEMMA SubsequenceDepends ==
  ASSUME NEW S, NEW s \in Seq(S), NEW I, NEW J,
         I \cap DOMAIN s = J \cap DOMAIN s
  PROVE  Subsequence(s, I) = Subsequence(s, J)
<1> DEFINE T == {t \in Seq(S) : I \cap DOMAIN t = J \cap DOMAIN t
                                  => Subsequence(t, I) = Subsequence(t, J)}
<1>1. <<>> \in T  BY SubsequenceEmpty
<1>2. ASSUME NEW t \in Seq(S), t \in T, NEW e \in S  PROVE Append(t, e) \in T
  <2> SUFFICES ASSUME I \cap DOMAIN Append(t, e) = J \cap DOMAIN Append(t, e)
               PROVE  Subsequence(Append(t, e), I)
                        = Subsequence(Append(t, e), J)
    OBVIOUS
  <2> DEFINE n == Len(t) + 1
  <2>1. DOMAIN Append(t, e) = DOMAIN t \cup {n} /\ n \notin DOMAIN t
    OBVIOUS
  <2> HIDE DEF n
  <2>2. I \cap DOMAIN t = J \cap DOMAIN t /\ (n \in I <=> n \in J)
    BY <2>1
  <2>3. Subsequence(t, I) = Subsequence(t, J)  BY <1>2, <2>2
  <2>4. Subsequence(Append(t, e), I) =
          IF n \in I THEN Append(Subsequence(t, I), e) ELSE Subsequence(t, I)
    BY SubsequenceGrows DEF n
  <2>5. Subsequence(Append(t, e), J) =
          IF n \in J THEN Append(Subsequence(t, J), e) ELSE Subsequence(t, J)
    BY SubsequenceGrows DEF n
  <2> QED BY <2>2, <2>3, <2>4, <2>5, Zenon
<1>3. Seq(S) \subseteq T
  <2> HIDE DEF T
  <2> QED BY <1>1, <1>2, Walks!SequencesGrow
<1> QED BY <1>3

\* Taken at every place, a sequence is its own subsequence.
LEMMA SubsequenceWhole ==
  ASSUME NEW S, NEW s \in Seq(S), NEW I, DOMAIN s \subseteq I
  PROVE  Subsequence(s, I) = s
<1> DEFINE T == {t \in Seq(S) : DOMAIN t \subseteq I => Subsequence(t, I) = t}
<1>1. <<>> \in T  BY SubsequenceEmpty
<1>2. ASSUME NEW t \in Seq(S), t \in T, NEW e \in S  PROVE Append(t, e) \in T
  <2> SUFFICES ASSUME DOMAIN Append(t, e) \subseteq I
               PROVE  Subsequence(Append(t, e), I) = Append(t, e)
    OBVIOUS
  <2>1. DOMAIN t \subseteq I /\ Len(t) + 1 \in I  OBVIOUS
  <2>2. Subsequence(t, I) = t  BY <1>2, <2>1
  <2> QED BY <2>1, <2>2, SubsequenceGrows
<1>3. Seq(S) \subseteq T
  <2> HIDE DEF T
  <2> QED BY <1>1, <1>2, Walks!SequencesGrow
<1> QED BY <1>3

\* Logs of which corresponding events have the same text.
Alike(s, t) == Len(s) = Len(t) /\ \A i \in DOMAIN s : s[i].text = t[i].text

\* Two logs that read alike still do with one event more of the same text.
LEMMA AlikeGrows ==
  ASSUME NEW s \in Seq(Event), NEW t \in Seq(Event), Alike(s, t),
         NEW d \in Event, NEW e \in Event, d.text = e.text
  PROVE  Alike(Append(s, d), Append(t, e))
<1>1. /\ Len(s) = Len(t) /\ Len(s) \in Nat /\ DOMAIN s = 1 .. Len(s)
      /\ \A i \in DOMAIN s : s[i].text = t[i].text
  BY DEF Alike
<1>2. /\ Len(Append(s, d)) = Len(s) + 1
      /\ DOMAIN Append(s, d) = DOMAIN s \cup {Len(s) + 1}
      /\ Append(s, d)[Len(s) + 1] = d
      /\ \A i \in DOMAIN s : Append(s, d)[i] = s[i]
  OBVIOUS
<1>3. /\ Len(Append(t, e)) = Len(s) + 1
      /\ Append(t, e)[Len(s) + 1] = e
      /\ \A i \in DOMAIN s : Append(t, e)[i] = t[i]
  BY <1>1
<1> QED BY <1>1, <1>2, <1>3 DEF Alike

\* What is taken from logs that read alike, at the same places, reads alike.
LEMMA SubsequencesAlike ==
  ASSUME NEW s \in Seq(Event), NEW t \in Seq(Event), Alike(s, t), NEW I
  PROVE  Alike(Subsequence(s, I), Subsequence(t, I))
<1> DEFINE T == {x \in Seq(Event) : \A y \in Seq(Event) :
                   Alike(x, y) => Alike(Subsequence(x, I), Subsequence(y, I))}
<1>1. <<>> \in T
  <2> DEFINE none == <<>>
  <2>1. none \in Seq(Event) /\ DOMAIN none = {} /\ Len(none) = 0
        /\ \A y \in Seq(Event) : Len(y) = 0 => y = none
    OBVIOUS
  <2>2. Subsequence(none, I) = none  BY SubsequenceEmpty
  <2> HIDE DEF none
  <2>3. none \in T  BY <2>1, <2>2 DEF Alike
  <2> QED BY <2>3 DEF none
<1>2. ASSUME NEW x \in Seq(Event), x \in T, NEW e \in Event
      PROVE Append(x, e) \in T
  <2> SUFFICES ASSUME NEW y \in Seq(Event), Alike(Append(x, e), y)
               PROVE  Alike(Subsequence(Append(x, e), I), Subsequence(y, I))
    OBVIOUS
  <2> DEFINE n == Len(x)
             front == SubSeq(y, 1, n)
             last == y[n + 1]
  <2>1. /\ n \in Nat /\ Len(y) = n + 1
        /\ \A i \in 1 .. n : x[i].text = y[i].text
        /\ e.text = y[n + 1].text
    <3>1. /\ n \in Nat /\ Len(Append(x, e)) = n + 1 /\ Append(x, e)[n + 1] = e
          /\ DOMAIN Append(x, e) = 1 .. n + 1 /\ n + 1 \in 1 .. n + 1
          /\ \A i \in 1 .. n : Append(x, e)[i] = x[i] /\ i \in 1 .. n + 1
      OBVIOUS
    <3> HIDE DEF n
    <3> QED BY <3>1 DEF Alike
  <2>2. /\ front \in Seq(Event) /\ Len(front) = n /\ last \in Event
        /\ y = Append(front, last) /\ \A i \in 1 .. n : front[i] = y[i]
    BY <2>1
  <2>3. DOMAIN x = 1 .. n  OBVIOUS
  <2> HIDE DEF n, front, last
  <2>4. Alike(x, front) /\ e.text = last.text
    BY <2>1, <2>2, <2>3 DEF Alike, n, last
  <2> DEFINE sub == Subsequence(x, I)
             picked == Subsequence(front, I)
  <2>5. Alike(sub, picked)  BY <1>2, <2>2, <2>4
  <2>6. sub \in Seq(Event) /\ picked \in Seq(Event)
    BY <2>2, SubsequenceHolds
  <2>7. Subsequence(Append(x, e), I)
          = IF n + 1 \in I THEN Append(sub, e) ELSE sub
    BY SubsequenceGrows DEF n
  <2>8. Subsequence(y, I) = IF n + 1 \in I THEN Append(picked, last) ELSE picked
    BY <2>2, SubsequenceGrows
  <2> HIDE DEF sub, picked
  <2>9. Alike(Append(sub, e), Append(picked, last))
    BY <2>2, <2>4, <2>5, <2>6, AlikeGrows
  <2> QED BY <2>5, <2>7, <2>8, <2>9
<1>3. Seq(Event) \subseteq T
  <2> HIDE DEF T
  <2> QED BY <1>1, <1>2, Walks!SequencesGrow
<1> QED BY <1>3
-----------------------------------------------------------------------------
(* What the walk over a log keeps *)

\* An event's sequence number is its place in the log.
Numbered(events) == \A i \in DOMAIN events : events[i].seq = i

Commitments(events) == {c \in DOMAIN events : events[c].type = "commit"}
Unmasked(events) == {c \in DOMAIN events : LastMaskDecides(events, c)}

\* One more event masks or unmasks the commit it names, and no other.
LEMMA MasksGrow ==
  ASSUME NEW events \in Seq(Event), NEW e \in Event
  PROVE  /\ \A c \in DOMAIN events :
              /\ MasksOf(Append(events, e), c)
                   = MasksOf(events, c)
                       \cup (IF e.type \in {"undo", "redo"} /\ e.commitSeq = c
                             THEN {Len(events) + 1} ELSE {})
              /\ MasksOf(events, c) \subseteq DOMAIN events
         /\ MasksOf(Append(events, e), Len(events) + 1) = {}
<1> DEFINE longer == Append(events, e)
           n == Len(events) + 1
<1>1. /\ longer \in Seq(Event) /\ Len(longer) = n /\ longer[n] = e
      /\ Len(events) \in Nat /\ n \in Nat
      /\ DOMAIN events = 1 .. Len(events)
      /\ \A i \in 1 .. Len(events) : longer[i] = events[i]
  OBVIOUS
<1> HIDE DEF longer
<1>2. ASSUME NEW c \in 1 .. Len(events)
      PROVE  /\ MasksOf(longer, c)
                  = MasksOf(events, c)
                      \cup (IF e.type \in {"undo", "redo"} /\ e.commitSeq = c
                            THEN {n} ELSE {})
             /\ MasksOf(events, c) \subseteq 1 .. Len(events)
  <2>1. (c + 1) .. n = ((c + 1) .. Len(events)) \cup {n}
          /\ n \notin (c + 1) .. Len(events)
    BY <1>1
  <2>2. \A i \in (c + 1) .. Len(events) : longer[i] = events[i]  BY <1>1
  <2> HIDE DEF n
  <2> QED BY <1>1, <2>1, <2>2 DEF MasksOf
<1>3. MasksOf(longer, n) = {}
  BY <1>1 DEF MasksOf
<1> QED BY <1>1, <1>2, <1>3 DEF longer

\* How the last mask decides with one event more.
LEMMA DecisionGrows ==
  ASSUME NEW events \in Seq(Event), NEW e \in Event
  PROVE  /\ \A c \in DOMAIN events :
              LastMaskDecides(Append(events, e), c) <=>
                CASE e.type = "undo" /\ e.commitSeq = c -> FALSE
                  [] e.type = "redo"
                    /\ e.commitSeq = c -> events[c].type = "commit"
                  [] OTHER -> LastMaskDecides(events, c)
         /\ LastMaskDecides(Append(events, e), Len(events) + 1)
              <=> e.type = "commit"
<1> DEFINE longer == Append(events, e)
           n == Len(events) + 1
<1>1. /\ longer[n] = e /\ n \in Nat /\ DOMAIN events = 1 .. Len(events)
      /\ n \notin DOMAIN events
      /\ \A i \in DOMAIN events :
           longer[i] = events[i] /\ i <= n /\ i \in Nat /\ ~ n <= i
  OBVIOUS
<1>2. /\ \A c \in DOMAIN events :
           /\ MasksOf(longer, c)
                = MasksOf(events, c)
                    \cup (IF e.type \in {"undo", "redo"} /\ e.commitSeq = c
                          THEN {n} ELSE {})
           /\ MasksOf(events, c) \subseteq DOMAIN events
      /\ MasksOf(longer, n) = {}
  BY MasksGrow
<1> HIDE DEF longer, n
<1>3. LastMaskDecides(longer, n) <=> e.type = "commit"
  BY <1>1, <1>2 DEF LastMaskDecides
<1>4. ASSUME NEW c \in DOMAIN events,
                 ~ (e.type \in {"undo", "redo"} /\ e.commitSeq = c)
      PROVE  LastMaskDecides(longer, c) <=> LastMaskDecides(events, c)
  <2>1. MasksOf(longer, c) = MasksOf(events, c)  BY <1>2, <1>4
  <2>2. \A i \in MasksOf(events, c) : longer[i] = events[i]  BY <1>1, <1>2
  <2>3. longer[c] = events[c]  BY <1>1
  <2> QED BY <2>1, <2>2, <2>3 DEF LastMaskDecides
<1>5. ASSUME NEW c \in DOMAIN events, e.type \in {"undo", "redo"},
                 e.commitSeq = c
      PROVE  LastMaskDecides(longer, c) <=> e.type = "redo"
               /\ events[c].type = "commit"
  <2>1. MasksOf(longer, c) = MasksOf(events, c) \cup {n}  BY <1>2, <1>5
  <2>2. \A j \in MasksOf(longer, c) : j <= n  BY <1>1, <1>2, <2>1
  <2>3. \A i \in MasksOf(events, c) : ~ n <= i  BY <1>1, <1>2
  <2>4. longer[c] = events[c]  BY <1>1
  <2> QED BY <1>1, <2>1, <2>2, <2>3, <2>4 DEF LastMaskDecides
<1>6. "undo" # "redo"  OBVIOUS
<1>7. ASSUME NEW c \in DOMAIN events
      PROVE  LastMaskDecides(longer, c) <=>
                CASE e.type = "undo" /\ e.commitSeq = c -> FALSE
                  [] e.type = "redo"
                    /\ e.commitSeq = c -> events[c].type = "commit"
                  [] OTHER -> LastMaskDecides(events, c)
  <2>1. CASE e.type = "undo" /\ e.commitSeq = c  BY <2>1, <1>5
  <2>2. CASE e.type = "redo" /\ e.commitSeq = c  BY <2>2, <1>5
  <2>3. CASE ~ (e.type \in {"undo", "redo"} /\ e.commitSeq = c)
    BY <2>3, <1>4
  <2> QED BY <2>1, <2>2, <2>3
<1> QED BY <1>3, <1>7 DEF longer, n

\* What one more event commits, masks and unmasks.
LEMMA UnmaskedGrows ==
  ASSUME NEW s \in Seq(Event), NEW e \in Event
  PROVE  /\ e.type = "commit" =>
              Commitments(Append(s, e)) = Commitments(s) \cup {Len(s) + 1}
         /\ e.type # "commit" =>
              Commitments(Append(s, e)) = Commitments(s)
         /\ e.type = "commit" =>
              Unmasked(Append(s, e)) = Unmasked(s) \cup {Len(s) + 1}
         /\ e.type = "undo" =>
              Unmasked(Append(s, e)) = Unmasked(s) \ {e.commitSeq}
         /\ e.type = "redo" /\ e.commitSeq \in Commitments(s) =>
              Unmasked(Append(s, e)) = Unmasked(s) \cup {e.commitSeq}
         /\ e.type = "redo" /\ e.commitSeq \notin Commitments(s) =>
              Unmasked(Append(s, e)) = Unmasked(s)
         /\ e.type \notin {"commit", "undo", "redo"} =>
              Unmasked(Append(s, e)) = Unmasked(s)
         /\ Unmasked(s) \subseteq Commitments(s)
         /\ Commitments(s) \subseteq DOMAIN s
<1> DEFINE t == Append(s, e)
           n == Len(s) + 1
<1>1. /\ t \in Seq(Event) /\ DOMAIN t = DOMAIN s \cup {n} /\ t[n] = e
      /\ n \notin DOMAIN s /\ \A i \in DOMAIN s : t[i] = s[i]
  OBVIOUS
<1>2. \A c \in DOMAIN s :
        LastMaskDecides(t, c) <=>
          CASE e.type = "undo" /\ e.commitSeq = c -> FALSE
            [] e.type = "redo" /\ e.commitSeq = c -> s[c].type = "commit"
            [] OTHER -> LastMaskDecides(s, c)
  BY DecisionGrows
<1>3. LastMaskDecides(t, n) <=> e.type = "commit"
  BY DecisionGrows
<1> HIDE DEF t, n
<1>4. /\ e.type = "commit" => Commitments(t) = Commitments(s) \cup {n}
      /\ e.type # "commit" => Commitments(t) = Commitments(s)
  BY <1>1 DEF Commitments
<1>5. Unmasked(s) \subseteq Commitments(s) /\ Commitments(s) \subseteq DOMAIN s
  BY DEF Unmasked, Commitments, LastMaskDecides
<1>6. ASSUME e.type = "commit"  PROVE Unmasked(t) = Unmasked(s) \cup {n}
  BY <1>1, <1>2, <1>3, <1>6 DEF Unmasked
<1>7. ASSUME e.type = "undo"  PROVE Unmasked(t) = Unmasked(s) \ {e.commitSeq}
  BY <1>1, <1>2, <1>3, <1>7 DEF Unmasked
<1>8. ASSUME e.type = "redo"
      PROVE  Unmasked(t) = Unmasked(s) \cup ({e.commitSeq} \cap Commitments(s))
  <2>1. ASSUME NEW c \in DOMAIN s
        PROVE  LastMaskDecides(t, c) <=>
                 c \in Unmasked(s) \cup ({e.commitSeq} \cap Commitments(s))
    BY <1>2, <1>5, <1>8, <2>1 DEF Unmasked, Commitments
  <2>2. ~LastMaskDecides(t, n)  BY <1>3, <1>8
  <2>3. Unmasked(t) = {c \in DOMAIN s : LastMaskDecides(t, c)}
    BY <1>1, <2>2 DEF Unmasked
  <2> QED BY <1>5, <2>1, <2>3
<1>9. ASSUME e.type \notin {"commit", "undo", "redo"}
      PROVE  Unmasked(t) = Unmasked(s)
  BY <1>1, <1>2, <1>3, <1>9 DEF Unmasked
<1> QED BY <1>4, <1>5, <1>6, <1>7, <1>8, <1>9 DEF t, n

\* The walk has met the commits, and has those active that the last mask
\* leaves.
LEMMA WalkKeeps ==
  ASSUME NEW events \in Seq(Event), Numbered(events)
  PROVE  /\ Walks!Fold({}, [commits |-> {}, active |-> {}], events)
              = [commits |-> Commitments(events), active |-> Unmasked(events)]
         /\ ActiveSeqs(events) = Unmasked(events)
<1> DEFINE base == [commits |-> {}, active |-> {}]
           Walked(s) == Walks!Fold({}, base, s)
           Good(s) == Walked(s)
             = [commits |-> Commitments(s), active |-> Unmasked(s)]
           T == {s \in Seq(Event) : Numbered(s) => Good(s)}
<1>1. <<>> \in T
  <2> DEFINE none == <<>>
  <2>1. none \in Seq(Event) /\ DOMAIN none = {}  OBVIOUS
  <2>2. Walked(none) = base  BY Walks!FoldEmpty
  <2> HIDE DEF none, Walked
  <2>3. Good(none)  BY <2>1, <2>2 DEF Commitments, Unmasked
  <2>4. none \in T  BY <2>1, <2>3
  <2> QED BY <2>4 DEF none
<1>2. ASSUME NEW s \in Seq(Event), s \in T, NEW e \in Event
      PROVE Append(s, e) \in T
  <2> DEFINE t == Append(s, e)
             n == Len(s) + 1
             acc == [commits |-> Commitments(s), active |-> Unmasked(s)]
  <2> SUFFICES ASSUME Numbered(t)  PROVE Good(t)
    OBVIOUS
  <2>1. /\ t \in Seq(Event) /\ DOMAIN t = DOMAIN s \cup {n} /\ t[n] = e
        /\ n \notin DOMAIN s /\ \A i \in DOMAIN s : t[i] = s[i]
    OBVIOUS
  <2>2. Numbered(s) /\ e.seq = n  BY <2>1 DEF Numbered
  <2>3. Walked(s) = acc  BY <1>2, <2>2
  <2>4. Walked(t) = MaskStep(acc, e)
    <3> HIDE DEF acc
    <3> QED BY <2>3, Walks!FoldAppend
  <2>5. /\ e.type = "commit" => Commitments(t) = Commitments(s) \cup {n}
        /\ e.type # "commit" => Commitments(t) = Commitments(s)
        /\ e.type = "commit" => Unmasked(t) = Unmasked(s) \cup {n}
        /\ e.type = "undo" => Unmasked(t) = Unmasked(s) \ {e.commitSeq}
        /\ e.type = "redo" =>
             Unmasked(t) = IF e.commitSeq \in Commitments(s)
                           THEN Unmasked(s) \cup {e.commitSeq} ELSE Unmasked(s)
        /\ e.type \notin {"commit", "undo", "redo"} => Unmasked(t) = Unmasked(s)
        /\ Unmasked(s) \subseteq Commitments(s)
    BY UnmaskedGrows
  <2> HIDE DEF t, n, Walked
  <2>6. CASE e.type = "commit"
    BY <2>2, <2>4, <2>5, <2>6 DEF MaskStep
  <2>7. CASE e.type = "undo"
    <3>1. Unmasked(t) = IF e.commitSeq \in Commitments(s)
                        THEN Unmasked(s) \ {e.commitSeq} ELSE Unmasked(s)
      BY <2>5, <2>7
    <3>2. MaskStep(acc, e)
            = [commits |-> Commitments(s), active |-> Unmasked(t)]
      BY <2>7, <3>1 DEF MaskStep
    <3> QED BY <2>4, <2>5, <2>7, <3>2
  <2>8. CASE e.type = "redo"
    <3>1. MaskStep(acc, e)
            = [commits |-> Commitments(s), active |-> Unmasked(t)]
      BY <2>5, <2>8 DEF MaskStep
    <3> QED BY <2>4, <2>5, <2>8, <3>1
  <2>9. CASE e.type \notin {"commit", "undo", "redo"}
    <3>1. MaskStep(acc, e) = acc  BY <2>9 DEF MaskStep
    <3> QED BY <2>4, <2>5, <2>9, <3>1
  <2> QED BY <2>6, <2>7, <2>8, <2>9
<1>3. Seq(Event) \subseteq T
  <2> HIDE DEF T
  <2> QED BY <1>1, <1>2, Walks!SequencesGrow
<1>4. Walked(events)
        = [commits |-> Commitments(events), active |-> Unmasked(events)]
  BY <1>3
<1>5. FoldLeft(MaskStep, base, events) = Walked(events)
  BY DEF Walks!Fold, FoldLeft, MapThenFoldSet, Walks!FoldLeft,
         Walks!MapThenFoldSet,
         Max, Walks!Max
<1> QED BY <1>4, <1>5 DEF ActiveSeqs
-----------------------------------------------------------------------------
(* Logs that replay alike *)

\* R pairs the places I of s with the places J of t, in order, where the two
\* have the same text.
Matching(R, s, I, t, J) ==
  /\ \A p \in R : /\ p[1] \in I \cap DOMAIN s /\ p[2] \in J \cap DOMAIN t
                  /\ s[p[1]].text = t[p[2]].text
  /\ \A i \in I \cap DOMAIN s : \E p \in R : p[1] = i
  /\ \A j \in J \cap DOMAIN t : \E p \in R : p[2] = j
  /\ \A p, q \in R : p[1] < q[1] <=> p[2] < q[2]

\* A place that is not taken can be left out at the end.
LEMMA MatchingShrinks ==
  ASSUME NEW s \in Seq(Event), NEW e \in Event, NEW I,
         NEW t \in Seq(Event), NEW f \in Event, NEW J, NEW R
  PROVE  /\ Matching(R, Append(s, e), I, t, J) /\ Len(s) + 1 \notin I
              => Matching(R, s, I, t, J)
         /\ Matching(R, s, I, Append(t, f), J) /\ Len(t) + 1 \notin J
              => Matching(R, s, I, t, J)
         /\ Matching(R, Append(s, e), I, Append(t, f), J)
              /\ Len(s) + 1 \in I /\ Len(t) + 1 \in J
              => /\ e.text = f.text
                 /\ Matching({p \in R : p[1] # Len(s) + 1}, s, I, t, J)
<1> DEFINE m == Len(s) + 1
           n == Len(t) + 1
           ss == Append(s, e)
           tt == Append(t, f)
<1>1. /\ m \in Nat /\ DOMAIN ss = DOMAIN s \cup {m} /\ m \notin DOMAIN s
      /\ ss[m] = e
      /\ \A i \in DOMAIN s : ss[i] = s[i] /\ i \in Nat /\ i < m /\ ~ m < i
  OBVIOUS
<1>2. /\ n \in Nat /\ DOMAIN tt = DOMAIN t \cup {n} /\ n \notin DOMAIN t
      /\ tt[n] = f
      /\ \A i \in DOMAIN t : tt[i] = t[i] /\ i \in Nat /\ i < n /\ ~ n < i
  OBVIOUS
<1> HIDE DEF m, n, ss, tt
<1>3. ASSUME Matching(R, ss, I, t, J), m \notin I
      PROVE  Matching(R, s, I, t, J)
  BY <1>1, <1>3 DEF Matching
<1>4. ASSUME Matching(R, s, I, tt, J), n \notin J
      PROVE  Matching(R, s, I, t, J)
  BY <1>2, <1>4 DEF Matching
<1>5. ASSUME Matching(R, ss, I, tt, J), m \in I, n \in J
      PROVE  e.text = f.text /\ Matching({p \in R : p[1] # m}, s, I, t, J)
  <2>1. PICK p \in R : p[1] = m  BY <1>1, <1>5 DEF Matching
  <2>2. PICK q \in R : q[2] = n  BY <1>2, <1>5 DEF Matching
  <2>3. p[2] = n
    <3>1. p[2] \in DOMAIN tt /\ q[1] \in DOMAIN ss  BY <1>5 DEF Matching
    <3>2. p[1] < q[1] <=> p[2] < q[2]  BY <1>5 DEF Matching
    <3>3. ~ m < m  BY <1>1
    <3>4. ~ p[1] < q[1]  BY <1>1, <2>1, <3>1, <3>3
    <3> QED BY <1>2, <2>2, <3>1, <3>2, <3>4
  <2>4. e.text = f.text  BY <1>1, <1>2, <1>5, <2>1, <2>3 DEF Matching
  <2>5. ASSUME NEW r \in R  PROVE (r[1] # m) <=> (r[2] # n)
    <3>1. r[1] \in DOMAIN ss /\ r[2] \in DOMAIN tt  BY <1>5 DEF Matching
    <3>2. r[1] < m <=> r[2] < n  BY <1>5, <2>1, <2>3 DEF Matching
    <3>3. ~ m < m /\ ~ n < n  BY <1>1, <1>2
    <3> QED BY <1>1, <1>2, <3>1, <3>2, <3>3
  <2> DEFINE Rest == {r \in R : r[1] # m}
  <2>6. \A r \in Rest : r \in R /\ r[1] # m /\ r[2] # n  BY <2>5
  <2>7. \A r \in R : r[1] # m => r \in Rest  OBVIOUS
  <2> HIDE DEF Rest
  <2>8. Matching(Rest, s, I, t, J)
    <3>1. \A r \in Rest :
            /\ r[1] \in I \cap DOMAIN s /\ r[2] \in J \cap DOMAIN t
                          /\ s[r[1]].text = t[r[2]].text
      BY <1>1, <1>2, <1>5, <2>6 DEF Matching
    <3>2. \A i \in I \cap DOMAIN s : \E r \in Rest : r[1] = i
      BY <1>1, <1>5, <2>7 DEF Matching
    <3>3. \A j \in J \cap DOMAIN t : \E r \in Rest : r[2] = j
      BY <1>2, <1>5, <2>5, <2>7 DEF Matching
    <3>4. \A r, u \in Rest : r[1] < u[1] <=> r[2] < u[2]
      BY <1>5, <2>6 DEF Matching
    <3> QED BY <3>1, <3>2, <3>3, <3>4 DEF Matching
  <2> QED BY <2>4, <2>8 DEF Rest
<1> QED BY <1>3, <1>4, <1>5 DEF m, n, ss, tt

\* What is taken at matching places reads alike.
LEMMA MatchingAlike ==
  ASSUME NEW s \in Seq(Event), NEW I, NEW t \in Seq(Event), NEW J, NEW R,
         Matching(R, s, I, t, J)
  PROVE  Alike(Subsequence(s, I), Subsequence(t, J))
<1> DEFINE Good(x, y) == \A Q : Matching(Q, x, I, y, J)
                           => Alike(Subsequence(x, I), Subsequence(y, J))
           T == {n \in Nat : \A x, y \in Seq(Event) :
                   Len(x) + Len(y) <= n => Good(x, y)}
           none == <<>>
<1>0. /\ none \in Seq(Event) /\ Len(none) = 0 /\ DOMAIN none = {}
      /\ \A x \in Seq(Event) : Len(x) = 0 => x = none
      /\ Subsequence(none, I) = none /\ Subsequence(none, J) = none
      /\ \A x \in Seq(Event) : Len(x) # 0 =>
           \E y \in Seq(Event), e \in Event :
             x = Append(y, e) /\ Len(x) = Len(y) + 1
  <2>1. \A i : Subsequence(none, i) = none  BY SubsequenceEmpty
  <2>2. ASSUME NEW x \in Seq(Event), Len(x) # 0
        PROVE \E y \in Seq(Event), e \in Event :
                x = Append(y, e) /\ Len(x) = Len(y) + 1
    <3>1. PICK n \in Nat : Len(x) = n + 1  BY <2>2
    <3> DEFINE y == SubSeq(x, 1, n)
    <3>2. /\ y \in Seq(Event) /\ Len(y) = n /\ x[n + 1] \in Event
          /\ x = Append(y, x[n + 1])
      BY <3>1
    <3> HIDE DEF y
    <3> QED BY <3>1, <3>2
  <2>3. \A x \in Seq(Event) : Len(x) = 0 => x = none  OBVIOUS
  <2> QED BY <2>1, <2>2, <2>3
<1> HIDE DEF none
<1>14. Alike(none, none)  BY <1>0 DEF Alike
<1>1. 0 \in T
  <2>1. \A x, y \in Seq(Event) : Len(x) + Len(y) <= 0 => x = none /\ y = none
    BY <1>0
  <2> QED BY <1>0, <1>14, <2>1
<1>2. ASSUME NEW n \in Nat, n \in T  PROVE n + 1 \in T
  <2> SUFFICES ASSUME NEW x \in Seq(Event), NEW y \in Seq(Event),
                      Len(x) + Len(y) <= n + 1,
                      NEW Q, Matching(Q, x, I, y, J)
               PROVE  Alike(Subsequence(x, I), Subsequence(y, J))
    OBVIOUS
  <2>1. \A v, w \in Seq(Event) : Len(v) + Len(w) <= n => Good(v, w)
    BY <1>2
  <2> HIDE DEF T
  <2>2. CASE Len(x) # 0 /\ Len(x) \notin I
    <3>1. PICK v \in Seq(Event), e \in Event : x = Append(v, e)
                                               /\ Len(x) = Len(v) + 1
      BY <1>0, <2>2
    <3>2. Matching(Q, v, I, y, J)  BY <2>2, <3>1, MatchingShrinks
    <3>3. Len(v) + Len(y) <= n  BY <3>1
    <3>4. Subsequence(x, I) = Subsequence(v, I)
      BY <2>2, <3>1, SubsequenceGrows
    <3> QED BY <2>1, <3>2, <3>3, <3>4
  <2>3. CASE Len(y) # 0 /\ Len(y) \notin J
    <3>1. PICK w \in Seq(Event), f \in Event : y = Append(w, f)
                                               /\ Len(y) = Len(w) + 1
      BY <1>0, <2>3
    <3>2. Matching(Q, x, I, w, J)  BY <2>3, <3>1, MatchingShrinks
    <3>3. Len(x) + Len(w) <= n  BY <3>1
    <3>4. Subsequence(y, J) = Subsequence(w, J)
      BY <2>3, <3>1, SubsequenceGrows
    <3> QED BY <2>1, <3>2, <3>3, <3>4
  <2>4. CASE Len(x) # 0 /\ Len(x) \in I /\ Len(y) # 0 /\ Len(y) \in J
    <3>1. PICK v \in Seq(Event), e \in Event : x = Append(v, e)
                                               /\ Len(x) = Len(v) + 1
      BY <1>0, <2>4
    <3>2. PICK w \in Seq(Event), f \in Event : y = Append(w, f)
                                               /\ Len(y) = Len(w) + 1
      BY <1>0, <2>4
    <3>3. e.text = f.text
            /\ Matching({p \in Q : p[1] # Len(v) + 1}, v, I, w, J)
      <4>1. Matching(Q, Append(v, e), I, Append(w, f), J)  BY <3>1, <3>2
      <4>2. Len(v) + 1 \in I /\ Len(w) + 1 \in J  BY <2>4, <3>1, <3>2
      <4> QED BY <4>1, <4>2, MatchingShrinks, Zenon
    <3>4. Len(v) + Len(w) <= n  BY <3>1, <3>2
    <3>5. Alike(Subsequence(v, I), Subsequence(w, J))
      BY <2>1, <3>3, <3>4
    <3>6. /\ Subsequence(x, I) = Append(Subsequence(v, I), e)
          /\ Subsequence(y, J) = Append(Subsequence(w, J), f)
      BY <2>4, <3>1, <3>2, SubsequenceGrows
    <3>7. Subsequence(v, I) \in Seq(Event) /\ Subsequence(w, J) \in Seq(Event)
      BY SubsequenceHolds
    <3> QED BY <3>3, <3>5, <3>6, <3>7, AlikeGrows
  <2>5. CASE (Len(x) = 0 \/ Len(y) = 0)
               /\ (Len(x) # 0 => Len(x) \in I) /\ (Len(y) # 0 => Len(y) \in J)
    <3>1. Len(x) # 0 => Len(x) \in DOMAIN x  OBVIOUS
    <3>2. Len(y) # 0 => Len(y) \in DOMAIN y  OBVIOUS
    <3>3. Len(x) = 0 => Len(y) = 0
      BY <1>0, <2>5, <3>2 DEF Matching
    <3>4. Len(y) = 0 => Len(x) = 0
      BY <1>0, <2>5, <3>1 DEF Matching
    <3>5. x = none /\ y = none  BY <1>0, <2>5, <3>3, <3>4
    <3> QED BY <1>0, <1>14, <3>5
  <2> QED BY <2>2, <2>3, <2>4, <2>5
<1>3. Nat \subseteq T
  <2> HIDE DEF T
  <2> QED BY <1>1, <1>2, Walks!Induction
<1>4. Len(s) + Len(t) \in T  BY <1>3
<1> QED BY <1>4

\* Two logs whose commits are paired in order: commits of a pair have the same
\* text, and both count or neither does.
Twins(R, s, t) ==
  /\ Numbered(s) /\ Numbered(t)
  /\ Matching(R, s, Commitments(s), t, Commitments(t))
  /\ \A p \in R : p[1] \in Unmasked(s) <=> p[2] \in Unmasked(t)

\* Twins replay to the same edits.
LEMMA TwinsReplay ==
  ASSUME NEW s \in Seq(Event), NEW t \in Seq(Event), NEW R, Twins(R, s, t)
  PROVE  ReplayEdits(s) = ReplayEdits(t)
<1>1. ASSUME NEW log \in Seq(Event), Numbered(log)
      PROVE  /\ ActiveCommitEvents(log) = Subsequence(log, Unmasked(log))
             /\ ActiveCommitEvents(log) \in Seq(Event)
             /\ Unmasked(log) \subseteq Commitments(log)
  <2>1. ActiveSeqs(log) = Unmasked(log)  BY <1>1, WalkKeeps
  <2>2. Unmasked(log) \subseteq DOMAIN log  BY DEF Unmasked
  <2>3. {i \in DOMAIN log : log[i].seq \in ActiveSeqs(log)} = Unmasked(log)
    BY <1>1, <2>1, <2>2 DEF Numbered
  <2>4. Unmasked(log) \subseteq Commitments(log)
    BY DEF Unmasked, Commitments, LastMaskDecides
  <2> QED BY <2>3, <2>4, SubsequenceHolds DEF ActiveCommitEvents
<1> DEFINE Q == {p \in R : p[1] \in Unmasked(s)}
           a == ActiveCommitEvents(s)
           b == ActiveCommitEvents(t)
<1>2. Matching(Q, s, Unmasked(s), t, Unmasked(t))
  <2>1. Unmasked(s) \subseteq Commitments(s)
          /\ Unmasked(t) \subseteq Commitments(t)
    BY <1>1 DEF Twins
  <2>2. \A p \in Q : p \in R /\ p[1] \in Unmasked(s) /\ p[2] \in Unmasked(t)
    BY DEF Twins
  <2>3. \A p \in R : p[1] \in Unmasked(s) \/ p[2] \in Unmasked(t) => p \in Q
    BY DEF Twins
  <2> HIDE DEF Q
  <2> QED BY <2>1, <2>2, <2>3 DEF Twins, Matching
<1>3. Alike(a, b) /\ a \in Seq(Event) /\ b \in Seq(Event)
  BY <1>1, <1>2, MatchingAlike DEF Twins
<1> HIDE DEF a, b
<1> DEFINE I == {i \in DOMAIN a : a[i].text # NoText}
           J == {i \in DOMAIN b : b[i].text # NoText}
<1>4. I = J
  <2>1. DOMAIN a = DOMAIN b  BY <1>3 DEF Alike
  <2> QED BY <1>3, <2>1 DEF Alike
<1>5. Alike(Subsequence(a, I), Subsequence(b, I))
      /\ Subsequence(a, I) \in Seq(Event) /\ Subsequence(b, I) \in Seq(Event)
  BY <1>3, SubsequencesAlike, SubsequenceHolds
<1>6. DOMAIN Subsequence(a, I) = DOMAIN Subsequence(b, I)
  BY <1>5 DEF Alike
<1>7. [i \in DOMAIN Subsequence(a, I) |-> Subsequence(a, I)[i].text]
        = [i \in DOMAIN Subsequence(b, I) |-> Subsequence(b, I)[i].text]
  <2> HIDE DEF I
  <2> QED BY <1>5, <1>6 DEF Alike
<1>8. ReplayEdits(s)
        = [i \in DOMAIN Subsequence(a, I) |-> Subsequence(a, I)[i].text]
  BY DEF ReplayEdits, a
<1>9. ReplayEdits(t)
        = [i \in DOMAIN Subsequence(b, J) |-> Subsequence(b, J)[i].text]
  BY DEF ReplayEdits, b
<1> QED BY <1>4, <1>7, <1>8, <1>9

\* Nothing is the twin of nothing.
LEMMA TwinsEmpty == Twins({}, <<>>, <<>>)
<1> DEFINE none == <<>>
<1>1. DOMAIN none = {}  OBVIOUS
<1> HIDE DEF none
<1>2. Twins({}, none, none)
  BY <1>1 DEF Twins, Matching, Numbered, Commitments, Unmasked
<1> QED BY <1>2 DEF none

\* Pairs stay pairs when both logs go on with commits of one text.
LEMMA TwinsCommit ==
  ASSUME NEW s \in Seq(Event), NEW t \in Seq(Event), NEW R, Twins(R, s, t),
         NEW d \in Event, d.type = "commit", d.seq = Len(s) + 1,
         NEW e \in Event, e.type = "commit", e.seq = Len(t) + 1,
         d.text = e.text
  PROVE  Twins(R \cup {<<Len(s) + 1, Len(t) + 1>>}, Append(s, d), Append(t, e))
<1> DEFINE ss == Append(s, d)
           tt == Append(t, e)
           m == Len(s) + 1
           n == Len(t) + 1
           pair == <<m, n>>
<1>1. /\ DOMAIN ss = DOMAIN s \cup {m} /\ ss[m] = d /\ m \in Nat
      /\ \A i \in DOMAIN s : ss[i] = s[i] /\ i \in Nat /\ i < m /\ ~ m < i
      /\ ~ m < m
  OBVIOUS
<1>2. /\ DOMAIN tt = DOMAIN t \cup {n} /\ tt[n] = e /\ n \in Nat
      /\ \A i \in DOMAIN t : tt[i] = t[i] /\ i \in Nat /\ i < n /\ ~ n < i
      /\ ~ n < n
  OBVIOUS
<1>3. /\ Commitments(ss) = Commitments(s) \cup {m}
      /\ Unmasked(ss) = Unmasked(s) \cup {m}
      /\ Commitments(s) \subseteq DOMAIN s /\ Unmasked(s) \subseteq DOMAIN s
  BY UnmaskedGrows
<1>4. /\ Commitments(tt) = Commitments(t) \cup {n}
      /\ Unmasked(tt) = Unmasked(t) \cup {n}
      /\ Commitments(t) \subseteq DOMAIN t /\ Unmasked(t) \subseteq DOMAIN t
  BY UnmaskedGrows
<1>5. pair[1] = m /\ pair[2] = n  OBVIOUS
<1>6. d.seq = m /\ e.seq = n  OBVIOUS
<1> HIDE DEF ss, tt, m, n, pair
<1>7. Numbered(ss) /\ Numbered(tt)
  BY <1>1, <1>2, <1>6 DEF Twins, Numbered
<1>8. \A p \in R : /\ p[1] \in Commitments(s) /\ p[1] \in DOMAIN s
                   /\ p[2] \in Commitments(t) /\ p[2] \in DOMAIN t
                   /\ s[p[1]].text = t[p[2]].text
                   /\ p[1] \in Unmasked(s) <=> p[2] \in Unmasked(t)
  BY DEF Twins, Matching
<1> DEFINE Q == R \cup {pair}
<1>9. \A p \in Q : p \in R \/ p = pair  OBVIOUS
<1>10. pair \in Q /\ R \subseteq Q  OBVIOUS
<1> HIDE DEF Q
<1>11. Matching(Q, ss, Commitments(ss), tt, Commitments(tt))
  <2>1. \A p \in Q : /\ p[1] \in Commitments(ss) \cap DOMAIN ss
                     /\ p[2] \in Commitments(tt) \cap DOMAIN tt
                     /\ ss[p[1]].text = tt[p[2]].text
    BY <1>1, <1>2, <1>3, <1>4, <1>5, <1>8, <1>9
  <2>2. \A i \in Commitments(ss) \cap DOMAIN ss : \E p \in Q : p[1] = i
    BY <1>3, <1>5, <1>10 DEF Twins, Matching
  <2>3. \A j \in Commitments(tt) \cap DOMAIN tt : \E p \in Q : p[2] = j
    BY <1>4, <1>5, <1>10 DEF Twins, Matching
  <2>4. \A p, q \in R : p[1] < q[1] <=> p[2] < q[2]
    BY DEF Twins, Matching
  <2>5. \A p \in R : /\ p[1] < m /\ ~ m < p[1] /\ p[2] < n /\ ~ n < p[2]
    BY <1>1, <1>2, <1>8
  <2>6. \A p, q \in Q : p[1] < q[1] <=> p[2] < q[2]
    BY <1>1, <1>2, <1>5, <1>9, <2>4, <2>5
  <2> QED BY <2>1, <2>2, <2>3, <2>6 DEF Matching
<1>12. \A p \in Q : p[1] \in Unmasked(ss) <=> p[2] \in Unmasked(tt)
  <2>1. \A p \in R : p[1] # m /\ p[2] # n  BY <1>1, <1>2, <1>8
  <2> QED BY <1>3, <1>4, <1>5, <1>8, <1>9, <2>1
<1>13. Twins(Q, ss, tt)  BY <1>7, <1>11, <1>12 DEF Twins
<1> QED BY <1>13 DEF Q, ss, tt, m, n, pair

\* An event that commits nothing and masks no commit of the log.
Idle(s, e) ==
  /\ e.type # "commit"
  /\ e.type \in {"undo", "redo"} => e.commitSeq \notin Commitments(s)

\* The longer log has the commits of the other, and the same of them count.
Unmoved(s, longer) ==
  /\ Numbered(longer)
  /\ DOMAIN s \subseteq DOMAIN longer
  /\ \A i \in DOMAIN s : longer[i] = s[i]
  /\ Commitments(longer) = Commitments(s)
  /\ Unmasked(longer) = Unmasked(s)

\* An idle event moves nothing.
LEMMA IdleUnmoved ==
  ASSUME NEW s \in Seq(Event), Numbered(s),
         NEW e \in Event, Idle(s, e), e.seq = Len(s) + 1
  PROVE  Unmoved(s, Append(s, e))
<1>1. /\ DOMAIN Append(s, e) = DOMAIN s \cup {Len(s) + 1}
      /\ Append(s, e)[Len(s) + 1] = e
      /\ \A i \in DOMAIN s : Append(s, e)[i] = s[i]
  OBVIOUS
<1>2. Numbered(Append(s, e))  BY <1>1 DEF Numbered
<1>3. /\ Commitments(Append(s, e)) = Commitments(s)
      /\ Unmasked(Append(s, e)) = Unmasked(s)
  <2>1. e.type = "undo" => Unmasked(s) \ {e.commitSeq} = Unmasked(s)
    BY UnmaskedGrows DEF Idle
  <2> QED BY <2>1, UnmaskedGrows DEF Idle
<1> QED BY <1>1, <1>2, <1>3 DEF Unmoved

\* Twins stay twins when nothing in either moves.
LEMMA TwinsUnmoved ==
  ASSUME NEW R, NEW s, NEW t, Twins(R, s, t), NEW ss, NEW tt,
         ss = s \/ Unmoved(s, ss), tt = t \/ Unmoved(t, tt)
  PROVE  Twins(R, ss, tt)
<1>1. /\ Numbered(ss) /\ DOMAIN s \subseteq DOMAIN ss
      /\ \A i \in DOMAIN s : ss[i] = s[i]
      /\ Commitments(ss) = Commitments(s) /\ Unmasked(ss) = Unmasked(s)
  BY DEF Unmoved, Twins
<1>2. /\ Numbered(tt) /\ DOMAIN t \subseteq DOMAIN tt
      /\ \A i \in DOMAIN t : tt[i] = t[i]
      /\ Commitments(tt) = Commitments(t) /\ Unmasked(tt) = Unmasked(t)
  BY DEF Unmoved, Twins
<1>3. Commitments(s) \subseteq DOMAIN s /\ Commitments(t) \subseteq DOMAIN t
  BY DEF Commitments
<1>4. Matching(R, ss, Commitments(ss), tt, Commitments(tt))
  <2>1. \A p \in R : /\ p[1] \in Commitments(ss) \cap DOMAIN ss
                     /\ p[2] \in Commitments(tt) \cap DOMAIN tt
                     /\ ss[p[1]].text = tt[p[2]].text
    BY <1>1, <1>2 DEF Twins, Matching
  <2>2. \A i \in Commitments(ss) \cap DOMAIN ss : \E p \in R : p[1] = i
    BY <1>1, <1>3 DEF Twins, Matching
  <2>3. \A j \in Commitments(tt) \cap DOMAIN tt : \E p \in R : p[2] = j
    BY <1>2, <1>3 DEF Twins, Matching
  <2> QED BY <2>1, <2>2, <2>3 DEF Twins, Matching
<1> QED BY <1>1, <1>2, <1>4 DEF Twins

\* Twins stay twins when both logs mask, or unmask, the commits of one pair.
LEMMA TwinsMask ==
  ASSUME NEW s \in Seq(Event), NEW t \in Seq(Event), NEW R, Twins(R, s, t),
         NEW d \in Event, d.type \in {"undo", "redo"}, d.seq = Len(s) + 1,
         NEW e \in Event, e.type = d.type, e.seq = Len(t) + 1,
         <<d.commitSeq, e.commitSeq>> \in R
  PROVE  Twins(R, Append(s, d), Append(t, e))
<1> DEFINE ss == Append(s, d)
           tt == Append(t, e)
           c == d.commitSeq
           k == e.commitSeq
<1>1. /\ DOMAIN ss = DOMAIN s \cup {Len(s) + 1} /\ ss[Len(s) + 1] = d
      /\ \A i \in DOMAIN s : ss[i] = s[i] /\ i \in Nat
  OBVIOUS
<1>2. /\ DOMAIN tt = DOMAIN t \cup {Len(t) + 1} /\ tt[Len(t) + 1] = e
      /\ \A i \in DOMAIN t : tt[i] = t[i] /\ i \in Nat
  OBVIOUS
<1>3. \A p \in R : /\ p[1] \in Commitments(s) /\ p[1] \in DOMAIN s
                   /\ p[2] \in Commitments(t) /\ p[2] \in DOMAIN t
                   /\ s[p[1]].text = t[p[2]].text
                   /\ p[1] \in Unmasked(s) <=> p[2] \in Unmasked(t)
  BY DEF Twins, Matching
<1>4. c \in Commitments(s) /\ k \in Commitments(t)  BY <1>3
<1>5. /\ Commitments(ss) = Commitments(s)
      /\ d.type = "undo" => Unmasked(ss) = Unmasked(s) \ {c}
      /\ d.type = "redo" => Unmasked(ss) = Unmasked(s) \cup {c}
      /\ Commitments(s) \subseteq DOMAIN s
  BY <1>4, UnmaskedGrows
<1>6. /\ Commitments(tt) = Commitments(t)
      /\ d.type = "undo" => Unmasked(tt) = Unmasked(t) \ {k}
      /\ d.type = "redo" => Unmasked(tt) = Unmasked(t) \cup {k}
      /\ Commitments(t) \subseteq DOMAIN t
  BY <1>4, UnmaskedGrows
<1>7. ASSUME NEW p \in R  PROVE p[1] = c <=> p[2] = k
  <2>1. p[1] \in Nat /\ p[2] \in Nat /\ c \in Nat /\ k \in Nat
    BY <1>1, <1>2, <1>3, <1>4, <1>5, <1>6
  <2> DEFINE q == <<c, k>>
  <2>2. q \in R /\ q[1] = c /\ q[2] = k  OBVIOUS
  <2> HIDE DEF q, c, k
  <2>3. (p[1] < c <=> p[2] < k) /\ (c < p[1] <=> k < p[2])
    BY <2>2 DEF Twins, Matching
  <2> QED BY <2>1, <2>3
<1>8. Numbered(ss) /\ Numbered(tt)
  BY <1>1, <1>2 DEF Twins, Numbered
<1> HIDE DEF ss, tt, c, k
<1>9. Matching(R, ss, Commitments(ss), tt, Commitments(tt))
  <2>1. \A p \in R : /\ p[1] \in Commitments(ss) \cap DOMAIN ss
                     /\ p[2] \in Commitments(tt) \cap DOMAIN tt
                     /\ ss[p[1]].text = tt[p[2]].text
    BY <1>1, <1>2, <1>3, <1>5, <1>6
  <2>2. \A i \in Commitments(ss) \cap DOMAIN ss : \E p \in R : p[1] = i
    BY <1>5 DEF Twins, Matching
  <2>3. \A j \in Commitments(tt) \cap DOMAIN tt : \E p \in R : p[2] = j
    BY <1>6 DEF Twins, Matching
  <2>4. \A p, q \in R : p[1] < q[1] <=> p[2] < q[2]
    BY DEF Twins, Matching
  <2> QED BY <2>1, <2>2, <2>3, <2>4 DEF Matching
<1>10. \A p \in R : p[1] \in Unmasked(ss) <=> p[2] \in Unmasked(tt)
  BY <1>3, <1>5, <1>6, <1>7
<1>11. Twins(R, ss, tt)  BY <1>8, <1>9, <1>10 DEF Twins
<1> QED BY <1>11 DEF ss, tt
=============================================================================
