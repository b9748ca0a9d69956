---------------------------- MODULE FoldTheorems ----------------------------
(***************************************************************************)
(* What a left fold over a sequence computes, and what a sort by rank      *)
(* lists. The step of the fold is a parameter of the module, so that the   *)
(* theorems hold of every fold there is an instance for; it may depend on  *)
(* a context besides what it has accumulated and the element it is at.     *)
(*                                                                         *)
(* Induction is stated with a set instead of a predicate, for the provers  *)
(* have no operators to instantiate a predicate with: to show P of every   *)
(* number, cite it for {n \in Nat : P(n)}.                                 *)
(***************************************************************************)
EXTENDS Integers, SequencesExt, WellFoundedInduction, FiniteSetTheorems,
        Sorting, TLAPS

CONSTANT Step(_, _, _)    \* of a context, what is accumulated, an element

Fold(c, base, s) == FoldLeft(LAMBDA a, e : Step(c, a, e), base, s)
-----------------------------------------------------------------------------
(* Numbers. *)

\* A set of numbers that is not empty has a least one.
LEMMA LeastNat ==
  ASSUME NEW S \in SUBSET Nat, S # {}
  PROVE  \E m \in S : \A x \in S : m <= x
<1> DEFINE Less == {p \in Nat \X Nat : p[1] < p[2]}
<1>1. OpToRel(<, Nat) = Less  BY Zenon DEF OpToRel
<1>2. IsWellFoundedOn(Less, Nat)  BY <1>1, NatLessThanWellFounded, Zenon
<1>3. PICK m \in S : \A x \in S : <<x, m>> \notin Less
  <2> HIDE DEF Less
  <2>1. QED  BY <1>2, WFMin
<1>4. ASSUME NEW x \in S  PROVE m <= x
  <2>1. x \in Nat /\ m \in Nat  OBVIOUS
  <2>2. ~ x < m  BY <1>3, <2>1
  <2>3. QED  BY <2>1, <2>2
<1>5. QED  BY <1>4

\* Induction over the numbers.
THEOREM Induction ==
  ASSUME NEW T, 0 \in T, \A n \in Nat : n \in T => n + 1 \in T
  PROVE  Nat \subseteq T
<1> DEFINE Rest == Nat \ T
<1>1. SUFFICES ASSUME Rest # {}  PROVE FALSE  OBVIOUS
<1>2. PICK m \in Rest : \A x \in Rest : m <= x
  <2>1. Rest \in SUBSET Nat  OBVIOUS
  <2> HIDE DEF Rest
  <2>2. QED  BY <1>1, <2>1, LeastNat
<1>3. m # 0 /\ m \in Nat  OBVIOUS
<1>4. m - 1 \in Nat /\ m - 1 \notin Rest  BY <1>2, <1>3
<1>5. m \in T  BY <1>3, <1>4
<1>6. QED  BY <1>5

\* The last element of an interval, and what is before it.
LEMMA Interval ==
  ASSUME NEW k \in Nat
  PROVE  /\ 1 .. k + 1 # {} /\ Max(1 .. k + 1) = k + 1
         /\ (1 .. k + 1) \ {k + 1} = 1 .. k
         /\ 1 .. 0 = {}
<1>1. k + 1 \in 1 .. k + 1 /\ \A y \in 1 .. k + 1 : y <= k + 1  OBVIOUS
<1>2. \A x \in 1 .. k + 1 : (\A y \in 1 .. k + 1 : y <= x) => x = k + 1
  BY <1>1
<1>3. Max(1 .. k + 1) = k + 1  BY <1>1, <1>2 DEF Max
<1>4. QED  BY <1>3
-----------------------------------------------------------------------------
(* The recursive function a fold goes by is there. *)

IsIter(g, c, base, s, n) ==
  g = [S \in SUBSET (1 .. n) |->
         IF S = {} THEN base ELSE Step(c, g[S \ {Max(S)}], s[Max(S)])]

\* There is a function that iterates over any first elements.
LEMMA IterExists ==
  ASSUME NEW c, NEW base, NEW s, NEW n \in Nat
  PROVE  \E g : IsIter(g, c, base, s, n)
<1> DEFINE T == {k \in Nat : \E g : IsIter(g, c, base, s, k)}
<1>1. 0 \in T
  <2> DEFINE g == [S \in SUBSET (1 .. 0) |-> base]
  <2>1. \A S \in SUBSET (1 .. 0) : S = {}  OBVIOUS
  <2>2. g = [S \in SUBSET (1 .. 0) |->
               IF S = {} THEN base ELSE Step(c, g[S \ {Max(S)}], s[Max(S)])]
    BY <2>1
  <2>3. QED  BY <2>2 DEF IsIter
<1>2. ASSUME NEW k \in Nat, k \in T  PROVE k + 1 \in T
  <2>1. PICK g : IsIter(g, c, base, s, k)  BY <1>2
  <2> DEFINE h == [S \in SUBSET (1 .. k + 1) |->
                     IF k + 1 \in S THEN Step(c, g[S \ {k + 1}], s[k + 1])
                     ELSE g[S]]
             hh == [S \in SUBSET (1 .. k + 1) |->
                      IF S = {} THEN base ELSE Step(c, h[S \ {Max(S)}], s[Max(S)])]
  <2>2. ASSUME NEW S \in SUBSET (1 .. k + 1)  PROVE h[S] = hh[S]
    <3>1. CASE k + 1 \in S
      <4>1. \A y \in S : y <= k + 1  OBVIOUS
      <4>2. \A x \in S : (\A y \in S : y <= x) => x = k + 1  BY <3>1, <4>1
      <4>3. Max(S) = k + 1  BY <3>1, <4>1, <4>2 DEF Max
      <4>4. h[S] = Step(c, g[S \ {k + 1}], s[k + 1])  BY <3>1
      <4>5. S \ {k + 1} \in SUBSET (1 .. k + 1)  OBVIOUS
      <4>6. h[S \ {k + 1}] = g[S \ {k + 1}]  BY <4>5
      <4>7. hh[S] = Step(c, h[S \ {k + 1}], s[k + 1])  BY <3>1, <4>3
      <4> HIDE DEF h, hh
      <4>8. QED  BY <4>4, <4>6, <4>7
    <3>2. CASE k + 1 \notin S
      <4>1. S \in SUBSET (1 .. k)  BY <3>2
      <4>2. g[S] = IF S = {} THEN base ELSE Step(c, g[S \ {Max(S)}], s[Max(S)])
        BY <2>1, <4>1 DEF IsIter
      <4>3. h[S] = g[S]  BY <3>2
      <4>4. S \ {Max(S)} \in SUBSET (1 .. k + 1) /\ k + 1 \notin S \ {Max(S)}
        BY <3>2
      <4>5. h[S \ {Max(S)}] = g[S \ {Max(S)}]  BY <4>4
      <4>6. hh[S] = IF S = {} THEN base ELSE Step(c, h[S \ {Max(S)}], s[Max(S)])
        OBVIOUS
      <4> HIDE DEF h, hh
      <4>7. QED  BY <4>2, <4>3, <4>5, <4>6
    <3>3. QED  BY <3>1, <3>2
  <2>3. h = hh
    <3> DEFINE D == SUBSET (1 .. k + 1)
    <3>1. h = [S \in D |-> h[S]] /\ hh = [S \in D |-> hh[S]]  OBVIOUS
    <3> HIDE DEF h, hh
    <3>2. QED  BY <2>2, <3>1
  <2>4. IsIter(h, c, base, s, k + 1)
    <3> HIDE DEF h
    <3>1. QED  BY <2>3 DEF IsIter
  <2>5. QED  BY <2>4
<1>3. Nat \subseteq T
  <2> HIDE DEF T
  <2>1. QED  BY <1>1, <1>2, Induction
<1>4. QED  BY <1>3

Iter(c, base, s) == CHOOSE g : IsIter(g, c, base, s, Len(s))

\* A fold is that function at the whole sequence.
LEMMA FoldIsIter ==
  ASSUME NEW S, NEW s \in Seq(S), NEW c, NEW base
  PROVE  /\ Fold(c, base, s) = Iter(c, base, s)[1 .. Len(s)]
         /\ IsIter(Iter(c, base, s), c, base, s, Len(s))
<1>1. DOMAIN s = 1 .. Len(s) /\ Len(s) \in Nat  OBVIOUS
<1>2. IsIter(Iter(c, base, s), c, base, s, Len(s))
  BY <1>1, IterExists DEF Iter
<1>3. Fold(c, base, s)
        = (CHOOSE g : g = [D \in SUBSET DOMAIN s |->
             IF D = {} THEN base ELSE Step(c, g[D \ {Max(D)}], s[Max(D)])])[DOMAIN s]
  BY DEF Fold, FoldLeft, MapThenFoldSet
<1>4. QED  BY <1>1, <1>2, <1>3 DEF Iter, IsIter

\* g goes over the first n elements of s one by one.
Goes(g, c, base, s, n) ==
  /\ g[1 .. 0] = base
  /\ \A k \in Nat : k < n => g[1 .. k + 1] = Step(c, g[1 .. k], s[k + 1])

\* What it does with one more element.
LEMMA IterStep ==
  ASSUME NEW n \in Nat, NEW s, NEW c, NEW base, NEW g, IsIter(g, c, base, s, n)
  PROVE  Goes(g, c, base, s, n)
<1>1. \A D \in SUBSET (1 .. n) :
        g[D] = IF D = {} THEN base ELSE Step(c, g[D \ {Max(D)}], s[Max(D)])
  <2> DEFINE gg == [D \in SUBSET (1 .. n) |->
                 IF D = {} THEN base ELSE Step(c, g[D \ {Max(D)}], s[Max(D)])]
  <2>1. \A D \in SUBSET (1 .. n) :
          gg[D] = IF D = {} THEN base ELSE Step(c, g[D \ {Max(D)}], s[Max(D)])
    OBVIOUS
  <2>2. g = gg  BY DEF IsIter
  <2> HIDE DEF gg
  <2>3. QED  BY <2>1, <2>2
<1>2. g[1 .. 0] = base
  <2> DEFINE D == 1 .. 0
  <2>1. D = {} /\ D \in SUBSET (1 .. n)  OBVIOUS
  <2> HIDE DEF D
  <2>2. g[D] = base  BY <1>1, <2>1
  <2>3. QED  BY <2>2 DEF D
<1>3. ASSUME NEW k \in Nat, k < n
      PROVE  g[1 .. k + 1] = Step(c, g[1 .. k], s[k + 1])
  <2>1. 1 .. k + 1 \in SUBSET (1 .. n)  BY <1>3
  <2> DEFINE D == 1 .. k + 1
  <2>2. D # {} /\ Max(D) = k + 1 /\ D \ {k + 1} = 1 .. k  BY Interval
  <2>3. D \in SUBSET (1 .. n)  BY <2>1
  <2> HIDE DEF D
  <2>4. g[D] = Step(c, g[1 .. k], s[k + 1])  BY <1>1, <2>2, <2>3
  <2>5. QED  BY <2>4 DEF D
<1>4. QED  BY <1>2, <1>3 DEF Goes
-----------------------------------------------------------------------------
(* Folds. *)

\* A fold over nothing is what it starts with.
THEOREM FoldEmpty ==
  ASSUME NEW c, NEW base  PROVE Fold(c, base, <<>>) = base
<1> DEFINE s == <<>>
<1>1. s \in Seq({}) /\ Len(s) = 0  OBVIOUS
<1> HIDE DEF s
<1>2. /\ Fold(c, base, s) = Iter(c, base, s)[1 .. 0]
      /\ IsIter(Iter(c, base, s), c, base, s, 0)
  BY <1>1, FoldIsIter
<1>3. Goes(Iter(c, base, s), c, base, s, 0)  BY <1>2, IterStep
<1>4. Iter(c, base, s)[1 .. 0] = base  BY <1>3, Zenon DEF Goes
<1>5. QED  BY <1>2, <1>4 DEF s

\* The last element is the last step.
THEOREM FoldAppend ==
  ASSUME NEW S, NEW s \in Seq(S), NEW e \in S, NEW c, NEW base
  PROVE  Fold(c, base, Append(s, e)) = Step(c, Fold(c, base, s), e)
<1> DEFINE t == Append(s, e)
           n == Len(s)
           g == Iter(c, base, s)
           h == Iter(c, base, t)
<1>1. /\ t \in Seq(S) /\ n \in Nat /\ Len(t) = n + 1 /\ t[n + 1] = e
      /\ \A k \in 1 .. n : t[k] = s[k]
  OBVIOUS
<1> HIDE DEF t, n
<1>2. /\ Fold(c, base, s) = g[1 .. n] /\ IsIter(g, c, base, s, n)
      /\ Fold(c, base, t) = h[1 .. n + 1] /\ IsIter(h, c, base, t, n + 1)
  <2>1. Fold(c, base, s) = g[1 .. n] /\ IsIter(g, c, base, s, n)
    BY FoldIsIter DEF n
  <2>2. Fold(c, base, t) = h[1 .. n + 1] /\ IsIter(h, c, base, t, n + 1)
    BY <1>1, FoldIsIter
  <2>3. QED  BY <2>1, <2>2
<1> HIDE DEF g, h
<1>3. /\ g[1 .. 0] = base
      /\ \A k \in Nat : k < n => g[1 .. k + 1] = Step(c, g[1 .. k], s[k + 1])
  <2>1. n \in Nat /\ IsIter(g, c, base, s, n)  BY <1>1, <1>2
  <2>2. Goes(g, c, base, s, n)  BY <2>1, IterStep, Zenon
  <2>3. QED  BY <2>2, Zenon DEF Goes
<1>4. /\ h[1 .. 0] = base
      /\ \A k \in Nat : k < n + 1 => h[1 .. k + 1] = Step(c, h[1 .. k], t[k + 1])
  <2>1. n + 1 \in Nat /\ IsIter(h, c, base, t, n + 1)  BY <1>1, <1>2
  <2>2. Goes(h, c, base, t, n + 1)  BY <2>1, IterStep, Zenon
  <2>3. QED  BY <2>2, Zenon DEF Goes
<1> DEFINE T == {k \in Nat : k <= n => g[1 .. k] = h[1 .. k]}
<1>5. 0 \in T  BY <1>3, <1>4
<1>6. ASSUME NEW k \in Nat, k \in T  PROVE k + 1 \in T
  <2>1. SUFFICES ASSUME k + 1 <= n  PROVE g[1 .. k + 1] = h[1 .. k + 1]
    OBVIOUS
  <2>2. k < n /\ k < n + 1 /\ k + 1 \in 1 .. n  BY <1>1, <2>1
  <2>3. g[1 .. k] = h[1 .. k]  BY <1>1, <1>6, <2>2
  <2>4. t[k + 1] = s[k + 1]  BY <1>1, <2>2
  <2>5. QED  BY <1>3, <1>4, <2>2, <2>3, <2>4
<1>7. Nat \subseteq T
  <2> HIDE DEF T
  <2>1. QED  BY <1>5, <1>6, Induction
<1>8. g[1 .. n] = h[1 .. n]  BY <1>1, <1>7
<1>9. h[1 .. n + 1] = Step(c, h[1 .. n], e)  BY <1>1, <1>4
<1>10. QED  BY <1>2, <1>8, <1>9 DEF t

\* Induction over sequences: T has the empty one, and with a sequence all that
\* are longer by one.
THEOREM SequencesGrow ==
  ASSUME NEW S, NEW T, <<>> \in T,
         \A s \in Seq(S) : s \in T => \A e \in S : Append(s, e) \in T
  PROVE  Seq(S) \subseteq T
<1> DEFINE N == {n \in Nat : \A s \in Seq(S) : Len(s) = n => s \in T}
<1>1. 0 \in N
  <2>1. \A s \in Seq(S) : Len(s) = 0 => s = <<>>  OBVIOUS
  <2>2. QED  BY <2>1
<1>2. ASSUME NEW n \in Nat, n \in N  PROVE n + 1 \in N
  <2>1. SUFFICES ASSUME NEW s \in Seq(S), Len(s) = n + 1  PROVE s \in T
    OBVIOUS
  <2> DEFINE front == SubSeq(s, 1, n)
  <2>2. front \in Seq(S) /\ Len(front) = n /\ s[n + 1] \in S  BY <2>1
  <2>3. s = Append(front, s[n + 1])  BY <2>1
  <2> HIDE DEF front
  <2>4. front \in T  BY <1>2, <2>2
  <2>5. QED  BY <2>2, <2>3, <2>4
<1>3. Nat \subseteq N
  <2> HIDE DEF N
  <2>1. QED  BY <1>1, <1>2, Induction
<1>4. QED  BY <1>3

\* What every step keeps, the fold keeps.
THEOREM FoldKeeps ==
  ASSUME NEW S, NEW s \in Seq(S), NEW c, NEW A, NEW base \in A,
         \A a \in A, e \in S : Step(c, a, e) \in A
  PROVE  Fold(c, base, s) \in A
<1> DEFINE T == {t \in Seq(S) : Fold(c, base, t) \in A}
<1>1. <<>> \in T  BY FoldEmpty
<1>2. ASSUME NEW t \in Seq(S), t \in T, NEW e \in S  PROVE Append(t, e) \in T
  BY <1>2, FoldAppend
<1>3. Seq(S) \subseteq T
  <2> HIDE DEF T
  <2>1. QED  BY <1>1, <1>2, SequencesGrow
<1>4. QED  BY <1>3
-----------------------------------------------------------------------------
(* Sorts. *)

\* A strict order on S, as a set of pairs, under which any two compare.
Orders(R, S) ==
  /\ \A x \in S : <<x, x>> \notin R
  /\ \A x, y, z \in S : <<x, y>> \in R /\ <<y, z>> \in R => <<x, z>> \in R
  /\ \A x, y \in S : x # y => <<x, y>> \in R \/ <<y, x>> \in R

Rank(x, R, S) == Cardinality({y \in S : <<y, x>> \in R})

\* Every number below the size of a finite set is the rank of one element.
LEMMA RanksFill ==
  ASSUME NEW S, IsFiniteSet(S), NEW R, Orders(R, S)
  PROVE  /\ \A n \in 1 .. Cardinality(S) : \E x \in S : Rank(x, R, S) = n - 1
         /\ \A x \in S : Rank(x, R, S) \in Nat /\ Rank(x, R, S) < Cardinality(S)
         /\ \A x, y \in S : Rank(x, R, S) = Rank(y, R, S) => x = y
         /\ \A x, y \in S : <<x, y>> \in R => Rank(x, R, S) < Rank(y, R, S)
<1> DEFINE Below(x) == {y \in S : <<y, x>> \in R}
           size == Cardinality(S)
           rank == [x \in S |-> Rank(x, R, S)]
<1>1. size \in Nat  BY FS_CardinalityType
<1>2. ASSUME NEW x \in S
      PROVE  /\ IsFiniteSet(Below(x)) /\ Cardinality(Below(x)) \in Nat
             /\ Cardinality(Below(x)) < size
  <2>1. Below(x) \in SUBSET S /\ x \in S \ Below(x)  BY DEF Orders
  <2> HIDE DEF Below
  <2>2. IsFiniteSet(Below(x)) /\ Cardinality(Below(x)) <= size
        /\ (size = Cardinality(Below(x)) => S = Below(x))
    BY <2>1, FS_Subset
  <2>3. Cardinality(Below(x)) \in Nat  BY <2>2, FS_CardinalityType
  <2> QED BY <1>1, <2>1, <2>2, <2>3
<1>3. ASSUME NEW x \in S, NEW y \in S, <<x, y>> \in R
      PROVE  Cardinality(Below(x)) < Cardinality(Below(y))
  <2>1. Below(x) \in SUBSET Below(y) /\ x \in Below(y) \ Below(x)
    BY <1>3 DEF Orders
  <2>2. IsFiniteSet(Below(y)) /\ Cardinality(Below(y)) \in Nat
        /\ Cardinality(Below(x)) \in Nat
    BY <1>2
  <2> HIDE DEF Below
  <2>3. Cardinality(Below(x)) <= Cardinality(Below(y))
        /\ (Cardinality(Below(y)) = Cardinality(Below(x))
             => Below(y) = Below(x))
    BY <2>1, <2>2, FS_Subset
  <2> QED BY <2>1, <2>2, <2>3
<1>4. \A x \in S : rank[x] = Cardinality(Below(x))  BY DEF Rank
<1> HIDE DEF Below, rank
<1>5. \A x, y \in S : rank[x] = rank[y] => x = y
  <2> SUFFICES ASSUME NEW x \in S, NEW y \in S, rank[x] = rank[y], x # y
               PROVE  FALSE
    OBVIOUS
  <2>1. CASE <<x, y>> \in R  BY <1>2, <1>3, <1>4, <2>1
  <2>2. CASE <<y, x>> \in R  BY <1>2, <1>3, <1>4, <2>2
  <2> QED BY <2>1, <2>2 DEF Orders
<1>6. \A x \in S : rank[x] \in 0 .. size - 1  BY <1>1, <1>2, <1>4
<1>7. rank \in Injection(S, 0 .. size - 1)
  <2>1. rank = [x \in S |-> rank[x]]  BY DEF rank
  <2> QED BY <1>5, <1>6, <2>1 DEF Injection, IsInjective
<1>8. IsFiniteSet(0 .. size - 1) /\ Cardinality(0 .. size - 1) = size
  <2>1. 0 \in Int /\ size - 1 \in Int  BY <1>1
  <2>2. IsFiniteSet(0 .. size - 1)
        /\ Cardinality(0 .. size - 1)
             = IF 0 > size - 1 THEN 0 ELSE (size - 1) - 0 + 1
    BY <2>1, FS_Interval
  <2> QED BY <1>1, <2>2
<1>9. rank \in Surjection(S, 0 .. size - 1)
  <2> HIDE DEF size
  <2> QED BY <1>7, <1>8, FS_Injection DEF size
<1>10. \A n \in 1 .. size : \E x \in S : rank[x] = n - 1
  <2>1. \A n \in 1 .. size : n - 1 \in 0 .. size - 1  BY <1>1
  <2> QED BY <1>9, <2>1 DEF Surjection
<1>11. \A x \in S : rank[x] = Rank(x, R, S)  BY DEF rank
<1>12. \A x \in S : rank[x] \in Nat /\ rank[x] < size  BY <1>1, <1>6
<1>13. \A x, y \in S : <<x, y>> \in R => Rank(x, R, S) < Rank(y, R, S)
  BY <1>3, <1>4, <1>11
<1> QED BY <1>5, <1>10, <1>11, <1>12, <1>13

\* A function on 1 .. n is a sequence.
LEMMA Listed ==
  ASSUME NEW S, NEW n \in Nat, NEW f \in [1 .. n -> S]
  PROVE  f \in Seq(S) /\ Len(f) = n /\ DOMAIN f = 1 .. n
OBVIOUS

\* list is sorted by R.
Ranked(list, R, S) ==
  /\ list = [n \in 1 .. Cardinality(S) |-> list[n]]
  /\ \A n \in 1 .. Cardinality(S), x \in S :
       Rank(x, R, S) = n - 1 => list[n] \in S /\ Rank(list[n], R, S) = n - 1

\* list has every element of S once, in the order of R.
Lists(list, R, S) ==
  /\ list \in Seq(S) /\ Len(list) = Cardinality(S)
  /\ \A x \in S : \E i \in DOMAIN list : list[i] = x
  /\ \A i, j \in DOMAIN list : list[i] = list[j] => i = j
  /\ \A i, j \in DOMAIN list : i < j => <<list[i], list[j]>> \in R

\* A list with every element at its rank has each of a finite set once, in
\* order.
LEMMA RankedHolds ==
  ASSUME NEW S, IsFiniteSet(S), NEW R, Orders(R, S), NEW list,
         Ranked(list, R, S)
  PROVE  Lists(list, R, S)
<1> DEFINE size == Cardinality(S)
<1>1. size \in Nat  BY FS_CardinalityType
<1>2. \A n \in 1 .. size : list[n] \in S /\ Rank(list[n], R, S) = n - 1
  BY RanksFill DEF Ranked
<1>3. list = [n \in 1 .. size |-> list[n]] /\ DOMAIN list = 1 .. size
  BY DEF Ranked
<1>4. ASSUME NEW x \in S  PROVE \E n \in 1 .. size : list[n] = x
  <2> DEFINE n == Rank(x, R, S) + 1
  <2>1. Rank(x, R, S) \in Nat /\ n \in 1 .. size /\ n - 1 = Rank(x, R, S)
    BY <1>1, RanksFill
  <2>2. list[n] \in S /\ Rank(list[n], R, S) = Rank(x, R, S)  BY <1>2, <2>1
  <2>3. list[n] = x  BY <2>2, RanksFill
  <2> QED BY <2>1, <2>3
<1>5. list \in Seq(S) /\ Len(list) = size
  <2>1. list \in [1 .. size -> S]
    BY <1>2, <1>3
  <2> HIDE DEF size
  <2> QED BY <1>1, <2>1, Listed
<1>6. \A i, j \in 1 .. size : list[i] = list[j] => i = j
  <2> SUFFICES ASSUME NEW i \in 1 .. size, NEW j \in 1 .. size,
                          list[i] = list[j]
               PROVE  i = j
    OBVIOUS
  <2>1. i - 1 = j - 1  BY <1>2
  <2> QED BY <1>1, <2>1
<1>7. ASSUME NEW i \in 1 .. size, NEW j \in 1 .. size, i < j
      PROVE  <<list[i], list[j]>> \in R
  <2>1. /\ list[i] \in S /\ Rank(list[i], R, S) = i - 1
        /\ list[j] \in S /\ Rank(list[j], R, S) = j - 1
    BY <1>2
  <2>2. list[i] # list[j]  BY <1>1, <1>7, <2>1
  <2>3. <<list[j], list[i]>> \notin R
    <3>1. SUFFICES ASSUME <<list[j], list[i]>> \in R  PROVE FALSE  OBVIOUS
    <3>2. Rank(list[j], R, S) < Rank(list[i], R, S)
      BY <2>1, <3>1, RanksFill
    <3>3. QED  BY <1>1, <1>7, <2>1, <3>2
  <2>4. QED  BY <2>1, <2>2, <2>3 DEF Orders
<1> QED BY <1>3, <1>4, <1>5, <1>6, <1>7 DEF Lists

\* The pairs of S of which the first comes before the second.
Pairs(c, S) == {p \in S \X S : Step(c, p[1], p[2])}

\* A sort lists a finite set in the order of its comparison, which may be any
\* under which two different elements compare.
THEOREM SortLists ==
  ASSUME NEW c, NEW S, IsFiniteSet(S), Orders(Pairs(c, S), S)
  PROVE  Lists(Sorted(S, LAMBDA x, y : Step(c, x, y)), Pairs(c, S), S)
<1> DEFINE R == Pairs(c, S)
           Below(x) == {y \in S : Step(c, y, x)}
           pick(n) == CHOOSE x \in S : Cardinality(Below(x)) = n - 1
           list == [n \in 1 .. Cardinality(S) |-> pick(n)]
<1>1. Sorted(S, LAMBDA x, y : Step(c, x, y)) = list  BY DEF Sorted
<1>2. ASSUME NEW x \in S  PROVE Rank(x, R, S) = Cardinality(Below(x))
  <2>1. {y \in S : <<y, x>> \in R} = Below(x)  BY DEF Pairs
  <2>2. QED  BY <2>1 DEF Rank
<1>3. ASSUME NEW n \in 1 .. Cardinality(S), NEW x \in S,
             Rank(x, R, S) = n - 1
      PROVE  pick(n) \in S /\ Rank(pick(n), R, S) = n - 1
  <2>1. Cardinality(Below(x)) = n - 1  BY <1>2, <1>3
  <2> HIDE DEF Below
  <2>2. pick(n) \in S /\ Cardinality(Below(pick(n))) = n - 1  BY <2>1
  <2> HIDE DEF pick
  <2>3. QED  BY <1>2, <2>2
<1> HIDE DEF pick
<1>4. /\ list = [n \in 1 .. Cardinality(S) |-> list[n]]
      /\ \A n \in 1 .. Cardinality(S) : list[n] = pick(n)
  OBVIOUS
<1> HIDE DEF list, R
<1>5. Ranked(list, R, S)  BY <1>3, <1>4 DEF Ranked
<1>6. Orders(R, S)  BY DEF R
<1>7. QED  BY <1>1, <1>5, <1>6, RankedHolds DEF R
=============================================================================
