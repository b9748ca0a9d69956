------------------------- MODULE WorldHistoryProofs -------------------------
(***************************************************************************)
(* Theorems about WorldHistory, for any peers, paths, bodies and bounds.   *)
(*                                                                         *)
(* Every world but the first goes on from one that was entered before it,  *)
(* so the edges of a history ascend (SoundWorlds, SoundGraph): descent is  *)
(* well founded, and a replay moves up until it is at a leaf. What is said *)
(* of the worlds of some state holds on when there are more (GrowthKeeps), *)
(* and a package is what some graph was exported as (SoundPackage).        *)
(***************************************************************************)
EXTENDS WorldHistory, FiniteSetTheorems, SequenceTheorems, TLAPS

\* The step of a replay, with where it goes as context.
VisitNext(next, replay, w) == Visit(next, replay)

Walk == INSTANCE FoldTheorems WITH Step <- VisitNext
-----------------------------------------------------------------------------
(* The inductive invariant *)

Overlays == [target : Paths, body : Bodies, kind : Kinds, made : Nat]
Candidates == [overlay : Overlays, against : Nat]
Merges == [base : Nat, left : Nat, right : Nat,
           conflicts : SUBSET (Overlays \X Overlays)]
Blocks == [group : {"admitted-overlays"}, of : Candidates]
            \cup [group : {"admitted-merges"}, of : Merges]
Contents == [blocks : Seq(Blocks), from : Nat, witnessed : BOOLEAN]

\* t begins with s, and goes on.
GoesOn(s, t) == Len(s) < Len(t) /\ \A i \in 1 .. Len(s) : t[i] = s[i]

\* Blocks that end with a merge are those of its left branch before it.
KeepsLeft(ws, blocks) ==
  blocks # <<>> /\ Last(blocks).group = "admitted-merges"
    => /\ Last(blocks).of.left \in DOMAIN ws
       /\ Front(blocks) = ws[Last(blocks).of.left].blocks

\* A world goes on from one that was entered before it.
SoundWorld(ws, w) ==
  /\ ws[w].from \in 0 .. w - 1
  /\ ws[w].from # NoWorld => GoesOn(ws[ws[w].from].blocks, ws[w].blocks)
  /\ KeepsLeft(ws, ws[w].blocks)
  /\ ws[1].witnessed => ws[w].witnessed

SoundWorlds(ws) ==
  /\ ws \in Seq(Contents)
  /\ Len(ws) \in 1 .. MaxWorlds
  /\ \A w \in DOMAIN ws : SoundWorld(ws, w)

Ranks == [1 .. MaxWorlds -> 1 .. MaxWorlds]

EdgesOf(ws) == [from : DOMAIN ws, to : DOMAIN ws]

GraphsOf(ws) == [root : DOMAIN ws \cup {NoWorld}, edges : Seq(EdgesOf(ws)),
                 snapshots : SUBSET DOMAIN ws]

\* An edge is the one its world was made by, and has both ends in the graph.
SoundGraph(ws, g) ==
  /\ g \in GraphsOf(ws)
  /\ \A edge \in Range(g.edges) :
       /\ edge.from = ws[edge.to].from
       /\ edge.from \in g.snapshots /\ edge.to \in g.snapshots

\* Where the replay goes along the edges E, and where it ends.
NextIn(E, r) ==
  [w \in {edge.from : edge \in E} |->
     LET to == {edge.to : edge \in {edge \in E : edge.from = w}}
     IN  CHOOSE v \in to : \A u \in to : r[u] <= r[v]]

EndOf(ws, next, root) ==
  Walk!Fold(next, [at |-> root, visited |-> {}], ws).at

PackagesOf(ws) ==
  [root : DOMAIN ws \cup {NoWorld}, edges : Seq(EdgesOf(ws)),
   snapshots : SUBSET DOMAIN ws, branches : SUBSET DOMAIN ws,
   intact : BOOLEAN, latest : DOMAIN ws \cup {NoWorld}]

\* Damaged or not, a package is what a graph was exported as.
SoundPackage(ws, r, package) ==
  /\ package \in PackagesOf(ws)
  /\ SoundGraph(ws, ImportedGraph(package))
  /\ package.branches = DeriveBranches(package.edges)
  /\ package.latest = EndOf(ws, NextIn(Range(package.edges), r), package.root)

WorldInv ==
  /\ SoundWorlds(world)
  /\ rank \in Ranks
  /\ graph \in [Peers -> GraphsOf(world)]
  /\ \A p \in Peers : SoundGraph(world, graph[p])
  /\ \A package \in wire : SoundPackage(world, rank, package)
-----------------------------------------------------------------------------
(* Sorting *)

\* order lists the keys from the least to the greatest.
Sorts(order, key, n) ==
  /\ order \in Bijection(1 .. n, 1 .. n)
  /\ \A i, j \in 1 .. n : i < j => key[order[i]] <= key[order[j]]

\* Of some numbers there is a greatest.
LEMMA Greatest ==
  ASSUME NEW S, NEW key \in [S -> Nat], S # {}, NEW bound \in Nat,
         \A x \in S : key[x] <= bound
  PROVE  \E m \in S : \A x \in S : key[x] <= key[m]
<1> DEFINE short == {bound - key[x] : x \in S}
<1>1. short \in SUBSET Nat /\ short # {}  OBVIOUS
<1>2. \A x \in S : bound - key[x] \in short  OBVIOUS
<1>3. \A d \in short : \E x \in S : d = bound - key[x]  OBVIOUS
<1> HIDE DEF short
<1>4. PICK d \in short : \A e \in short : d <= e  BY <1>1, Walk!LeastNat
<1>5. PICK m \in S : d = bound - key[m]  BY <1>3
<1>6. \A x \in S : bound - key[m] <= bound - key[x]  BY <1>2, <1>4, <1>5
<1>7. \A x \in S : key[x] \in Nat  OBVIOUS
<1>8. QED  BY <1>6, <1>7

\* Any keys can be sorted.
LEMMA SortExists ==
  ASSUME NEW bound \in Nat
  PROVE  \A n \in Nat : \A key \in [1 .. n -> 0 .. bound] :
           \E order : Sorts(order, key, n)
<1> DEFINE T == {n \in Nat : \A key \in [1 .. n -> 0 .. bound] :
                               \E order : Sorts(order, key, n)}
<1>1. 0 \in T
  <2>1. ASSUME NEW key \in [1 .. 0 -> 0 .. bound]  PROVE Sorts(key, key, 0)
    <3>1. 1 .. 0 = {}  OBVIOUS
    <3>2. key \in [1 .. 0 -> 1 .. 0]  BY <3>1
    <3>3. QED
      BY <3>1, <3>2 DEF Sorts, Bijection, Injection, Surjection, IsInjective
  <2>2. QED  BY <2>1
<1>2. ASSUME NEW n \in Nat, n \in T  PROVE n + 1 \in T
  <2>1. SUFFICES ASSUME NEW key \in [1 .. n + 1 -> 0 .. bound]
                 PROVE  \E order : Sorts(order, key, n + 1)
    OBVIOUS
  <2>2. PICK last \in 1 .. n + 1 : \A i \in 1 .. n + 1 : key[i] <= key[last]
    <3> DEFINE S == 1 .. n + 1
    <3>1. key \in [S -> Nat] /\ \A i \in S : key[i] <= bound  OBVIOUS
    <3>2. 1 \in S  OBVIOUS
    <3> HIDE DEF S
    <3>3. \E m \in S : \A x \in S : key[x] <= key[m]  BY <3>1, <3>2, Greatest
    <3>4. QED  BY <3>3 DEF S
  <2> DEFINE rest == [i \in 1 .. n |-> IF i = last THEN key[n + 1] ELSE key[i]]
  <2>3. rest \in [1 .. n -> 0 .. bound]  OBVIOUS
  <2>4. PICK o : Sorts(o, rest, n)
    <3> HIDE DEF rest
    <3>1. QED  BY <1>2, <2>3
  <2>5. /\ o \in [1 .. n -> 1 .. n]
        /\ \A i, j \in 1 .. n : o[i] = o[j] => i = j
        /\ \A k \in 1 .. n : \E i \in 1 .. n : o[i] = k
        /\ \A i, j \in 1 .. n : i < j => rest[o[i]] <= rest[o[j]]
    BY <2>4 DEF Sorts, Bijection, Injection, Surjection, IsInjective
  <2> DEFINE order == [i \in 1 .. n + 1 |->
                         IF i = n + 1 THEN last
                         ELSE IF o[i] = last THEN n + 1 ELSE o[i]]
  <2>6. /\ order[n + 1] = last
        /\ \A i \in 1 .. n :
             order[i] = IF o[i] = last THEN n + 1 ELSE o[i]
        /\ order \in [1 .. n + 1 -> 1 .. n + 1]
    BY <2>5
  <2>7. \A k \in 1 .. n : rest[k] = IF k = last THEN key[n + 1] ELSE key[k]
    OBVIOUS
  <2> HIDE DEF order, rest
  <2>8. ASSUME NEW i \in 1 .. n
        PROVE  key[order[i]] = rest[o[i]] /\ order[i] # last
    <3>1. o[i] \in 1 .. n  BY <2>5
    <3>2. CASE o[i] = last
      <4>1. order[i] = n + 1  BY <2>6, <3>2
      <4>2. rest[o[i]] = key[n + 1]  BY <2>7, <3>1, <3>2
      <4>3. last # n + 1  BY <3>1, <3>2
      <4>4. QED  BY <4>1, <4>2, <4>3
    <3>3. CASE o[i] # last
      <4>1. order[i] = o[i]  BY <2>6, <3>3
      <4>2. rest[o[i]] = key[o[i]]  BY <2>7, <3>1, <3>3
      <4>3. QED  BY <3>3, <4>1, <4>2
    <3>4. QED  BY <3>2, <3>3
  <2>9. ASSUME NEW i \in 1 .. n + 1, NEW j \in 1 .. n + 1, i < j
        PROVE  key[order[i]] <= key[order[j]]
    <3>1. i \in 1 .. n  BY <2>9
    <3>2. CASE j = n + 1  BY <2>2, <2>6, <3>2
    <3>3. CASE j \in 1 .. n  BY <2>5, <2>8, <2>9, <3>1, <3>3
    <3>4. QED  BY <3>2, <3>3
  <2>10. ASSUME NEW i \in 1 .. n + 1, NEW j \in 1 .. n + 1, order[i] = order[j]
         PROVE  i = j
    <3>1. CASE i = n + 1 /\ j = n + 1  BY <3>1
    <3>2. CASE i = n + 1 /\ j \in 1 .. n
      <4>1. order[i] = last /\ order[j] # last  BY <2>6, <2>8, <3>2
      <4>2. QED  BY <2>10, <4>1
    <3>3. CASE i \in 1 .. n /\ j = n + 1
      <4>1. order[j] = last /\ order[i] # last  BY <2>6, <2>8, <3>3
      <4>2. QED  BY <2>10, <4>1
    <3>4. CASE i \in 1 .. n /\ j \in 1 .. n
      <4>1. o[i] \in 1 .. n /\ o[j] \in 1 .. n  BY <2>5, <3>4
      <4>2. /\ order[i] = IF o[i] = last THEN n + 1 ELSE o[i]
            /\ order[j] = IF o[j] = last THEN n + 1 ELSE o[j]
        BY <2>6, <3>4
      <4>3. o[i] = o[j]
        <5>1. o[i] # n + 1 /\ o[j] # n + 1  BY <4>1
        <5> DEFINE a == o[i]
                   b == o[j]
                   m == n + 1
        <5>2. /\ a # m /\ b # m /\ order[i] = order[j]
              /\ order[i] = IF a = last THEN m ELSE a
              /\ order[j] = IF b = last THEN m ELSE b
          BY <2>10, <4>2, <5>1
        <5> HIDE DEF a, b, m
        <5>3. a = b  BY <5>2
        <5>4. QED  BY <5>3 DEF a, b
      <4>4. QED  BY <2>5, <3>4, <4>3
    <3>5. QED  BY <3>1, <3>2, <3>3, <3>4
  <2>11. ASSUME NEW k \in 1 .. n + 1  PROVE \E i \in 1 .. n + 1 : order[i] = k
    <3>1. CASE k = last  BY <2>6, <3>1
    <3>2. CASE k # last /\ k = n + 1
      <4>1. last \in 1 .. n  BY <3>2
      <4>2. PICK i \in 1 .. n : o[i] = last  BY <2>5, <4>1
      <4>3. order[i] = k  BY <2>6, <3>2, <4>2
      <4>4. QED  BY <4>3
    <3>3. CASE k # last /\ k \in 1 .. n
      <4>1. PICK i \in 1 .. n : o[i] = k  BY <2>5, <3>3
      <4>2. order[i] = k  BY <2>6, <3>3, <4>1
      <4>3. QED  BY <4>2
    <3>4. QED  BY <3>1, <3>2, <3>3
  <2>12. Sorts(order, key, n + 1)
    BY <2>6, <2>9, <2>10, <2>11
    DEF Sorts, Bijection, Injection, Surjection, IsInjective
  <2>13. QED  BY <2>12
<1>3. Nat \subseteq T
  <2> HIDE DEF T
  <2>1. QED  BY <1>1, <1>2, Walk!Induction
<1>4. QED  BY <1>3

\* The edges of a package are those of the graph.
LEMMA SortedFacts ==
  ASSUME NEW S, NEW edges \in Seq(S), rank \in Ranks, MaxWorlds \in Nat,
         \A edge \in S : edge.to \in 1 .. MaxWorlds
  PROVE  /\ SortedEdges(edges) \in Seq(S)
         /\ Range(SortedEdges(edges)) = Range(edges)
<1> DEFINE n == Len(edges)
           key == [i \in 1 .. n |-> rank[edges[i].to]]
           Lists(order) == /\ order \in Bijection(DOMAIN edges, DOMAIN edges)
                           /\ Ascending(edges, order)
           order == CHOOSE order \in Bijection(DOMAIN edges, DOMAIN edges) :
                      Ascending(edges, order)
<1>1. n \in Nat /\ DOMAIN edges = 1 .. n /\ \A i \in 1 .. n : edges[i] \in S
  OBVIOUS
<1> HIDE DEF n
<1>2. \A i \in 1 .. n : rank[edges[i].to] \in 0 .. MaxWorlds
  BY <1>1 DEF Ranks
<1>3. key \in [1 .. n -> 0 .. MaxWorlds]
      /\ \A i \in 1 .. n : key[i] = rank[edges[i].to]
  BY <1>2
<1> HIDE DEF key
<1>4. PICK o : Sorts(o, key, n)  BY <1>1, <1>3, SortExists
<1>5. o \in Bijection(1 .. n, 1 .. n) /\ o \in [1 .. n -> 1 .. n]
  BY <1>4 DEF Sorts, Bijection, Injection
<1>6. Lists(o)
  <2>1. \A i, j \in 1 .. n : i < j => key[o[i]] <= key[o[j]]
    BY <1>4 DEF Sorts
  <2>2. \A i \in 1 .. n : o[i] \in 1 .. n /\ key[o[i]] = rank[edges[o[i]].to]
    BY <1>3, <1>5
  <2>3. Ascending(edges, o)  BY <1>1, <2>1, <2>2 DEF Ascending
  <2>4. QED  BY <1>1, <1>5, <2>3
<1>7. Lists(order)  BY <1>6
<1>8. /\ order \in [1 .. n -> 1 .. n]
      /\ \A k \in 1 .. n : \E i \in 1 .. n : order[i] = k
  BY <1>1, <1>7 DEF Bijection, Injection, Surjection
<1>9. SortedEdges(edges) = [i \in 1 .. n |-> edges[order[i]]]
  BY <1>1 DEF SortedEdges
<1> HIDE DEF order
<1> DEFINE sorted == [i \in 1 .. n |-> edges[order[i]]]
<1>10. sorted \in Seq(S) /\ DOMAIN sorted = 1 .. n
       /\ \A i \in 1 .. n : sorted[i] = edges[order[i]]
  BY <1>1, <1>8
<1> HIDE DEF sorted
<1>11. Range(sorted) = Range(edges)
  BY <1>1, <1>8, <1>10 DEF Range
<1>12. QED  BY <1>9, <1>10, <1>11 DEF sorted
-----------------------------------------------------------------------------
(* Replays *)

\* Where a replay goes: along an edge.
LEMMA NextFacts ==
  ASSUME NEW n \in Nat, NEW r \in [1 .. n -> Nat], NEW bound \in Nat,
         \A w \in 1 .. n : r[w] <= bound,
         NEW E \in SUBSET [from : 1 .. n, to : 1 .. n]
  PROVE  /\ DOMAIN NextIn(E, r) = {edge.from : edge \in E}
         /\ \A w \in DOMAIN NextIn(E, r) :
              \E edge \in E : edge.from = w /\ edge.to = NextIn(E, r)[w]
<1> DEFINE To(w) == {edge.to : edge \in {edge \in E : edge.from = w}}
           Chosen(w) == CHOOSE v \in To(w) : \A u \in To(w) : r[u] <= r[v]
<1>1. /\ DOMAIN NextIn(E, r) = {edge.from : edge \in E}
      /\ \A w \in DOMAIN NextIn(E, r) : NextIn(E, r)[w] = Chosen(w)
  BY DEF NextIn
<1>2. ASSUME NEW w \in DOMAIN NextIn(E, r)
      PROVE  \E edge \in E : edge.from = w /\ edge.to = Chosen(w)
  <2> DEFINE to == To(w)
  <2>1. \E edge \in E : edge.from = w  BY <1>1
  <2>2. to # {}  BY <2>1
  <2>3. to \in SUBSET (1 .. n)  OBVIOUS
  <2>4. \A v \in to : \E edge \in E : edge.from = w /\ edge.to = v  OBVIOUS
  <2> HIDE DEF to
  <2> DEFINE key == [v \in to |-> r[v]]
  <2>5. key \in [to -> Nat] /\ \A v \in to : key[v] = r[v] /\ key[v] <= bound
    BY <2>3
  <2> HIDE DEF key
  <2>6. PICK v \in to : \A u \in to : key[u] <= key[v]
    BY <2>2, <2>5, Greatest
  <2>7. \A u \in to : r[u] <= r[v]  BY <2>5, <2>6
  <2>8. Chosen(w) \in To(w)  BY <2>6, <2>7 DEF to
  <2>9. QED  BY <2>4, <2>8 DEF to
<1> HIDE DEF Chosen
<1>3. QED  BY <1>1, <1>2

\* A replay along edges that ascend ends where none begins, and a world more
\* makes no difference.
LEMMA ReplayEnds ==
  ASSUME NEW S, NEW ws \in Seq(S), NEW next, DOMAIN next \in SUBSET DOMAIN ws,
         \A w \in DOMAIN next : next[w] \in DOMAIN ws /\ w < next[w],
         NEW root \in DOMAIN ws \cup {NoWorld}
  PROVE  /\ EndOf(ws, next, root) \in DOMAIN ws \cup {NoWorld}
         /\ EndOf(ws, next, root) \notin DOMAIN next
         /\ \A c \in S :
              EndOf(Append(ws, c), next, root) = EndOf(ws, next, root)
<1> DEFINE n == Len(ws)
           base == [at |-> root, visited |-> {}]
           End(s) == Walk!Fold(next, base, s)
           T == {s \in Seq(S) :
                   /\ End(s) = [at |-> End(s).at, visited |-> End(s).visited]
                   /\ End(s).at \in 0 .. n
                   /\ End(s).visited \in SUBSET Nat
                   /\ \A v \in End(s).visited : v < End(s).at
                   /\ End(s).at \in DOMAIN next => End(s).at > Len(s)}
<1>1. n \in Nat /\ DOMAIN ws = 1 .. n /\ root \in 0 .. n /\ NoWorld = 0
  BY DEF NoWorld
<1>2. \A w \in DOMAIN next : w \in 1 .. n /\ next[w] \in 1 .. n /\ w < next[w]
  BY <1>1
<1> HIDE DEF n
<1>3. <<>> \in T
  <2> DEFINE none == <<>>
  <2>1. none \in Seq(S) /\ Len(none) = 0 /\ End(none) = base
    BY Walk!FoldEmpty
  <2>2. base.at = root /\ base.visited = {}
        /\ base = [at |-> base.at, visited |-> base.visited]
    OBVIOUS
  <2>3. root \in DOMAIN next => root > 0  BY <1>2
  <2> HIDE DEF none, base, End
  <2>4. none \in T  BY <1>1, <2>1, <2>2, <2>3
  <2>5. QED  BY <2>4 DEF none
<1>4. ASSUME NEW s \in Seq(S), s \in T, NEW c \in S  PROVE Append(s, c) \in T
  <2> DEFINE t == Append(s, c)
             e == End(s)
  <2>1. t \in Seq(S) /\ Len(t) = Len(s) + 1 /\ Len(s) \in Nat  OBVIOUS
  <2>2. End(t) = Visit(next, e)
    <3>1. End(t) = VisitNext(next, e, c)  BY Walk!FoldAppend
    <3>2. QED  BY <3>1 DEF VisitNext
  <2>3. /\ e = [at |-> e.at, visited |-> e.visited]
        /\ e.at \in 0 .. n /\ e.visited \in SUBSET Nat
        /\ \A v \in e.visited : v < e.at
        /\ e.at \in DOMAIN next => e.at > Len(s)
    BY <1>4
  <2> HIDE DEF t, e, End
  <2>4. CASE e.at \in DOMAIN next
    <3>1. e.at \notin e.visited  BY <2>3
    <3>2. End(t) = [at |-> next[e.at], visited |-> e.visited \cup {e.at}]
      BY <2>2, <2>4, <3>1 DEF Visit
    <3> DEFINE at == next[e.at]
               visited == e.visited \cup {e.at}
    <3>3. at \in 1 .. n /\ e.at < at /\ e.at \in 1 .. n  BY <1>2, <2>4
    <3>4. \A v \in e.visited : v < at
      BY <2>3, <3>3
    <3>5. visited \in SUBSET Nat /\ \A v \in visited : v < at
      BY <2>3, <3>3, <3>4
    <3>6. at > Len(t)  BY <2>1, <2>3, <2>4, <3>3, <1>1
    <3> HIDE DEF at, visited
    <3>7. End(t) = [at |-> at, visited |-> visited]  BY <3>2 DEF at, visited
    <3>8. t \in T  BY <2>1, <3>3, <3>5, <3>6, <3>7
    <3>9. QED  BY <3>8 DEF t
  <2>5. CASE e.at \notin DOMAIN next
    <3>1. End(t) = e  BY <2>2, <2>5 DEF Visit
    <3>2. t \in T  BY <2>1, <2>3, <2>5, <3>1
    <3>3. QED  BY <3>2 DEF t
  <2>6. QED  BY <2>4, <2>5
<1>5. Seq(S) \subseteq T
  <2> HIDE DEF T
  <2>1. QED  BY <1>3, <1>4, Walk!SequencesGrow
<1>6. ws \in T  BY <1>5
<1>7. End(ws).at \in 0 .. n /\ (End(ws).at \in DOMAIN next => End(ws).at > n)
  BY <1>6 DEF n
<1>8. End(ws).at \notin DOMAIN next  BY <1>1, <1>2, <1>7
<1>9. ASSUME NEW c \in S  PROVE End(Append(ws, c)) = End(ws)
  <2>1. End(Append(ws, c)) = VisitNext(next, End(ws), c)  BY Walk!FoldAppend
  <2> HIDE DEF End
  <2>2. QED  BY <1>8, <2>1 DEF VisitNext, Visit
<1>10. QED
  <2>1. \A s \in Seq(S) : EndOf(s, next, root) = End(s).at  BY DEF EndOf
  <2>2. \A c \in S : Append(ws, c) \in Seq(S)  OBVIOUS
  <2> HIDE DEF End, T
  <2>3. EndOf(ws, next, root) = End(ws).at  BY <2>1
  <2>4. ASSUME NEW c \in S
        PROVE  EndOf(Append(ws, c), next, root) = EndOf(ws, next, root)
    <3>1. EndOf(Append(ws, c), next, root) = End(Append(ws, c)).at
      BY <2>1, <2>2
    <3>2. End(Append(ws, c)) = End(ws)  BY <1>9
    <3>3. QED  BY <2>3, <3>1, <3>2
  <2>5. End(ws).at \in DOMAIN ws \cup {NoWorld}  BY <1>1, <1>7 DEF n
  <2>6. QED  BY <1>8, <2>3, <2>4, <2>5

\* The edges of a history ascend, so a replay comes to a world from which no
\* edge leaves.
LEMMA HistoryReplays ==
  ASSUME NEW ws, SoundWorlds(ws), NEW g, SoundGraph(ws, g), NEW r \in Ranks
  PROVE  /\ DOMAIN NextIn(Range(g.edges), r)
              = {edge.from : edge \in Range(g.edges)}
         /\ EndOf(ws, NextIn(Range(g.edges), r), g.root)
              \in DOMAIN ws \cup {NoWorld}
         /\ EndOf(ws, NextIn(Range(g.edges), r), g.root)
              \notin {edge.from : edge \in Range(g.edges)}
         /\ \A c \in Contents :
              EndOf(Append(ws, c), NextIn(Range(g.edges), r), g.root)
                = EndOf(ws, NextIn(Range(g.edges), r), g.root)
<1> DEFINE E == Range(g.edges)
           next == NextIn(E, r)
           m == MaxWorlds
<1>1. /\ ws \in Seq(Contents) /\ Len(ws) \in 1 .. m /\ m \in Nat
      /\ DOMAIN ws = 1 .. Len(ws)
      /\ \A w \in DOMAIN ws : ws[w].from \in 0 .. w - 1
  BY WorldAssumption DEF SoundWorlds, SoundWorld
<1>2. /\ g.root \in DOMAIN ws \cup {NoWorld}
      /\ E \in SUBSET EdgesOf(ws)
      /\ \A edge \in E : edge.from = ws[edge.to].from
  <2>1. g.edges \in Seq(EdgesOf(ws))  BY DEF SoundGraph, GraphsOf
  <2>2. \A i \in DOMAIN g.edges : g.edges[i] \in EdgesOf(ws)
    BY <2>1, ElementOfSeq
  <2>3. E \in SUBSET EdgesOf(ws)  BY <2>2 DEF Range
  <2>4. QED  BY <2>3 DEF SoundGraph, GraphsOf
<1> HIDE DEF E
<1>3. \A edge \in E : /\ edge.from \in DOMAIN ws /\ edge.to \in DOMAIN ws
                      /\ edge.from < edge.to
  <2>1. \A edge \in E : edge.from \in DOMAIN ws /\ edge.to \in DOMAIN ws
    BY <1>2 DEF EdgesOf
  <2>2. QED  BY <1>1, <1>2, <2>1
<1>4. E \in SUBSET [from : 1 .. m, to : 1 .. m]
  BY <1>1, <1>2 DEF EdgesOf
<1>5. r \in [1 .. m -> Nat] /\ \A w \in 1 .. m : r[w] <= m
  BY <1>1 DEF Ranks
<1> HIDE DEF m
<1>6. /\ DOMAIN next = {edge.from : edge \in E}
      /\ \A w \in DOMAIN next :
           \E edge \in E : edge.from = w /\ edge.to = next[w]
  BY <1>1, <1>4, <1>5, NextFacts
<1> HIDE DEF next
<1>7. DOMAIN next \in SUBSET DOMAIN ws  BY <1>3, <1>6
<1>8. \A w \in DOMAIN next : next[w] \in DOMAIN ws /\ w < next[w]
  BY <1>3, <1>6
<1>9. /\ EndOf(ws, next, g.root) \in DOMAIN ws \cup {NoWorld}
      /\ EndOf(ws, next, g.root) \notin DOMAIN next
      /\ \A c \in Contents :
           EndOf(Append(ws, c), next, g.root) = EndOf(ws, next, g.root)
  <2>1. ws \in Seq(Contents) /\ g.root \in DOMAIN ws \cup {NoWorld}
    BY <1>1, <1>2
  <2> DEFINE root == g.root
             Ends == /\ EndOf(ws, next, root) \in DOMAIN ws \cup {NoWorld}
                     /\ EndOf(ws, next, root) \notin DOMAIN next
                     /\ \A c \in Contents :
                          EndOf(Append(ws, c), next, root)
                            = EndOf(ws, next, root)
  <2>2. root \in DOMAIN ws \cup {NoWorld}  BY <2>1
  <2> HIDE DEF E, root
  <2>3. Ends  BY <1>7, <1>8, <2>1, <2>2, ReplayEnds
  <2>4. QED  BY <2>3 DEF root
<1>10. QED  BY <1>6, <1>9 DEF next, E
-----------------------------------------------------------------------------
(* The worlds grow *)

\* A sequence over a set is one over a larger set.
LEMMA SeqWider ==
  ASSUME NEW A, NEW B, A \subseteq B, NEW s \in Seq(A)  PROVE s \in Seq(B)
OBVIOUS

\* What a history or a package says of some worlds, it says of more.
LEMMA GrowthKeeps ==
  ASSUME NEW ws, SoundWorlds(ws), NEW c \in Contents, NEW vs,
         vs = ws \/ vs = Append(ws, c)
  PROVE  /\ \A g : SoundGraph(ws, g) => SoundGraph(vs, g)
         /\ \A r \in Ranks : \A package :
              SoundPackage(ws, r, package) => SoundPackage(vs, r, package)
<1>1. SUFFICES ASSUME vs = Append(ws, c)
               PROVE  /\ \A g : SoundGraph(ws, g) => SoundGraph(vs, g)
                      /\ \A r \in Ranks : \A package :
                           SoundPackage(ws, r, package)
                             => SoundPackage(vs, r, package)
  BY Zenon
<1>2. ws \in Seq(Contents)  BY DEF SoundWorlds
<1>3. DOMAIN ws \subseteq DOMAIN vs /\ \A w \in DOMAIN ws : vs[w] = ws[w]
  BY <1>1, <1>2
<1>4. EdgesOf(ws) \subseteq EdgesOf(vs)  BY <1>3 DEF EdgesOf
<1>5. Seq(EdgesOf(ws)) \subseteq Seq(EdgesOf(vs))  BY <1>4, SeqWider
<1>6. ASSUME NEW g, SoundGraph(ws, g)  PROVE SoundGraph(vs, g)
  <2>1. g.edges \in Seq(EdgesOf(ws))  BY <1>6 DEF SoundGraph, GraphsOf
  <2>2. g \in GraphsOf(vs)
    BY <1>3, <1>5, <1>6 DEF SoundGraph, GraphsOf
  <2>3. \A i \in DOMAIN g.edges : g.edges[i] \in EdgesOf(ws)
    BY <2>1, ElementOfSeq
  <2>4. \A edge \in Range(g.edges) : edge.to \in DOMAIN ws
    BY <2>3 DEF Range, EdgesOf
  <2>5. QED  BY <1>3, <1>6, <2>2, <2>4 DEF SoundGraph
<1>7. ASSUME NEW r \in Ranks, NEW package, SoundPackage(ws, r, package)
      PROVE  SoundPackage(vs, r, package)
  <2> DEFINE g == ImportedGraph(package)
             next == NextIn(Range(package.edges), r)
  <2>1. SoundGraph(ws, g) /\ g.edges = package.edges /\ g.root = package.root
    BY <1>7 DEF SoundPackage, ImportedGraph
  <2> HIDE DEF g
  <2>2. EndOf(vs, next, package.root) = EndOf(ws, next, package.root)
    <3>1. next = NextIn(Range(g.edges), r)  BY <2>1
    <3> HIDE DEF next
    <3>2. \A d \in Contents :
            EndOf(Append(ws, d), NextIn(Range(g.edges), r), g.root)
              = EndOf(ws, NextIn(Range(g.edges), r), g.root)
      BY <2>1, HistoryReplays, Zenon
    <3>3. EndOf(Append(ws, c), next, g.root) = EndOf(ws, next, g.root)
      BY <3>1, <3>2, Zenon
    <3>4. QED  BY <1>1, <2>1, <3>3
  <2>3. SoundGraph(vs, g)  BY <1>6, <2>1
  <2> HIDE DEF next
  <2>4. package \in PackagesOf(vs)
    BY <1>3, <1>5, <1>7 DEF SoundPackage, PackagesOf
  <2>5. QED  BY <1>7, <2>2, <2>3, <2>4 DEF SoundPackage, g, next
<1>8. QED  BY <1>6, <1>7

\* A content goes on from an admitted world.
Follows(ws, content) ==
  /\ content \in Contents
  /\ content.from \in DOMAIN ws
  /\ GoesOn(ws[content.from].blocks, content.blocks)
  /\ KeepsLeft(ws, content.blocks)
  /\ content.witnessed

\* Entering it, the worlds stay sound.
LEMMA EnteredFacts ==
  ASSUME SoundWorlds(world), NEW content, Follows(world, content),
         IdentityOf(content) <= MaxWorlds
  PROVE  /\ SoundWorlds(Entered(content))
         /\ Entered(content) \in {world, Append(world, content)}
         /\ IdentityOf(content) \in DOMAIN Entered(content)
         /\ Entered(content)[IdentityOf(content)] = content
<1> DEFINE n == Len(world)
           vs == Append(world, content)
<1>1. /\ world \in Seq(Contents) /\ n \in 1 .. MaxWorlds /\ MaxWorlds \in Nat
      /\ DOMAIN world = 1 .. n /\ content \in Contents
      /\ \A w \in DOMAIN world : SoundWorld(world, w)
  BY WorldAssumption DEF SoundWorlds, Follows
<1>2. CASE \E w \in Identities : world[w] = content
  <2>1. IdentityOf(content) \in Identities
          /\ world[IdentityOf(content)] = content
    BY <1>2 DEF IdentityOf
  <2>2. Entered(content) = world  BY <2>1 DEF Entered
  <2>3. QED  BY <1>1, <2>1, <2>2 DEF Identities
<1>3. CASE ~ \E w \in Identities : world[w] = content
  <2>1. IdentityOf(content) = n + 1  BY <1>3 DEF IdentityOf
  <2>2. Entered(content) = vs
    <3>1. n + 1 \notin Identities  BY <1>1 DEF Identities
    <3>2. IdentityOf(content) \notin Identities  BY <2>1, <3>1, Zenon
    <3>3. QED  BY <3>2 DEF Entered
  <2>3. /\ vs \in Seq(Contents) /\ Len(vs) = n + 1 /\ DOMAIN vs = 1 .. n + 1
        /\ vs[n + 1] = content /\ \A w \in 1 .. n : vs[w] = world[w]
    BY <1>1
  <2> HIDE DEF vs, n
  <2>4. ASSUME NEW blocks, KeepsLeft(world, blocks)  PROVE KeepsLeft(vs, blocks)
    BY <1>1, <2>3, <2>4 DEF KeepsLeft
  <2>5. ASSUME NEW w \in 1 .. n  PROVE SoundWorld(vs, w)
    <3>1. SoundWorld(world, w)  BY <1>1
    <3>2. vs[w] = world[w] /\ vs[1] = world[1]  BY <1>1, <2>3
    <3>3. world[w].from \in 0 .. w - 1  BY <3>1 DEF SoundWorld
    <3>4. world[w].from # NoWorld => vs[world[w].from] = world[world[w].from]
      BY <1>1, <2>3, <3>3 DEF NoWorld
    <3>5. KeepsLeft(vs, vs[w].blocks)  BY <2>4, <3>1, <3>2 DEF SoundWorld
    <3>6. QED  BY <3>1, <3>2, <3>4, <3>5 DEF SoundWorld
  <2>6. SoundWorld(vs, n + 1)
    <3>1. KeepsLeft(vs, content.blocks)  BY <2>4 DEF Follows
    <3>2. content.from \in 1 .. n /\ content.from \in 0 .. (n + 1) - 1
      BY <1>1 DEF Follows
    <3>3. vs[content.from] = world[content.from]  BY <2>3, <3>2
    <3>4. QED  BY <2>3, <3>1, <3>2, <3>3 DEF SoundWorld, Follows
  <2>7. \A w \in 1 .. n + 1 : SoundWorld(vs, w)  BY <1>1, <2>5, <2>6
  <2>8. n + 1 \in 1 .. MaxWorlds  BY <1>1, <2>1
  <2>9. SoundWorlds(vs)  BY <2>3, <2>7, <2>8 DEF SoundWorlds
  <2>10. QED  BY <1>1, <2>1, <2>2, <2>3, <2>9 DEF vs
<1>4. QED  BY <1>2, <1>3
-----------------------------------------------------------------------------
(* Descent *)

\* What goes on from what goes on.
LEMMA GoesOnTrans ==
  ASSUME NEW s \in Seq(Blocks), NEW t \in Seq(Blocks), NEW u \in Seq(Blocks),
         GoesOn(s, t), GoesOn(t, u)
  PROVE  GoesOn(s, u)
<1>1. Len(s) \in Nat /\ Len(t) \in Nat /\ Len(u) \in Nat  OBVIOUS
<1>2. \A i \in 1 .. Len(s) : i \in 1 .. Len(t)  BY <1>1 DEF GoesOn
<1>3. QED  BY <1>1, <1>2 DEF GoesOn

\* A block more goes on.
LEMMA GoesOnAppend ==
  ASSUME NEW s \in Seq(Blocks), NEW t \in Seq(Blocks), NEW b \in Blocks,
         s = t \/ GoesOn(s, t)
  PROVE  /\ GoesOn(s, Append(t, b)) /\ Append(t, b) \in Seq(Blocks)
         /\ Last(Append(t, b)) = b /\ Front(Append(t, b)) = t
<1> DEFINE u == Append(t, b)
<1>1. /\ u \in Seq(Blocks) /\ Len(u) = Len(t) + 1 /\ Len(t) \in Nat
      /\ Len(s) \in Nat
      /\ u[Len(t) + 1] = b /\ \A i \in 1 .. Len(t) : u[i] = t[i]
  OBVIOUS
<1>2. Front(u) = t  BY DEF Front
<1> HIDE DEF u
<1>3. Last(u) = b  BY <1>1 DEF Last
<1>4. GoesOn(t, u)  BY <1>1 DEF GoesOn
<1>5. GoesOn(s, u)  BY <1>1, <1>4, GoesOnTrans
<1>6. QED  BY <1>1, <1>2, <1>3, <1>5 DEF u

IsLineage(f, parent, n) ==
  f = [u \in 0 .. n |-> IF u = 0 THEN {} ELSE {u} \cup f[parent[u]]]

\* The lineages are there, for every world is made from an earlier one.
LEMMA LineageExists ==
  ASSUME NEW m \in Nat, NEW parent, \A u \in 1 .. m : parent[u] \in 0 .. u - 1
  PROVE  \E f : IsLineage(f, parent, m)
<1> DEFINE T == {n \in Nat : n <= m => \E f : IsLineage(f, parent, n)}
<1>1. 0 \in T
  <2> DEFINE f == [u \in 0 .. 0 |-> {}]
  <2>1. f = [u \in 0 .. 0 |-> IF u = 0 THEN {} ELSE {u} \cup f[parent[u]]]
    OBVIOUS
  <2>2. QED  BY <2>1 DEF IsLineage
<1>2. ASSUME NEW n \in Nat, n \in T  PROVE n + 1 \in T
  <2>1. SUFFICES ASSUME n + 1 <= m  PROVE \E f : IsLineage(f, parent, n + 1)
    OBVIOUS
  <2>2. PICK f : IsLineage(f, parent, n)  BY <1>2, <2>1
  <2> DEFINE h == [u \in 0 .. n + 1 |->
                     IF u = n + 1 THEN {u} \cup f[parent[u]] ELSE f[u]]
             hh == [u \in 0 .. n + 1 |->
                      IF u = 0 THEN {} ELSE {u} \cup h[parent[u]]]
  <2>3. f[0] = {} /\ \A u \in 1 .. n : f[u] = {u} \cup f[parent[u]]
    <3> DEFINE ff == [u \in 0 .. n |->
                        IF u = 0 THEN {} ELSE {u} \cup f[parent[u]]]
    <3>1. ff[0] = {} /\ \A u \in 1 .. n : ff[u] = {u} \cup f[parent[u]]
      OBVIOUS
    <3>2. f = ff  BY <2>2 DEF IsLineage
    <3> HIDE DEF ff
    <3>3. QED  BY <3>1, <3>2
  <2>4. \A u \in 1 .. n + 1 : parent[u] \in 0 .. n /\ u # 0  BY <2>1
  <2>5. \A u \in 0 .. n : h[u] = f[u]  OBVIOUS
  <2>6. h[n + 1] = {n + 1} \cup f[parent[n + 1]]  OBVIOUS
  <2>7. hh[0] = {} /\ \A u \in 1 .. n + 1 : hh[u] = {u} \cup h[parent[u]]
    OBVIOUS
  <2>8. h = [u \in 0 .. n + 1 |-> h[u]] /\ hh = [u \in 0 .. n + 1 |-> hh[u]]
    OBVIOUS
  <2> HIDE DEF h, hh
  <2>9. ASSUME NEW u \in 0 .. n + 1  PROVE h[u] = hh[u]
    <3>1. CASE u = n + 1
      <4>1. u \in 1 .. n + 1 /\ parent[u] \in 0 .. n  BY <2>4, <3>1
      <4>2. hh[u] = {u} \cup h[parent[u]]  BY <2>7, <4>1
      <4>3. h[parent[u]] = f[parent[u]]  BY <2>5, <4>1
      <4>4. QED  BY <2>6, <3>1, <4>2, <4>3, Zenon
    <3>2. CASE u \in 0 .. n
      <4>1. CASE u = 0
        <5>1. h[0] = f[0]  BY <2>5
        <5>2. QED  BY <2>3, <2>7, <4>1, <5>1, Zenon
      <4>2. CASE u # 0
        <5>1. u \in 1 .. n /\ u \in 1 .. n + 1  BY <3>2, <4>2
        <5>2. parent[u] \in 0 .. n  BY <2>4, <5>1
        <5>3. hh[u] = {u} \cup h[parent[u]]  BY <2>7, <5>1
        <5>4. h[parent[u]] = f[parent[u]]  BY <2>5, <5>2
        <5>5. h[u] = f[u] /\ f[u] = {u} \cup f[parent[u]]
          BY <2>3, <2>5, <3>2, <5>1
        <5>6. QED  BY <5>3, <5>4, <5>5, Zenon
      <4>3. QED  BY <4>1, <4>2
    <3>3. QED  BY <3>1, <3>2
  <2>10. h = hh  BY <2>8, <2>9
  <2>11. IsLineage(h, parent, n + 1)  BY <2>10 DEF IsLineage, hh
  <2>12. QED  BY <2>11
<1>3. Nat \subseteq T
  <2> HIDE DEF T
  <2>1. QED  BY <1>1, <1>2, Walk!Induction
<1>4. m \in T  BY <1>3
<1>5. QED  BY <1>4

\* A world has all the blocks of one it descends from.
LEMMA DescentKeeps ==
  ASSUME SoundWorlds(world), NEW v \in Identities, NEW w \in Identities,
         Descends(v, w)
  PROVE  v = w \/ GoesOn(world[w].blocks, world[v].blocks)
<1> DEFINE n == Len(world)
           parent == [u \in 1 .. n |-> world[u].from]
           Lineage(f) == f = [u \in Identities \cup {NoWorld} |->
                                IF u = NoWorld THEN {}
                                ELSE {u} \cup f[world[u].from]]
           f == CHOOSE f : Lineage(f)
<1>1. /\ n \in Nat /\ DOMAIN world = 1 .. n
      /\ \A u \in 1 .. n : /\ world[u].from \in 0 .. u - 1
                           /\ world[u].blocks \in Seq(Blocks)
                           /\ world[u].from # 0
                                => GoesOn(world[world[u].from].blocks,
                                  world[u].blocks)
  <2>1. world \in Seq(Contents)  BY DEF SoundWorlds
  <2>2. n \in Nat /\ DOMAIN world = 1 .. n  BY <2>1
  <2> HIDE DEF n
  <2>3. \A u \in 1 .. n : world[u] \in Contents
    BY <2>1, <2>2, ElementOfSeq
  <2>4. \A u \in 1 .. n : world[u].blocks \in Seq(Blocks)
    BY <2>3 DEF Contents
  <2>5. \A u \in 1 .. n : SoundWorld(world, u)  BY <2>2 DEF SoundWorlds
  <2>6. QED  BY <2>2, <2>4, <2>5 DEF SoundWorld, NoWorld
<1>2. Identities \cup {NoWorld} = 0 .. n  BY <1>1 DEF Identities, NoWorld
<1>3. \A u \in 1 .. n : parent[u] = world[u].from  OBVIOUS
<1>4. \E h : Lineage(h)
  <2>1. PICK h : IsLineage(h, parent, n)
    <3> HIDE DEF n, parent
    <3>1. QED  BY <1>1, <1>3, LineageExists
  <2> DEFINE g1 == [u \in 0 .. n |-> IF u
        = 0 THEN {} ELSE {u} \cup h[parent[u]]]
             g2 == [u \in 0 .. n |-> IF u = 0 THEN {}
                                     ELSE {u} \cup h[world[u].from]]
  <2>2. g1 = g2
    <3> HIDE DEF parent
    <3>1. ASSUME NEW u \in 0 .. n  PROVE g1[u] = g2[u]
      <4>1. CASE u = 0  BY <4>1
      <4>2. CASE u # 0
        <5>1. parent[u] = world[u].from  BY <1>1, <1>3, <4>2
        <5>2. g1[u] = {u} \cup h[parent[u]]  BY <4>2
        <5>3. g2[u] = {u} \cup h[world[u].from]  BY <4>2
        <5> HIDE DEF g1, g2
        <5>4. QED  BY <5>1, <5>2, <5>3, Zenon
      <4>3. QED  BY <4>1, <4>2
    <3>2. g1 = [u \in 0 .. n |-> g1[u]] /\ g2 = [u \in 0 .. n |-> g2[u]]
      OBVIOUS
    <3> HIDE DEF g1, g2
    <3>3. QED  BY <3>1, <3>2
  <2>3. h = g1  BY <2>1 DEF IsLineage
  <2>4. h = g2  BY <2>2, <2>3
  <2>5. Lineage(h)  BY <1>2, <2>4 DEF NoWorld
  <2>6. QED  BY <2>5
<1>5. Lineage(f)
  <2> HIDE DEF Lineage
  <2>1. QED  BY <1>4
<1>6. f[0] = {} /\ \A u \in 1 .. n : f[u] = {u} \cup f[world[u].from]
  <2> DEFINE g == [u \in 0 .. n |-> IF u = 0 THEN {}
                                    ELSE {u} \cup f[world[u].from]]
  <2>1. g[0] = {} /\ \A u \in 1 .. n : g[u] = {u} \cup f[world[u].from]
    BY <1>1
  <2>2. f = g
    <3> HIDE DEF f
    <3>1. QED  BY <1>2, <1>5 DEF NoWorld
  <2> HIDE DEF f, g
  <2>3. QED  BY <2>1, <2>2
<1>7. w \in f[v]  BY DEF Descends
<1> HIDE DEF f, n
<1> DEFINE T == {m \in Nat : \A u \in 0 .. n : u <= m =>
                   \A x \in f[u] :
                     /\ x \in 1 .. n
                     /\ x = u \/ GoesOn(world[x].blocks, world[u].blocks)}
<1>8. 0 \in T  BY <1>1, <1>6
<1>9. ASSUME NEW m \in Nat, m \in T  PROVE m + 1 \in T
  <2>1. SUFFICES ASSUME NEW u \in 0 .. n, u = m + 1, NEW x \in f[u]
                 PROVE  /\ x \in 1 .. n
                        /\ x = u \/ GoesOn(world[x].blocks, world[u].blocks)
    BY <1>1, <1>9
  <2>2. u \in 1 .. n /\ (x = u \/ x \in f[world[u].from])
    BY <1>1, <1>6, <2>1
  <2>3. CASE x = u  BY <2>2, <2>3
  <2>4. CASE x \in f[world[u].from]
    <3> DEFINE y == world[u].from
    <3>1. y \in 0 .. n /\ y <= m  BY <1>1, <2>1, <2>2
    <3>2. y # 0  BY <1>1, <1>6, <2>4
    <3>3. x \in 1 .. n /\ (x = y \/ GoesOn(world[x].blocks, world[y].blocks))
      BY <1>9, <2>4, <3>1
    <3>4. y \in 1 .. n  BY <1>1, <3>1, <3>2
    <3>5. GoesOn(world[y].blocks, world[u].blocks)  BY <1>1, <2>2, <3>2
    <3> HIDE DEF y
    <3>6. GoesOn(world[x].blocks, world[u].blocks)
      BY <1>1, <2>2, <3>3, <3>4, <3>5, GoesOnTrans
    <3>7. QED  BY <3>3, <3>6
  <2>5. QED  BY <2>2, <2>3, <2>4
<1>10. Nat \subseteq T
  <2> HIDE DEF T
  <2>1. QED  BY <1>8, <1>9, Walk!Induction
<1>11. v \in 0 .. n /\ v \in T  BY <1>1, <1>2, <1>10
<1>12. QED  BY <1>7, <1>11
-----------------------------------------------------------------------------
(* What is entered *)

\* The overlays a source shows are overlays.
LEMMA AdmittedOverlaysFacts ==
  ASSUME SoundWorlds(world), NEW w \in Identities
  PROVE  AdmittedOverlays(w) \in SUBSET Overlays
<1> DEFINE blocks == world[w].blocks
           mine == {i \in DOMAIN blocks : blocks[i].group = "admitted-overlays"}
           least == CHOOSE i \in mine : \A j \in mine : i <= j
<1>1. blocks \in Seq(Blocks)
  <2>1. world \in Seq(Contents) /\ w \in DOMAIN world
    BY DEF SoundWorlds, Identities
  <2>2. world[w] \in Contents  BY <2>1, ElementOfSeq
  <2>3. QED  BY <2>2 DEF Contents
<1> HIDE DEF blocks
<1>2. ASSUME mine # {}  PROVE blocks[least].of.overlay \in Overlays
  <2>1. mine \in SUBSET Nat  BY <1>1
  <2>2. least \in mine
    <3> HIDE DEF mine
    <3>1. \E i \in mine : \A j \in mine : i <= j
      BY <1>2, <2>1, Walk!LeastNat
    <3>2. QED  BY <3>1
  <2>3. blocks[least] \in Blocks /\ blocks[least].group = "admitted-overlays"
    BY <1>1, <2>2, ElementOfSeq
  <2> HIDE DEF least
  <2>4. blocks[least].of \in Candidates  BY <2>3 DEF Blocks
  <2>5. QED  BY <2>4 DEF Candidates
<1>3. CASE mine = {}
  <2>1. GroupRecords(blocks, "admitted-overlays") = <<>>
    BY <1>3 DEF GroupRecords
  <2>2. AdmittedOverlays(w) = {}
    BY <2>1 DEF AdmittedOverlays, Range, blocks
  <2>3. QED  BY <2>2
<1>4. CASE mine # {}
  <2> DEFINE b == blocks[least]
             list == <<b>>
  <2>1. GroupRecords(blocks, "admitted-overlays") = list
    BY <1>4 DEF GroupRecords
  <2>2. b.of.overlay \in Overlays  BY <1>2, <1>4
  <2> HIDE DEF b
  <2>3. Range(list) = {b}  BY DEF Range
  <2> HIDE DEF list
  <2>4. AdmittedOverlays(w) = {block.of.overlay : block \in Range(list)}
    BY <2>1 DEF AdmittedOverlays, blocks
  <2>5. QED  BY <2>2, <2>3, <2>4
<1>5. QED  BY <1>3, <1>4

\* What is known of an admitted world.
LEMMA WorldFacts ==
  ASSUME SoundWorlds(world), NEW w \in Identities
  PROVE  /\ w \in DOMAIN world /\ w \in Nat /\ w # NoWorld
         /\ world[w].blocks \in Seq(Blocks) /\ world[w].from \in 0 .. w - 1
<1>1. world \in Seq(Contents) /\ w \in DOMAIN world
  BY DEF SoundWorlds, Identities
<1>2. world[w] \in Contents  BY <1>1, ElementOfSeq
<1>3. w \in Nat /\ w # 0  BY <1>1
<1>4. SoundWorld(world, w)  BY <1>1 DEF SoundWorlds
<1>5. QED  BY <1>1, <1>2, <1>3, <1>4 DEF Contents, SoundWorld, NoWorld

\* An admitted overlay follows the world it is admitted into.
LEMMA CandidateFollows ==
  ASSUME SoundWorlds(world), NEW w \in Identities, NEW v \in Identities,
         NEW candidate \in CandidateEdits(v)
  PROVE  Follows(world,
           Admitted(Append(world[w].blocks, OverlayBlock(candidate)), w))
<1> DEFINE b == OverlayBlock(candidate)
           blocks == Append(world[w].blocks, b)
<1>1. candidate \in Candidates
  <2>1. v \in Nat /\ 1 \in Nat  BY WorldFacts
  <2>2. PICK target \in Paths, body \in Bodies, kind \in Kinds,
          made \in {1, v} :
          candidate = CandidateEdit(Overlay(target, body, kind, made), made)
    BY DEF CandidateEdits
  <2>3. made \in Nat  BY <2>1
  <2>4. Overlay(target, body, kind, made) \in Overlays
    BY <2>3 DEF Overlay, Overlays
  <2>5. QED  BY <2>2, <2>3, <2>4 DEF CandidateEdit, Candidates
<1>2. b \in Blocks /\ b.group = "admitted-overlays"
  BY <1>1 DEF OverlayBlock, Blocks
<1> HIDE DEF b
<1>3. /\ w \in DOMAIN world /\ w \in Nat
      /\ world[w].blocks \in Seq(Blocks)
  BY WorldFacts
<1>4. /\ GoesOn(world[w].blocks, blocks) /\ blocks \in Seq(Blocks)
      /\ Last(blocks) = b
  BY <1>2, <1>3, GoesOnAppend
<1> HIDE DEF blocks
<1>5. KeepsLeft(world, blocks)  BY <1>2, <1>4 DEF KeepsLeft
<1>6. Follows(world, Admitted(blocks, w))
  BY <1>3, <1>4, <1>5 DEF Follows, Admitted, Contents
<1>7. QED  BY <1>6 DEF blocks, b

\* A merge follows its base.
LEMMA MergedFollows ==
  ASSUME SoundWorlds(world), NEW base \in Identities, NEW left \in Identities,
         NEW right \in Identities, Descends(left, base)
  PROVE  Follows(world, Merged(base, left, right))
<1> DEFINE b == MergeBlock(MergeCandidate(base, left, right))
           blocks == Append(world[left].blocks, b)
<1>1. base \in Nat /\ left \in Nat /\ right \in Nat  BY WorldFacts
<1>2. ClassifyConflicts(base, left, right) \in SUBSET (Overlays \X Overlays)
  BY AdmittedOverlaysFacts DEF ClassifyConflicts
<1>3. MergeCandidate(base, left, right) \in Merges
      /\ MergeCandidate(base, left, right).left = left
  BY <1>1, <1>2 DEF MergeCandidate, Merges
<1>4. b \in Blocks /\ b.group = "admitted-merges" /\ b.of.left = left
  BY <1>3 DEF MergeBlock, Blocks
<1> HIDE DEF b
<1>5. /\ base \in DOMAIN world /\ left \in DOMAIN world
      /\ world[left].blocks \in Seq(Blocks)
      /\ world[base].blocks \in Seq(Blocks)
  BY WorldFacts
<1>6. world[base].blocks = world[left].blocks
        \/ GoesOn(world[base].blocks, world[left].blocks)
  BY DescentKeeps
<1>7. /\ GoesOn(world[base].blocks, blocks) /\ blocks \in Seq(Blocks)
      /\ Last(blocks) = b /\ Front(blocks) = world[left].blocks
  BY <1>4, <1>5, <1>6, GoesOnAppend
<1> HIDE DEF blocks
<1>8. KeepsLeft(world, blocks)  BY <1>4, <1>5, <1>7 DEF KeepsLeft
<1>9. Follows(world, Admitted(blocks, base))
  BY <1>1, <1>5, <1>7, <1>8 DEF Follows, Admitted, Contents
<1>10. QED  BY <1>9 DEF Merged, blocks, b
-----------------------------------------------------------------------------
(* The invariant is inductive *)

\* What is in a sequence that is longer by one.
LEMMA RangeAppend ==
  ASSUME NEW S, NEW s \in Seq(S), NEW e \in S
  PROVE  Append(s, e) \in Seq(S) /\ Range(Append(s, e)) = Range(s) \cup {e}
<1> DEFINE t == Append(s, e)
           n == Len(s)
<1>1. /\ t \in Seq(S) /\ n \in Nat /\ DOMAIN s = 1 .. n /\ DOMAIN t = 1 .. n + 1
      /\ t[n + 1] = e /\ \A i \in 1 .. n : t[i] = s[i]
  OBVIOUS
<1> HIDE DEF t, n
<1>2. Range(t) = Range(s) \cup {e}
  <2>1. ASSUME NEW x \in Range(t)  PROVE x \in Range(s) \cup {e}
    BY <1>1 DEF Range
  <2>2. \A x \in Range(s) : x \in Range(t)  BY <1>1 DEF Range
  <2>3. n + 1 \in DOMAIN t  BY <1>1
  <2>4. e \in Range(t)  BY <1>1, <2>3 DEF Range
  <2>5. QED  BY <2>1, <2>2, <2>4
<1>3. QED  BY <1>1, <1>2 DEF t

\* The edge to a world from the one it was made from.
LEMMA AddAdmissionSound ==
  ASSUME NEW ws, NEW g, SoundGraph(ws, g), NEW from \in g.snapshots,
         NEW w \in DOMAIN ws, ws[w].from = from
  PROVE  SoundGraph(ws, AddAdmission(g, from, w))
<1> DEFINE e == [from |-> from, to |-> w]
           edges == Append(g.edges, e)
           snapshots == g.snapshots \cup {w}
           root == IF g.root = NoWorld THEN from ELSE g.root
           h == [root |-> root, edges |-> edges, snapshots |-> snapshots]
<1>1. /\ g.root \in DOMAIN ws \cup {NoWorld} /\ g.edges \in Seq(EdgesOf(ws))
      /\ g.snapshots \in SUBSET DOMAIN ws
  BY DEF SoundGraph, GraphsOf
<1>2. from \in DOMAIN ws  BY <1>1
<1>3. e \in EdgesOf(ws) /\ e.from = from /\ e.to = w  BY <1>2 DEF EdgesOf
<1>4. root \in DOMAIN ws \cup {NoWorld} /\ snapshots \in SUBSET DOMAIN ws
  BY <1>1, <1>2
<1>5. AddAdmission(g, from, w) = h  BY DEF AddAdmission
<1> HIDE DEF e
<1>6. edges \in Seq(EdgesOf(ws)) /\ Range(edges) = Range(g.edges) \cup {e}
  BY <1>1, <1>3, RangeAppend
<1> HIDE DEF edges, root
<1>7. \A edge \in Range(edges) :
        /\ edge.from = ws[edge.to].from
        /\ edge.from \in snapshots /\ edge.to \in snapshots
  BY <1>3, <1>6 DEF SoundGraph
<1> HIDE DEF snapshots
<1>8. h \in GraphsOf(ws)  BY <1>4, <1>6 DEF GraphsOf
<1>9. QED  BY <1>5, <1>7, <1>8 DEF SoundGraph

\* Any admission keeps the invariant.
LEMMA AdmissionKeeps ==
  ASSUME WorldInv, NEW content, Follows(world, content),
         IdentityOf(content) <= MaxWorlds, NEW p \in Peers,
         CanOpen(graph[p], content.from), world' = Entered(content),
         graph' = [graph EXCEPT ![p] =
                     AddAdmission(@, content.from, IdentityOf(content))],
         UNCHANGED <<rank, wire>>
  PROVE  WorldInv'
<1> DEFINE id == IdentityOf(content)
           vs == Entered(content)
<1>1. /\ SoundWorlds(world) /\ rank \in Ranks
      /\ graph \in [Peers -> GraphsOf(world)]
      /\ \A q \in Peers : SoundGraph(world, graph[q])
      /\ \A package \in wire : SoundPackage(world, rank, package)
  BY DEF WorldInv
<1>2. /\ SoundWorlds(vs) /\ vs \in {world, Append(world, content)}
      /\ id \in DOMAIN vs /\ vs[id] = content
  BY <1>1, EnteredFacts
<1>3. world' = vs /\ rank' = rank /\ wire' = wire  OBVIOUS
<1> HIDE DEF vs, id
<1>4. content \in Contents  BY DEF Follows
<1>5. /\ \A g : SoundGraph(world, g) => SoundGraph(vs, g)
      /\ \A package : SoundPackage(world, rank, package)
                        => SoundPackage(vs, rank, package)
  BY <1>1, <1>2, <1>4, GrowthKeeps
<1>6. SoundGraph(vs, AddAdmission(graph[p], content.from, id))
  <2>1. SoundGraph(vs, graph[p])  BY <1>1, <1>5
  <2>2. content.from \in graph[p].snapshots  BY DEF CanOpen
  <2>3. QED  BY <1>2, <2>1, <2>2, AddAdmissionSound
<1>7. ASSUME NEW q \in Peers  PROVE SoundGraph(vs, graph'[q])
  <2>1. CASE q = p
    <3>1. graph'[q] = AddAdmission(graph[p], content.from, id)
      BY <1>1, <2>1 DEF id
    <3>2. QED  BY <1>6, <3>1
  <2>2. CASE q # p
    <3>1. graph'[q] = graph[q]  BY <1>1, <2>2
    <3>2. QED  BY <1>1, <1>5, <3>1
  <2>3. QED  BY <2>1, <2>2
<1>8. graph' \in [Peers -> GraphsOf(vs)]
  <2>1. \A q \in Peers : graph'[q] \in GraphsOf(vs)  BY <1>7 DEF SoundGraph
  <2>2. graph' = [q \in Peers |-> graph'[q]]  BY <1>1
  <2>3. QED  BY <2>1, <2>2
<1>9. \A package \in wire : SoundPackage(vs, rank, package)  BY <1>1, <1>5
<1>10. QED  BY <1>1, <1>2, <1>3, <1>7, <1>8, <1>9 DEF WorldInv

\* The replay of a graph follows its edges.
LEMMA ReplayIs ==
  ASSUME NEW g
  PROVE  /\ NextOf(g) = NextIn(Range(g.edges), rank)
         /\ ReplayLatest(g) = EndOf(world, NextIn(Range(g.edges), rank), g.root)
<1>1. NextOf(g) = NextIn(Range(g.edges), rank)
  BY DEF NextOf, NextIn, OutgoingEdges
<1>2. ReplayLatest(g) = EndOf(world, NextOf(g), g.root)
  BY DEF ReplayLatest, EndOf, Walk!Fold, VisitNext, FoldLeft, MapThenFoldSet,
         Walk!FoldLeft, Walk!MapThenFoldSet, Max, Walk!Max
<1>3. QED  BY <1>1, <1>2

\* A graph a peer exports makes a sound package.
LEMMA ExportSound ==
  ASSUME WorldInv, NEW g, SoundGraph(world, g)
  PROVE  SoundPackage(world, rank, SyncPackage(g))
<1> DEFINE sorted == SortedEdges(g.edges)
           branches == DeriveBranches(sorted)
           latest == ReplayLatest(g)
           package == SyncPackage(g)
<1>1. /\ SoundWorlds(world) /\ rank \in Ranks /\ MaxWorlds \in Nat
  BY WorldAssumption DEF WorldInv
<1>2. /\ g.root \in DOMAIN world \cup {NoWorld}
           /\ g.edges \in Seq(EdgesOf(world))
      /\ g.snapshots \in SUBSET DOMAIN world
  BY DEF SoundGraph, GraphsOf
<1>3. \A edge \in EdgesOf(world) : edge.to \in 1 .. MaxWorlds
  <2>1. DOMAIN world = 1 .. Len(world) /\ Len(world) \in 1 .. MaxWorlds
    BY <1>1 DEF SoundWorlds
  <2>2. \A w \in DOMAIN world : w \in 1 .. MaxWorlds  BY <1>1, <2>1
  <2>3. \A edge \in EdgesOf(world) : edge.to \in DOMAIN world  BY DEF EdgesOf
  <2>4. QED  BY <2>2, <2>3
<1>4. sorted \in Seq(EdgesOf(world)) /\ Range(sorted) = Range(g.edges)
  BY <1>1, <1>2, <1>3, SortedFacts
<1>5. package = [root |-> g.root, edges |-> sorted, snapshots |-> g.snapshots,
                 branches |-> branches, intact |-> TRUE, latest |-> latest]
  BY DEF SyncPackage
<1> HIDE DEF sorted
<1>6. branches \in SUBSET DOMAIN world
  <2>1. \A i \in DOMAIN sorted : sorted[i] \in EdgesOf(world)
    BY <1>4, ElementOfSeq
  <2>2. \A edge \in Range(sorted) : edge.from \in DOMAIN world
    BY <2>1 DEF Range, EdgesOf
  <2>3. QED  BY <2>2 DEF DeriveBranches
<1>7. latest = EndOf(world, NextIn(Range(g.edges), rank), g.root)
  BY ReplayIs, Zenon
<1>8. latest \in DOMAIN world \cup {NoWorld}
  <2>1. EndOf(world, NextIn(Range(g.edges), rank), g.root)
          \in DOMAIN world \cup {NoWorld}
    BY <1>1, HistoryReplays, Zenon
  <2>2. QED  BY <1>7, <2>1, Zenon
<1> HIDE DEF package, latest
<1>9. package.branches = DeriveBranches(package.edges)  BY <1>5
<1> HIDE DEF branches
<1>10. package \in PackagesOf(world)
  BY <1>2, <1>4, <1>5, <1>6, <1>8 DEF PackagesOf
<1>11. SoundGraph(world, ImportedGraph(package))
  <2>1. ImportedGraph(package)
          = [root |-> g.root, edges |-> sorted, snapshots |-> g.snapshots]
    BY <1>5 DEF ImportedGraph
  <2> DEFINE h == [root |-> g.root, edges |-> sorted, snapshots |-> g.snapshots]
  <2>2. h \in GraphsOf(world)  BY <1>2, <1>4 DEF GraphsOf
  <2>3. h.edges = sorted /\ h.snapshots = g.snapshots  OBVIOUS
  <2> HIDE DEF h
  <2>4. SoundGraph(world, h)  BY <1>4, <2>2, <2>3 DEF SoundGraph
  <2>5. QED  BY <2>1, <2>4 DEF h
<1>12. package.latest
         = EndOf(world, NextIn(Range(package.edges), rank), package.root)
  <2>1. package.latest = latest /\ package.edges = sorted
          /\ package.root = g.root
    BY <1>5
  <2>2. Range(package.edges) = Range(g.edges)  BY <1>4, <2>1
  <2>3. QED  BY <1>7, <2>1, <2>2, Zenon
<1>13. QED  BY <1>9, <1>10, <1>11, <1>12 DEF SoundPackage, package

\* A package stays sound when it is damaged.
LEMMA DamageKeeps ==
  ASSUME NEW ws, NEW r, NEW package, SoundPackage(ws, r, package)
  PROVE  SoundPackage(ws, r, [package EXCEPT !.intact = FALSE])
<1> DEFINE damaged == [package EXCEPT !.intact = FALSE]
<1>1. package \in PackagesOf(ws)  BY DEF SoundPackage
<1>2. /\ damaged.root = package.root /\ damaged.edges = package.edges
      /\ damaged.snapshots = package.snapshots
      /\ damaged.branches = package.branches /\ damaged.latest = package.latest
      /\ damaged \in PackagesOf(ws)
  BY <1>1 DEF PackagesOf
<1> HIDE DEF damaged
<1>3. ImportedGraph(damaged) = ImportedGraph(package)
  BY <1>2 DEF ImportedGraph
<1>4. QED  BY <1>2, <1>3 DEF SoundPackage, damaged

\* The first world is sound, and a history of it.
LEMMA InitSound ==
  ASSUME Init  PROVE WorldInv
<1>1. PICK built \in BOOLEAN : world = <<Genesis(built)>>  BY DEF Init
<1> DEFINE c == Genesis(built)
           ws == <<c>>
           none == <<>>
<1>2. none \in Seq(Blocks) /\ ~ none # <<>> /\ none \in Seq(EdgesOf(ws))
      /\ Range(none) = {}
  BY DEF Range
<1>3. c = [blocks |-> none, from |-> 0, witnessed |-> built]
  BY DEF Genesis, NoWorld
<1>4. c \in Contents /\ c.blocks = none /\ c.from = 0
  BY <1>2, <1>3 DEF Contents
<1> HIDE DEF c
<1>5. ws \in Seq(Contents) /\ Len(ws) = 1 /\ DOMAIN ws = {1} /\ ws[1] = c
  BY <1>4
<1> HIDE DEF ws
<1>6. KeepsLeft(ws, none)  BY <1>2 DEF KeepsLeft
<1>7. SoundWorld(ws, 1)  BY <1>4, <1>5, <1>6 DEF SoundWorld, NoWorld
<1>8. SoundWorlds(ws)
  <2>1. 1 \in 1 .. MaxWorlds  BY WorldAssumption
  <2>2. QED  BY <1>5, <1>7, <2>1 DEF SoundWorlds
<1>9. ASSUME NEW w \in {1, NoWorld}  PROVE SoundGraph(ws, HistoryGraph(w))
  <2> DEFINE snapshots == IF w = NoWorld THEN {} ELSE {w}
             g == [root |-> w, edges |-> none, snapshots |-> snapshots]
  <2>1. HistoryGraph(w) = g  BY DEF HistoryGraph
  <2>2. snapshots \in SUBSET DOMAIN ws /\ w \in DOMAIN ws \cup {NoWorld}
    BY <1>5
  <2> HIDE DEF snapshots, none
  <2>3. g \in GraphsOf(ws)  BY <1>2, <2>2 DEF GraphsOf
  <2>4. g.edges = none  OBVIOUS
  <2> HIDE DEF g
  <2>5. SoundGraph(ws, g)  BY <1>2, <2>3, <2>4 DEF SoundGraph
  <2>6. QED  BY <2>1, <2>5
<1>10. graph \in [Peers -> {HistoryGraph(1), HistoryGraph(NoWorld)}]
       /\ rank \in Ranks /\ wire = {}
  BY DEF Init, Ranks
<1>11. \A p \in Peers : SoundGraph(ws, graph[p])  BY <1>9, <1>10
<1>12. graph \in [Peers -> GraphsOf(ws)]  BY <1>10, <1>11 DEF SoundGraph
<1>13. world = ws  BY <1>1 DEF ws, c
<1>14. QED  BY <1>8, <1>10, <1>11, <1>12, <1>13 DEF WorldInv

\* Every step keeps the invariant.
LEMMA StepSound ==
  ASSUME WorldInv, [Next]_vars  PROVE WorldInv'
<1>1. /\ SoundWorlds(world) /\ rank \in Ranks
      /\ graph \in [Peers -> GraphsOf(world)]
      /\ \A q \in Peers : SoundGraph(world, graph[q])
      /\ \A package \in wire : SoundPackage(world, rank, package)
  BY DEF WorldInv
<1>2. ASSUME NEW p \in Peers, NEW w \in Identities, NEW c \in CandidateEdits(w),
             AdmitCandidate(p, w, c)
      PROVE  WorldInv'
  <2> DEFINE content == Admitted(Append(world[w].blocks, OverlayBlock(c)), w)
  <2>1. Follows(world, content)  BY <1>1, CandidateFollows
  <2>2. /\ CanOpen(graph[p], w) /\ IdentityOf(content) <= MaxWorlds
        /\ world' = Entered(content)
        /\ graph' = [graph EXCEPT ![p]
             = AddAdmission(@, w, IdentityOf(content))]
        /\ UNCHANGED <<rank, wire>>
    BY <1>2 DEF AdmitCandidate
  <2>3. content.from = w  BY DEF Admitted
  <2> HIDE DEF content
  <2>4. QED  BY <2>1, <2>2, <2>3, AdmissionKeeps
<1>3. ASSUME NEW p \in Peers, NEW base \in Identities, NEW left \in Identities,
             NEW right \in Identities, NEW allow \in BOOLEAN,
             AdmitMerge(p, base, left, right, allow)
      PROVE  WorldInv'
  <2> DEFINE content == Merged(base, left, right)
  <2>1. Descends(left, base)  BY <1>3 DEF AdmitMerge
  <2>2. Follows(world, content)  BY <1>1, <2>1, MergedFollows
  <2>3. /\ CanOpen(graph[p], base) /\ IdentityOf(content) <= MaxWorlds
        /\ world' = Entered(content)
        /\ graph' = [graph EXCEPT ![p]
             = AddAdmission(@, base, IdentityOf(content))]
        /\ UNCHANGED <<rank, wire>>
    BY <1>3 DEF AdmitMerge
  <2>4. content.from = base  BY DEF Merged, Admitted
  <2> HIDE DEF content
  <2>5. QED  BY <2>2, <2>3, <2>4, AdmissionKeeps
<1>4. ASSUME NEW p \in Peers, ExportSyncPackage(p)  PROVE WorldInv'
  <2>1. SoundPackage(world, rank, SyncPackage(graph[p]))  BY <1>1, ExportSound
  <2>2. /\ world' = world /\ rank' = rank /\ graph' = graph
        /\ wire' = wire \cup {SyncPackage(graph[p])}
    BY <1>4 DEF ExportSyncPackage
  <2>3. \A package \in wire' : SoundPackage(world, rank, package)
    BY <1>1, <2>1, <2>2
  <2>4. QED  BY <1>1, <2>2, <2>3 DEF WorldInv
<1>5. ASSUME NEW package \in wire, Damage(package)  PROVE WorldInv'
  <2> DEFINE damaged == [package EXCEPT !.intact = FALSE]
  <2>1. SoundPackage(world, rank, damaged)  BY <1>1, DamageKeeps
  <2>2. /\ world' = world /\ rank' = rank /\ graph' = graph
        /\ wire' = (wire \ {package}) \cup {damaged}
    BY <1>5 DEF Damage
  <2> HIDE DEF damaged
  <2>3. \A q \in wire' : SoundPackage(world, rank, q)  BY <1>1, <2>1, <2>2
  <2>4. QED  BY <1>1, <2>2, <2>3 DEF WorldInv
<1>6. ASSUME NEW p \in Peers, NEW package \in wire,
             ImportSyncPackage(p, package)
      PROVE  WorldInv'
  <2> DEFINE g == ImportedGraph(package)
  <2>1. SoundGraph(world, g)  BY <1>1 DEF SoundPackage
  <2>2. /\ world' = world /\ rank' = rank /\ wire' = wire
        /\ graph' = [graph EXCEPT ![p] = g]
    BY <1>6 DEF ImportSyncPackage
  <2>3. g \in GraphsOf(world)  BY <2>1 DEF SoundGraph
  <2> HIDE DEF g
  <2>4. graph' \in [Peers -> GraphsOf(world)]
        /\ \A q \in Peers : graph'[q] \in {graph[q], g}
    BY <1>1, <2>2, <2>3
  <2>5. \A q \in Peers : SoundGraph(world, graph'[q])  BY <1>1, <2>1, <2>4
  <2>6. QED  BY <1>1, <2>2, <2>4, <2>5 DEF WorldInv
<1>7. CASE UNCHANGED vars
  <2>1. world' = world /\ rank' = rank /\ graph' = graph /\ wire' = wire
    BY <1>7 DEF vars
  <2>2. QED  BY <1>1, <2>1 DEF WorldInv
<1>8. QED  BY <1>2, <1>3, <1>4, <1>5, <1>6, <1>7 DEF Next

\* Worlds, histories and packages stay sound.
THEOREM Soundness == Spec => []WorldInv
<1>1. Init => WorldInv  BY InitSound
<1>2. WorldInv /\ [Next]_vars => WorldInv'  BY StepSound
<1>3. QED  BY <1>1, <1>2, PTL DEF Spec
-----------------------------------------------------------------------------
(* What follows from it *)

\* The types of the state.
LEMMA InvTypes ==
  ASSUME WorldInv  PROVE TypeOK
<1>1. SoundWorlds(world) /\ graph \in [Peers -> GraphsOf(world)]
  BY DEF WorldInv
<1>2. Len(world) <= MaxWorlds /\ DOMAIN world = Identities
  BY <1>1, WorldAssumption DEF SoundWorlds, Identities
<1>3. ASSUME NEW w \in Identities
      PROVE  world[w].from \in Identities \cup {NoWorld}
  <2>1. w \in 1 .. Len(world) /\ world[w].from \in 0 .. w - 1
          /\ Len(world) \in Nat
    BY <1>1, WorldFacts DEF Identities, SoundWorlds
  <2>2. QED  BY <2>1 DEF Identities, NoWorld
<1>4. GraphsOf(world) = Graph  BY <1>2 DEF GraphsOf, EdgesOf, Graph
<1>5. QED  BY <1>1, <1>2, <1>3, <1>4 DEF TypeOK

\* A history only grows, and a merge has what its left branch has.
LEMMA InvKept ==
  ASSUME WorldInv  PROVE HistoryIsKept
<1>1. /\ SoundWorlds(world)
      /\ \A p \in Peers : SoundGraph(world, graph[p])
      /\ DOMAIN world = Identities
  BY DEF WorldInv, SoundWorlds, Identities
<1>2. ASSUME NEW p \in Peers, NEW edge \in Range(graph[p].edges)
      PROVE  IsStrictPrefix(world[edge.from].blocks, world[edge.to].blocks)
  <2> DEFINE g == graph[p]
             s == world[edge.from].blocks
             t == world[edge.to].blocks
  <2>1. g.edges \in Seq(EdgesOf(world)) /\ edge.from = world[edge.to].from
    BY <1>1 DEF SoundGraph, GraphsOf
  <2>2. edge.from \in Identities /\ edge.to \in Identities
    <3>1. \A i \in DOMAIN g.edges : g.edges[i] \in EdgesOf(world)
      BY <2>1, ElementOfSeq
    <3>2. edge \in EdgesOf(world)  BY <3>1 DEF Range
    <3>3. QED  BY <1>1, <3>2 DEF EdgesOf
  <2>3. edge.from # NoWorld /\ s \in Seq(Blocks) /\ t \in Seq(Blocks)
    BY <1>1, <2>2, WorldFacts
  <2>4. SoundWorld(world, edge.to)  BY <1>1, <2>2 DEF SoundWorlds
  <2>5. GoesOn(s, t)  BY <2>1, <2>3, <2>4 DEF SoundWorld
  <2> HIDE DEF s, t
  <2>6. Len(s) \in Nat /\ Len(t) \in Nat /\ Len(s) < Len(t)
        /\ \A i \in 1 .. Len(s) : t[i] = s[i]
    BY <2>3, <2>5 DEF GoesOn
  <2>7. SubSeq(s, 1, Len(s)) = SubSeq(t, 1, Len(s))  BY <2>3, <2>6
  <2>8. s # t  BY <2>6
  <2>9. IsStrictPrefix(s, t)  BY <2>6, <2>7, <2>8 DEF IsStrictPrefix, IsPrefix
  <2>10. QED  BY <2>9 DEF s, t
<1>3. ASSUME NEW w \in Identities  PROVE KeepsLeft(world, world[w].blocks)
  BY <1>1 DEF SoundWorlds, SoundWorld
<1>4. MergeKeepsLeft  BY <1>3 DEF MergeKeepsLeft, KeepsLeft
<1>5. QED  BY <1>2, <1>4 DEF HistoryIsKept, HistoryNeverForgets

\* Versions can be opened, and what is exported imported.
LEMMA InvOpened ==
  ASSUME WorldInv  PROVE HistoryCanBeOpened
<1>1. /\ SoundWorlds(world)
      /\ \A p \in Peers : SoundGraph(world, graph[p])
      /\ \A package \in wire : SoundPackage(world, rank, package)
  BY DEF WorldInv
<1>2. EdgesCanBeOpened  BY <1>1 DEF EdgesCanBeOpened, SoundGraph, CanOpen
<1>3. ASSUME world[1].witnessed, NEW package \in wire, package.intact,
             package.snapshots # {}
      PROVE  VerifySyncPackage(package)
  <2> DEFINE g == ImportedGraph(package)
  <2>1. g.edges = package.edges /\ g.snapshots = package.snapshots
    BY DEF ImportedGraph
  <2>2. SoundGraph(world, g)  BY <1>1 DEF SoundPackage
  <2> HIDE DEF g
  <2>3. package.snapshots \in SUBSET DOMAIN world
    BY <2>1, <2>2 DEF SoundGraph, GraphsOf
  <2>4. VerifySnapshots(package)
    BY <1>1, <1>3, <2>3 DEF VerifySnapshots, SoundWorlds, SoundWorld
  <2>5. VerifyHistoryEdges(package)
    BY <2>1, <2>2 DEF VerifyHistoryEdges, SoundGraph
  <2>6. QED  BY <1>3, <2>4, <2>5 DEF VerifySyncPackage
<1>4. ExportsCanBeImported  BY <1>3 DEF ExportsCanBeImported
<1>5. QED  BY <1>2, <1>4 DEF HistoryCanBeOpened

\* Two worlds that edges of one world lead to make a branching.
LEMMA ForkBranches ==
  ASSUME NEW S, NEW edges \in Seq(S), NEW w,
         Cardinality({edge.to : edge \in {e \in Range(edges) : e.from = w}}) > 1
  PROVE  w \in DeriveBranches(edges)
<1> DEFINE to == {edge.to : edge \in {e \in Range(edges) : e.from = w}}
           at == {i \in DOMAIN edges : edges[i].from = w}
<1>1. DOMAIN edges = 1 .. Len(edges) /\ Len(edges) \in Nat  OBVIOUS
<1>2. IsFiniteSet(1 .. Len(edges))
  <2>1. 1 \in Int /\ Len(edges) \in Int  BY <1>1
  <2>2. QED  BY <2>1, FS_Interval
<1>3. IsFiniteSet(at)
  <2>1. at \in SUBSET (1 .. Len(edges))  BY <1>1
  <2> HIDE DEF at
  <2>2. QED  BY <1>2, <2>1, FS_Subset
<1>4. \A v \in to : \E i \in at : edges[i].to = v  BY DEF Range
<1>5. \A i \in at : edges[i] \in Range(edges) /\ edges[i].from = w
  BY DEF Range
<1>6. \E u, v \in to : u # v
  <2> HIDE DEF to
  <2>1. SUFFICES ASSUME \A u, v \in to : u = v  PROVE FALSE  BY Zenon
  <2>2. CASE to = {}
    <3>1. Cardinality(to) = 0  BY <2>2, FS_EmptySet
    <3>2. QED  BY <3>1 DEF to
  <2>3. CASE to # {}
    <3>1. PICK u \in to : TRUE  BY <2>3
    <3> DEFINE single == {u}
    <3>2. to = single  BY <2>1, <3>1
    <3>3. Cardinality(single) = 1  BY FS_Singleton
    <3> HIDE DEF single
    <3>4. Cardinality(to) = 1  BY <3>2, <3>3
    <3>5. QED  BY <3>4 DEF to
  <2>4. QED  BY <2>2, <2>3
<1>7. PICK i \in at, j \in at : i # j
  <2> HIDE DEF to, at
  <2>1. PICK u \in to, v \in to : u # v  BY <1>6
  <2>2. PICK i \in at, j \in at : edges[i].to = u /\ edges[j].to = v
    BY <1>4, <2>1
  <2>3. i # j  BY <2>1, <2>2
  <2>4. QED  BY <2>3
<1>8. Cardinality(at) > 1
  <2> HIDE DEF at
  <2>1. Cardinality(at) \in Nat  BY <1>3, FS_CardinalityType
  <2>2. Cardinality(at) # 0  BY <1>3, <1>7, FS_EmptySet
  <2>3. Cardinality(at) # 1
    <3>1. SUFFICES ASSUME Cardinality(at) = 1  PROVE FALSE  OBVIOUS
    <3>2. \E x : at = {x}  BY <1>3, <3>1, FS_Singleton
    <3>3. QED  BY <1>7, <3>2
  <2>4. QED  BY <2>1, <2>2, <2>3
<1>9. \E edge \in Range(edges) : edge.from = w  BY <1>5, <1>7
<1>10. QED  BY <1>8, <1>9 DEF DeriveBranches

\* Replays end alike at leaves, and forks are reported.
LEMMA InvAlike ==
  ASSUME WorldInv  PROVE PeersReadAlike
<1>1. /\ SoundWorlds(world) /\ rank \in Ranks
      /\ \A p \in Peers : SoundGraph(world, graph[p])
      /\ \A package \in wire : SoundPackage(world, rank, package)
  BY DEF WorldInv
<1>2. ASSUME NEW p \in Peers
      PROVE  OutgoingEdges(graph[p], ReplayLatest(graph[p])) = {}
  <2> DEFINE g == graph[p]
             end == EndOf(world, NextIn(Range(g.edges), rank), g.root)
  <2>1. ReplayLatest(g) = end  BY ReplayIs, Zenon
  <2>2. SoundGraph(world, g)  BY <1>1
  <2>3. end \notin {edge.from : edge \in Range(g.edges)}
    BY <1>1, <2>2, HistoryReplays, Zenon
  <2> HIDE DEF end
  <2>4. OutgoingEdges(g, end) = {}  BY <2>3 DEF OutgoingEdges
  <2>5. QED  BY <2>1, <2>4, Zenon
<1>3. ASSUME NEW package \in wire
      PROVE  ReplayLatest(ImportedGraph(package)) = package.latest
  <2> DEFINE g == ImportedGraph(package)
  <2>1. g.edges = package.edges /\ g.root = package.root  BY DEF ImportedGraph
  <2> HIDE DEF g
  <2>2. ReplayLatest(g) = EndOf(world, NextIn(Range(g.edges), rank), g.root)
    BY ReplayIs, Zenon
  <2>3. package.latest
          = EndOf(world, NextIn(Range(package.edges), rank), package.root)
    BY <1>1 DEF SoundPackage
  <2>4. QED  BY <2>1, <2>2, <2>3, Zenon DEF g
<1>4. ASSUME NEW package \in wire, NEW w \in Identities,
             Cardinality({edge.to : edge \in {e \in Range(package.edges) :
                                                e.from = w}}) > 1
      PROVE  w \in package.branches
  <2>1. SoundPackage(world, rank, package)  BY <1>1
  <2>2. package.edges \in Seq(EdgesOf(world))
        /\ package.branches = DeriveBranches(package.edges)
    BY <2>1 DEF SoundPackage, PackagesOf
  <2>3. w \in DeriveBranches(package.edges)  BY <1>4, <2>2, ForkBranches
  <2>4. QED  BY <2>2, <2>3
<1>5. ReplayEndsAtLeaf  BY <1>2, Zenon DEF ReplayEndsAtLeaf
<1>6. ImportedReplaysAlike  BY <1>3, Zenon DEF ImportedReplaysAlike
<1>7. ForksAreReported  BY <1>4, Zenon DEF ForksAreReported
<1>8. QED  BY <1>5, <1>6, <1>7 DEF PeersReadAlike

\* Of a single block, a source shows the overlay.
LEMMA FirstOverlays ==
  ASSUME SoundWorlds(world), NEW w \in Identities, Len(world[w].blocks) = 1
  PROVE  OverlaysOf(w) \subseteq AdmittedOverlays(w)
<1> DEFINE blocks == world[w].blocks
           mine == {i \in DOMAIN blocks : blocks[i].group = "admitted-overlays"}
           least == CHOOSE i \in mine : \A j \in mine : i <= j
<1>1. blocks \in Seq(Blocks) /\ Len(blocks) = 1  BY WorldFacts
<1> HIDE DEF blocks
<1>2. DOMAIN blocks = {1}  BY <1>1
<1>3. SUFFICES ASSUME NEW o \in OverlaysOf(w)  PROVE o \in AdmittedOverlays(w)
  OBVIOUS
<1>4. 1 \in mine /\ mine = {1} /\ o = blocks[1].of.overlay
  BY <1>2, <1>3 DEF OverlaysOf, blocks
<1>5. least = 1
  <2> HIDE DEF mine
  <2>1. least \in mine  BY <1>4
  <2>2. QED  BY <1>4, <2>1
<1> DEFINE b == blocks[1]
           list == <<b>>
<1>6. GroupRecords(blocks, "admitted-overlays") = list
  <2>1. GroupRecords(blocks, "admitted-overlays")
          = IF mine = {} THEN <<>> ELSE <<blocks[least]>>
    BY DEF GroupRecords
  <2> HIDE DEF mine, least
  <2>2. QED  BY <1>4, <1>5, <2>1
<1>7. o = b.of.overlay  BY <1>4
<1> HIDE DEF b
<1>8. b \in Range(list)
  <2>1. list[1] = b /\ 1 \in DOMAIN list  OBVIOUS
  <2> HIDE DEF list
  <2>2. QED  BY <2>1 DEF Range
<1> HIDE DEF list
<1>9. QED  BY <1>6, <1>7, <1>8 DEF AdmittedOverlays, blocks

\* Branches of one block each do not hide what they disagree about.
LEMMA InvConflict ==
  ASSUME WorldInv  PROVE FirstBranchesConflict
<1>1. SoundWorlds(world)  BY DEF WorldInv
<1>2. ASSUME NEW left \in Identities, NEW right \in Identities,
             Len(world[left].blocks) = 1, Len(world[right].blocks) = 1,
             Disagree(left, right)
      PROVE  ~ Admissible(MergeCandidate(1, left, right))
  <2>1. PICK l \in OverlaysOf(left), r \in OverlaysOf(right) :
               l.target = r.target /\ Differ(l, r)
    BY <1>2 DEF Disagree
  <2>2. l \in AdmittedOverlays(left) /\ r \in AdmittedOverlays(right)
    BY <1>1, <1>2, <2>1, FirstOverlays
  <2> DEFINE pair == <<l, r>>
  <2>3. /\ pair \in AdmittedOverlays(left) \X AdmittedOverlays(right)
        /\ pair[1] = l /\ pair[2] = r
    BY <2>2
  <2> HIDE DEF pair
  <2>4. pair \in ClassifyConflicts(1, left, right)
    BY <2>1, <2>3 DEF ClassifyConflicts
  <2>5. MergeCandidate(1, left, right).conflicts
          = ClassifyConflicts(1, left, right)
    BY DEF MergeCandidate
  <2>6. QED  BY <2>4, <2>5 DEF Admissible
<1>3. QED  BY <1>2 DEF FirstBranchesConflict
-----------------------------------------------------------------------------
(* Theorems *)

\* Types: the worlds stay within their bound, and graphs name admitted worlds.
THEOREM Types == Spec => []TypeOK
<1>1. Spec => []WorldInv  BY Soundness
<1>2. WorldInv => TypeOK  BY InvTypes
<1>3. QED  BY <1>1, <1>2, PTL

\* A history says nothing its worlds take back, and a merge loses nothing of
\* the branch it is built on (admitCandidate, admitMerge).
THEOREM Kept == Spec => []HistoryIsKept
<1>1. Spec => []WorldInv  BY Soundness
<1>2. WorldInv => HistoryIsKept  BY InvKept
<1>3. QED  BY <1>1, <1>2, PTL

\* Every version a history names is in it, and what a peer exports of a history
\* that began in the open is never refused (openSnapshot, verifySyncPackage).
THEOREM Opened == Spec => []HistoryCanBeOpened
<1>1. Spec => []WorldInv  BY Soundness
<1>2. WorldInv => HistoryCanBeOpened  BY InvOpened
<1>3. QED  BY <1>1, <1>2, PTL

\* A history replays to one leaf, wherever it is held, and forks are reported
\* (replayLatest, importSyncPackage, deriveBranches).
THEOREM ReadAlike == Spec => []PeersReadAlike
<1>1. Spec => []WorldInv  BY Soundness
<1>2. WorldInv => PeersReadAlike  BY InvAlike
<1>3. QED  BY <1>1, <1>2, PTL

\* Branches of the first world that disagree are not merged without
\* allow_conflicts (classifyConflicts).
THEOREM FirstConflict == Spec => []FirstBranchesConflict
<1>1. Spec => []WorldInv  BY Soundness
<1>2. WorldInv => FirstBranchesConflict  BY InvConflict
<1>3. QED  BY <1>1, <1>2, PTL
=============================================================================
