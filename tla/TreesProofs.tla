---------------------------- MODULE TreesProofs ----------------------------
(***************************************************************************)
(* deepMerge, for every two trees no deeper than MaxDepth: at every path   *)
(* the result is what the second tree says, where it says anything, and    *)
(* what the first one says elsewhere.                                      *)
(***************************************************************************)
EXTENDS Trees, Integers, SequenceTheorems, WellFoundedInduction, TLAPS

-----------------------------------------------------------------------------
(***************************************************************************)
(* Induction over the natural numbers, for a set of numbers instead of a   *)
(* predicate.                                                              *)
(***************************************************************************)
\* A set with 0 and the successor of each of its numbers has them all.
LEMMA SetInduction ==
  ASSUME NEW K, 0 \in K, \A n \in Nat : n \in K => n + 1 \in K
  PROVE  Nat \subseteq K
<1> SUFFICES ASSUME ~(Nat \subseteq K) PROVE FALSE
  OBVIOUS
<1> DEFINE M == Nat \ K
<1>1. M \subseteq Nat /\ M # {}
  OBVIOUS
<1>2. PICK x \in M : \A y \in M : ~(<<y, x>> \in OpToRel(<, Nat))
  <2> HIDE DEF M
  <2> QED BY <1>1, NatLessThanWellFounded, WFMin, Zenon
<1>3. x \in Nat /\ x # 0 /\ x - 1 \in Nat /\ x - 1 < x
  OBVIOUS
<1>4. <<x - 1, x>> \in OpToRel(<, Nat)
  BY <1>3 DEF OpToRel
<1>5. x - 1 \notin M
  BY <1>2, <1>4
<1>6. x - 1 \in K /\ (x - 1) + 1 = x
  BY <1>3, <1>5
<1> QED
  BY <1>3, <1>6

-----------------------------------------------------------------------------
\* Paths.

LEMMA Paths ==
  /\ \A p : p \in Path <=> p \in Seq(Key) /\ Len(p) <= MaxDepth
  /\ <<>> \in Path
<1>1. ASSUME NEW p \in Path PROVE p \in Seq(Key) /\ Len(p) <= MaxDepth
  <2>1. PICK m \in 0..MaxDepth : p \in [1..m -> Key]
    BY DEF Path, BoundedSeq, SeqOf
  <2>2. m \in Nat /\ m <= MaxDepth
    BY <2>1, DepthAssumption
  <2> QED BY <2>1, <2>2
<1>2. ASSUME NEW p \in Seq(Key), Len(p) <= MaxDepth PROVE p \in Path
  <2>1. Len(p) \in 0..MaxDepth /\ p \in [1..Len(p) -> Key]
    BY <1>2, DepthAssumption
  <2> QED BY <2>1 DEF Path, BoundedSeq, SeqOf
<1>3. <<>> \in Seq(Key) /\ Len(<<>>) <= MaxDepth
  BY DepthAssumption
<1> QED BY <1>1, <1>2, <1>3

\* The prefixes of a path that got longer by a key.
LEMMA Longer ==
  ASSUME NEW p \in Seq(Key), NEW k \in Key
  PROVE  LET q == Append(p, k)
         IN  /\ q \in Seq(Key) /\ q # <<>>
             /\ Len(p) \in Nat /\ Len(q) = Len(p) + 1 /\ q[Len(p) + 1] = k
             /\ \A i \in 1..Len(p) : q[i] = p[i]
             /\ \A n \in 0..Len(p) : SubSeq(q, 1, n) = SubSeq(p, 1, n)
             /\ SubSeq(p, 1, Len(p)) = p
<1> DEFINE q == Append(p, k)
<1>1. /\ q \in Seq(Key) /\ q # <<>>
      /\ Len(p) \in Nat /\ Len(q) = Len(p) + 1 /\ q[Len(p) + 1] = k
      /\ \A i \in 1..Len(p) : q[i] = p[i]
  BY AppendProperties
<1> HIDE DEF q
<1>2. ASSUME NEW n \in 0..Len(p) PROVE SubSeq(q, 1, n) = SubSeq(p, 1, n)
  BY <1>1
<1>3. SubSeq(p, 1, Len(p)) = p
  BY SubSeqFull
<1> QED BY <1>1, <1>2, <1>3 DEF q

\* A set of paths closed under one more key has them all.
LEMMA PathInduction ==
  ASSUME NEW S, <<>> \in S,
         \A p \in Path, k \in Key : p \in S /\ Append(p, k) \in Path => Append(p, k) \in S
  PROVE  Path \subseteq S
<1> DEFINE K == {n \in Nat : \A p \in Path : Len(p) = n => p \in S}
<1>1. 0 \in K
  <2>1. \A p \in Seq(Key) : Len(p) = 0 => p = <<>>
    BY EmptySeq
  <2> QED BY <2>1, Paths
<1>2. ASSUME NEW n \in Nat, n \in K PROVE n + 1 \in K
  <2> SUFFICES ASSUME NEW q \in Path, Len(q) = n + 1 PROVE q \in S
    OBVIOUS
  <2>1. q \in Seq(Key) /\ q # <<>>
    BY Paths
  <2>2. PICK p \in Seq(Key), k \in Key : q = Append(p, k)
    BY <2>1, SequenceEmptyOrAppend, Zenon
  <2>3. Len(p) = n
    BY <2>2, Longer
  <2>4. p \in Path
    <3>1. n + 1 <= MaxDepth
      BY Paths
    <3>2. Len(p) <= MaxDepth
      BY <2>3, <3>1, DepthAssumption
    <3> QED BY <2>2, <3>2, Paths
  <2>5. p \in S
    BY <1>2, <2>3, <2>4
  <2> QED BY <2>2, <2>4, <2>5
<1>3. Nat \subseteq K
  <2> HIDE DEF K
  <2> QED BY <1>1, <1>2, SetInduction
<1> QED BY <1>3, Paths

-----------------------------------------------------------------------------
\* Nodes.

LEMMA NodeLoop ==
  ASSUME NEW t, NEW p, Len(p) \in Nat
  PROVE  \E f : /\ f[0] = t
                /\ \A i \in 1..Len(p) : f[i] = f[i - 1].map[p[i]]
                /\ Node(t, p) = f[Len(p)]
<1> DEFINE n == Len(p)
           step(x, i) == x.map[p[i]]
           H(f, m) == [i \in 0..m |-> IF i = 0 THEN t ELSE step(f[i - 1], i)]
           K == {m \in Nat : \E f : f = H(f, m)}
           c == CHOOSE f : f = H(f, n)
<1>1. Node(t, p) = c[n]
  BY Zenon DEF Node
<1> HIDE DEF step, n
<1>2. 0 \in K
  <2>1. [i \in 0..0 |-> t] = H([i \in 0..0 |-> t], 0)
    OBVIOUS
  <2> QED BY <2>1
<1>3. ASSUME NEW m \in Nat, m \in K PROVE m + 1 \in K
  <2>1. PICK f : f = H(f, m)
    BY <1>3
  <2>2. PICK g : g = [i \in 0..m + 1 |-> IF i = 0 THEN t ELSE step(f[i - 1], i)]
    OBVIOUS
  <2>3. \A i \in 0..m : g[i] = f[i]
    BY <2>1, <2>2
  <2>4. \A i \in 1..m + 1 : i - 1 \in 0..m
    OBVIOUS
  <2>5. \A i \in 1..m + 1 : step(f[i - 1], i) = step(g[i - 1], i)
    BY <2>3, <2>4
  <2>6. g = H(g, m + 1)
    BY <2>2, <2>5
  <2> QED BY <2>6
<1>4. n \in K
  <2> HIDE DEF K
  <2> QED BY <1>2, <1>3, SetInduction, Zenon DEF n
<1>5. c = H(c, n)
  <2>1. \E f : f = H(f, n)
    BY <1>4
  <2> HIDE DEF H
  <2> QED BY <2>1
<1> HIDE DEF c
<1>6. c[0] = t /\ \A i \in 1..n : c[i] = step(c[i - 1], i)
  <2>1. \A i \in 0..n : c[i] = H(c, n)[i]
    <3> HIDE DEF H
    <3> QED BY <1>5
  <2>2. n \in Nat
    BY DEF n
  <2> QED BY <2>1, <2>2
<1> QED BY <1>1, <1>6 DEF n, step

LEMMA RootNode ==
  ASSUME NEW t
  PROVE  Node(t, <<>>) = t /\ HasNode(t, <<>>)
<1>1. Len(<<>>) = 0
  OBVIOUS
<1>2. Node(t, <<>>) = t
  BY <1>1, NodeLoop
<1> QED BY <1>1, <1>2 DEF HasNode

LEMMA NextNode ==
  ASSUME NEW t, NEW p \in Seq(Key), NEW k \in Key
  PROVE  Node(t, Append(p, k)) = Node(t, p).map[k]
<1> DEFINE q == Append(p, k)
           n == Len(p)
<1>1. /\ n \in Nat /\ Len(q) = n + 1 /\ q[n + 1] = k
      /\ \A i \in 1..n : q[i] = p[i]
  BY Longer
<1> HIDE DEF q
<1>2. PICK f : /\ f[0] = t
               /\ \A i \in 1..n : f[i] = f[i - 1].map[p[i]]
               /\ Node(t, p) = f[n]
  BY <1>1, NodeLoop
<1>3. PICK g : /\ g[0] = t
               /\ \A i \in 1..Len(q) : g[i] = g[i - 1].map[q[i]]
               /\ Node(t, q) = g[Len(q)]
  BY <1>1, NodeLoop
<1> DEFINE K == {i \in Nat : i <= n => f[i] = g[i]}
<1>4. 0 \in K
  BY <1>2, <1>3
<1>5. ASSUME NEW i \in Nat, i \in K PROVE i + 1 \in K
  <2> SUFFICES ASSUME i + 1 <= n PROVE f[i + 1] = g[i + 1]
    OBVIOUS
  <2>1. i + 1 \in 1..n /\ i + 1 \in 1..Len(q) /\ (i + 1) - 1 = i /\ f[i] = g[i]
    BY <1>1, <1>5
  <2> QED BY <1>1, <1>2, <1>3, <2>1
<1>6. n \in K
  <2> HIDE DEF K, n
  <2> QED BY <1>1, <1>4, <1>5, SetInduction, Zenon
<1>7. n + 1 \in 1..Len(q) /\ (n + 1) - 1 = n /\ f[n] = g[n]
  BY <1>1, <1>6
<1>8. g[n + 1] = g[n].map[k]
  BY <1>1, <1>3, <1>7
<1>9. Node(t, q) = Node(t, p).map[k]
  BY <1>1, <1>2, <1>3, <1>7, <1>8
<1> QED BY <1>9 DEF q

LEMMA NextHasNode ==
  ASSUME NEW t, NEW p \in Seq(Key), NEW k \in Key
  PROVE  HasNode(t, Append(p, k)) <=>
           HasNode(t, p) /\ IsMap(Node(t, p)) /\ k \in DOMAIN Node(t, p).map
<1> DEFINE q == Append(p, k)
           Step(r, n) == LET above == Node(t, SubSeq(r, 1, n - 1))
                         IN  IsMap(above) /\ r[n] \in DOMAIN above.map
<1>1. /\ Len(p) \in Nat /\ Len(q) = Len(p) + 1 /\ q[Len(p) + 1] = k
      /\ \A i \in 1..Len(p) : q[i] = p[i]
      /\ \A n \in 0..Len(p) : SubSeq(q, 1, n) = SubSeq(p, 1, n)
      /\ SubSeq(p, 1, Len(p)) = p
  BY Longer
<1> HIDE DEF q
<1>2. \A n \in 1..Len(p) : Step(q, n) <=> Step(p, n)
  <2>1. \A n \in 1..Len(p) : n - 1 \in 0..Len(p)
    BY <1>1
  <2> QED BY <1>1, <2>1
<1>3. Step(q, Len(p) + 1) <=> IsMap(Node(t, p)) /\ k \in DOMAIN Node(t, p).map
  <2>1. SubSeq(q, 1, (Len(p) + 1) - 1) = p
    BY <1>1
  <2> QED BY <1>1, <2>1
<1>4. HasNode(t, q) <=> \A n \in 1..Len(q) : Step(q, n)
  BY Zenon DEF HasNode
<1>5. HasNode(t, p) <=> \A n \in 1..Len(p) : Step(p, n)
  BY Zenon DEF HasNode
<1> HIDE DEF Step
<1>6. \A n : n \in 1..Len(q) <=> n \in 1..Len(p) \/ n = Len(p) + 1
  BY <1>1
<1>7. HasNode(t, q) <=> HasNode(t, p) /\ Step(q, Len(p) + 1)
  BY <1>2, <1>4, <1>5, <1>6, Zenon
<1> QED BY <1>3, <1>7 DEF q

LEMMA NextDecides ==
  ASSUME NEW t, NEW p \in Seq(Key), NEW k \in Key
  PROVE  Decides(t, Append(p, k)) <=>
           \/ HasNode(t, Append(p, k))
           \/ HasNode(t, p) /\ ~IsMap(Node(t, p))
           \/ Decides(t, p) /\ ~HasNode(t, p)
<1> DEFINE q == Append(p, k)
           Stops(r, n) == HasNode(t, SubSeq(r, 1, n)) /\ ~IsMap(Node(t, SubSeq(r, 1, n)))
<1>1. /\ Len(p) \in Nat /\ Len(q) = Len(p) + 1
      /\ \A n \in 0..Len(p) : SubSeq(q, 1, n) = SubSeq(p, 1, n)
      /\ SubSeq(p, 1, Len(p)) = p
  BY Longer
<1>2. \A n : n \in 0..Len(q) - 1 <=> n \in 0..Len(p) - 1 \/ n = Len(p)
  BY <1>1
<1>3. /\ \A n \in 0..Len(p) - 1 : Stops(q, n) <=> Stops(p, n)
      /\ Stops(q, Len(p)) <=> HasNode(t, p) /\ ~IsMap(Node(t, p))
  <2>1. \A n \in 0..Len(p) - 1 : SubSeq(q, 1, n) = SubSeq(p, 1, n)
    BY <1>1
  <2>2. SubSeq(q, 1, Len(p)) = p
    BY <1>1
  <2> HIDE DEF q
  <2> QED BY <2>1, <2>2, Zenon
<1>4. Decides(t, q) <=> HasNode(t, q) \/ \E n \in 0..Len(q) - 1 : Stops(q, n)
  BY Zenon DEF Decides
<1>5. Decides(t, p) <=> HasNode(t, p) \/ \E n \in 0..Len(p) - 1 : Stops(p, n)
  BY Zenon DEF Decides
\* A path that has a node stops at no map before it.
<1>6. ASSUME HasNode(t, p), NEW n \in 0..Len(p) - 1, Stops(p, n) PROVE FALSE
  <2>1. n + 1 \in 1..Len(p) /\ (n + 1) - 1 = n
    BY <1>1
  <2>2. IsMap(Node(t, SubSeq(p, 1, (n + 1) - 1)))
    BY <1>6, <2>1, Zenon DEF HasNode
  <2> QED BY <1>6, <2>1, <2>2
<1> HIDE DEF Stops, q
<1>7. (\E n \in 0..Len(q) - 1 : Stops(q, n))
        <=> (\E n \in 0..Len(p) - 1 : Stops(p, n)) \/ Stops(q, Len(p))
  BY <1>2, <1>3, Zenon
<1> QED BY <1>3, <1>4, <1>5, <1>6, <1>7 DEF q

-----------------------------------------------------------------------------
\* The recursion of deepMerge.

\* Merging two nodes looks below the keys both of them have, and nowhere else.
LEMMA MergeNodesLooksBelow ==
  ASSUME NEW a, NEW b, NEW f, NEW g,
         IsMap(a) /\ IsMap(b) => \A k \in DOMAIN a.map \intersect DOMAIN b.map : f[k] = g[k]
  PROVE  mergeNodes(a, b, f) = mergeNodes(a, b, g)
<1>1. CASE ~IsMap(a) \/ ~IsMap(b)
  BY <1>1 DEF mergeNodes
<1>2. CASE IsMap(a) /\ IsMap(b)
  <2> DEFINE D == DOMAIN a.map \union DOMAIN b.map
             At(h, k) == IF k \notin DOMAIN b.map THEN a.map[k]
                         ELSE IF k \notin DOMAIN a.map THEN b.map[k]
                         ELSE h[k]
  <2>1. \A k \in D : At(f, k) = At(g, k)
    BY <1>2
  <2>2. [k \in D |-> At(f, k)] = [k \in D |-> At(g, k)]
    <3> HIDE DEF At, D
    <3> QED BY <2>1
  <2>3. /\ mergeNodes(a, b, f) = Map([k \in D |-> At(f, k)])
        /\ mergeNodes(a, b, g) = Map([k \in D |-> At(g, k)])
    BY <1>2 DEF mergeNodes
  <2> HIDE DEF At, D
  <2> QED BY <2>2, <2>3
<1> QED BY <1>1, <1>2

\* What merging two nodes gives.
LEMMA MergedNode ==
  ASSUME NEW a, NEW b, NEW below
  PROVE  LET m == mergeNodes(a, b, below)
         IN  /\ ~IsMap(a) \/ ~IsMap(b) => m = b
             /\ IsMap(a) /\ IsMap(b) =>
                  /\ IsMap(m) /\ DOMAIN m.map = DOMAIN a.map \union DOMAIN b.map
                  /\ \A k \in DOMAIN a.map : k \notin DOMAIN b.map => m.map[k] = a.map[k]
                  /\ \A k \in DOMAIN b.map : k \notin DOMAIN a.map => m.map[k] = b.map[k]
                  /\ \A k \in DOMAIN a.map : k \in DOMAIN b.map => m.map[k] = below[k]
  BY DEF mergeNodes, IsMap, Map

\* Two nodes both trees have, with a key both of them have.
LEMMA SharedNext ==
  ASSUME NEW a, NEW b, IsTree(a), NEW p \in Path, HasNode(a, p), HasNode(b, p),
         IsMap(Node(a, p)), IsMap(Node(b, p)),
         NEW k \in DOMAIN Node(a, p).map, k \in DOMAIN Node(b, p).map
  PROVE  k \in Key /\ Append(p, k) \in Shared(a, b) /\ Len(Append(p, k)) = Len(p) + 1
<1>1. Len(p) < MaxDepth /\ k \in Key /\ p \in Seq(Key)
  BY Paths DEF IsTree, IsTreeOf
<1>2. Append(p, k) \in Seq(Key) /\ Append(p, k) # <<>> /\ Len(Append(p, k)) = Len(p) + 1 /\ Len(p) \in Nat
  BY <1>1, Longer
<1>3. Append(p, k) \in Path
  <2>1. Len(Append(p, k)) <= MaxDepth
    BY <1>1, <1>2, DepthAssumption
  <2> QED BY <1>2, <2>1, Paths, Zenon
<1>4. HasNode(a, Append(p, k)) /\ HasNode(b, Append(p, k))
  BY <1>1, NextHasNode
<1> QED BY <1>1, <1>2, <1>3, <1>4 DEF Shared

\* The recursion is well defined: it ends at the deepest path.
LEMMA MergedRecursion ==
  ASSUME NEW a, NEW b, IsTree(a)
  PROVE  \E f : /\ \A p \in Shared(a, b) :
                     f[p] = mergeNodes(Node(a, p), Node(b, p), [k \in Key |-> f[Append(p, k)]])
                /\ deepMerge(a, b) = mergeNodes(a, b, [k \in Key |-> f[<<k>>]])
<1> DEFINE S == Shared(a, b)
           step(f, p) == mergeNodes(Node(a, p), Node(b, p), [k \in Key |-> f[Append(p, k)]])
           H(f) == [p \in S |-> step(f, p)]
           c == CHOOSE f : f = H(f)
           \* f is right at the paths with fewer than d keys to go.
           Right(f, d) == \A p \in S : Len(p) + d > MaxDepth => f[p] = step(f, p)
           K == {d \in Nat : \E f : f = [p \in S |-> f[p]] /\ Right(f, d)}
<1>1. deepMerge(a, b) = mergeNodes(a, b, [k \in Key |-> c[<<k>>]])
  BY Zenon DEF deepMerge
<1>2. \A p \in S : p \in Path /\ HasNode(a, p) /\ HasNode(b, p) /\ Len(p) \in Nat /\ Len(p) <= MaxDepth
  BY Paths DEF Shared
<1>3. ASSUME NEW p \in S, NEW f, NEW g,
             \A q \in S : Len(q) = Len(p) + 1 => f[q] = g[q]
      PROVE  step(f, p) = step(g, p)
  <2> DEFINE x == Node(a, p)
             y == Node(b, p)
             below(h) == [k \in Key |-> h[Append(p, k)]]
  <2>1. ASSUME IsMap(x), IsMap(y), NEW k \in DOMAIN x.map \intersect DOMAIN y.map
        PROVE  below(f)[k] = below(g)[k]
    <3>1. k \in Key /\ Append(p, k) \in S /\ Len(Append(p, k)) = Len(p) + 1
      BY <1>2, <2>1, SharedNext
    <3>2. f[Append(p, k)] = g[Append(p, k)]
      BY <1>3, <3>1
    <3> QED BY <3>1, <3>2
  <2> HIDE DEF x, y, below
  <2>2. mergeNodes(x, y, below(f)) = mergeNodes(x, y, below(g))
    BY <2>1, MergeNodesLooksBelow
  <2> QED BY <2>2 DEF x, y, below
<1> HIDE DEF step, S
<1>4. 0 \in K
  <2> DEFINE f == [p \in S |-> p]
  <2>1. f = [p \in S |-> f[p]]
    OBVIOUS
  <2>2. Right(f, 0)
    BY <1>2, DepthAssumption
  <2> HIDE DEF Right, f
  <2> QED BY <2>1, <2>2
<1>5. ASSUME NEW d \in Nat, d \in K PROVE d + 1 \in K
  <2>1. PICK f : f = [p \in S |-> f[p]] /\ Right(f, d)
    BY <1>5
  <2> DEFINE g == [p \in S |-> step(f, p)]
  <2>2. ASSUME NEW p \in S, Len(p) + d > MaxDepth PROVE g[p] = f[p]
    BY <2>1, <2>2
  <2>3. ASSUME NEW p \in S, Len(p) + (d + 1) > MaxDepth PROVE g[p] = step(g, p)
    <3>1. \A q \in S : Len(q) = Len(p) + 1 => g[q] = f[q]
      <4>1. \A q \in S : Len(q) = Len(p) + 1 => Len(q) + d > MaxDepth
        BY <1>2, <2>3, DepthAssumption
      <4> HIDE DEF g
      <4> QED BY <4>1, <2>2
    <3>2. step(g, p) = step(f, p)
      <4> HIDE DEF g
      <4> QED BY <3>1, <1>3
    <3> QED BY <3>2
  <2>4. g = [p \in S |-> g[p]]
    OBVIOUS
  <2>5. Right(g, d + 1)
    <3> HIDE DEF g
    <3> QED BY <2>3
  <2> HIDE DEF g, Right
  <2> QED BY <2>4, <2>5
<1>6. \E f : f = H(f)
  <2>1. MaxDepth + 1 \in K
    <3> HIDE DEF K
    <3>1. Nat \subseteq K
      BY <1>4, <1>5, SetInduction, Zenon
    <3> QED BY <3>1, DepthAssumption
  <2>2. PICK f : f = [p \in S |-> f[p]] /\ Right(f, MaxDepth + 1)
    BY <2>1
  <2>3. \A p \in S : Len(p) + (MaxDepth + 1) > MaxDepth
    BY <1>2, DepthAssumption
  <2>4. \A p \in S : f[p] = step(f, p)
    BY <2>2, <2>3
  <2>5. f = H(f)
    BY <2>2, <2>4
  <2> QED BY <2>5
<1>7. c = H(c)
  <2> HIDE DEF H
  <2> QED BY <1>6
<1> HIDE DEF c
<1>8. \A p \in S : c[p] = step(c, p)
  <2>1. \A p \in S : c[p] = H(c)[p]
    <3> HIDE DEF H
    <3> QED BY <1>7
  <2> QED BY <2>1
<1> QED BY <1>1, <1>8 DEF step, S

-----------------------------------------------------------------------------
\* Who a path of the merged tree belongs to.

\* Both trees have a node at p and the merged tree has their merge; or the
\* node is b's alone, or a's alone; or the merged tree has none.
Both(a, b, m, f, p) ==
  /\ HasNode(a, p) /\ HasNode(b, p) /\ HasNode(m, p)
  /\ Node(m, p) = mergeNodes(Node(a, p), Node(b, p), [k \in Key |-> f[Append(p, k)]])

OnlyB(a, b, m, p) ==
  ~HasNode(a, p) /\ HasNode(b, p) /\ HasNode(m, p) /\ Node(m, p) = Node(b, p)

OnlyA(a, b, m, p) ==
  /\ HasNode(a, p) /\ ~HasNode(b, p) /\ ~Decides(b, p)
  /\ HasNode(m, p) /\ Node(m, p) = Node(a, p)

Neither(a, b, m, p) ==
  ~HasNode(b, p) /\ ~HasNode(m, p) /\ (~HasNode(a, p) \/ Decides(b, p))

Owned(a, b, m, f, p) ==
  Both(a, b, m, f, p) \/ OnlyB(a, b, m, p) \/ OnlyA(a, b, m, p) \/ Neither(a, b, m, p)

LEMMA MergeOwns ==
  ASSUME NEW a, NEW b, IsTree(a), IsTree(b),
         NEW f, \A p \in Shared(a, b) :
                  f[p] = mergeNodes(Node(a, p), Node(b, p), [k \in Key |-> f[Append(p, k)]]),
         NEW m, m = mergeNodes(a, b, [k \in Key |-> f[<<k>>]])
  PROVE  \A p \in Path : Owned(a, b, m, f, p)
<1> DEFINE below(p) == [k \in Key |-> f[Append(p, k)]]
           S == {p \in Path : Owned(a, b, m, f, p)}
<1>1. <<>> \in S
  <2>1. \A k \in Key : Append(<<>>, k) = <<k>>
    OBVIOUS
  <2>2. below(<<>>) = [k \in Key |-> f[<<k>>]]
    BY <2>1
  <2>3. Both(a, b, m, f, <<>>)
    BY <2>2, RootNode DEF Both
  <2> QED BY <2>3, Paths DEF Owned
<1>2. ASSUME NEW p \in Path, NEW k \in Key, p \in S, Append(p, k) \in Path
      PROVE  Append(p, k) \in S
  <2> DEFINE q == Append(p, k)
  <2>1. p \in Seq(Key)
    BY Paths
  <2>2. \A t \in {a, b, m} :
          /\ Node(t, q) = Node(t, p).map[k]
          /\ HasNode(t, q) <=> HasNode(t, p) /\ IsMap(Node(t, p)) /\ k \in DOMAIN Node(t, p).map
    BY <2>1, NextNode, NextHasNode
  <2>3. Decides(b, q) <=> \/ HasNode(b, q)
                          \/ HasNode(b, p) /\ ~IsMap(Node(b, p))
                          \/ Decides(b, p) /\ ~HasNode(b, p)
    BY <2>1, NextDecides
  <2>4. ASSUME Both(a, b, m, f, p) PROVE Owned(a, b, m, f, q)
    <3> DEFINE x == Node(a, p)
               y == Node(b, p)
               z == Node(m, p)
    <3>1. /\ HasNode(a, p) /\ HasNode(b, p) /\ HasNode(m, p)
          /\ z = mergeNodes(x, y, below(p))
      BY <2>4 DEF Both
    <3>2. Decides(b, p)
      BY <3>1 DEF Decides
    <3>3. CASE ~IsMap(x) \/ ~IsMap(y)
      <4>1. z = y
        BY <3>1, <3>3, MergedNode
      <4> QED BY <2>2, <2>3, <3>1, <3>3, <4>1 DEF Owned, OnlyB, Neither
    <3>4. CASE IsMap(x) /\ IsMap(y)
      <4>1. /\ IsMap(z) /\ DOMAIN z.map = DOMAIN x.map \union DOMAIN y.map
            /\ k \in DOMAIN x.map /\ k \notin DOMAIN y.map => z.map[k] = x.map[k]
            /\ k \in DOMAIN y.map /\ k \notin DOMAIN x.map => z.map[k] = y.map[k]
            /\ k \in DOMAIN x.map /\ k \in DOMAIN y.map => z.map[k] = below(p)[k]
        <5> HIDE DEF x, y, z, below
        <5> QED BY <3>1, <3>4, MergedNode
      <4>2. CASE k \in DOMAIN x.map /\ k \in DOMAIN y.map
        <5>1. q \in Shared(a, b)
          BY <3>1, <3>4, <4>2, SharedNext
        <5>2. f[q] = mergeNodes(Node(a, q), Node(b, q), [j \in Key |-> f[Append(q, j)]])
          BY <5>1
        <5>3. Node(m, q) = f[q]
          BY <2>2, <4>1, <4>2
        <5>4. HasNode(a, q) /\ HasNode(b, q) /\ HasNode(m, q)
          BY <2>2, <3>1, <3>4, <4>1, <4>2
        <5> HIDE DEF q
        <5> QED BY <5>2, <5>3, <5>4 DEF Owned, Both
      <4>3. CASE k \notin DOMAIN x.map /\ k \in DOMAIN y.map
        <5>1. OnlyB(a, b, m, q)
          BY <2>2, <3>1, <3>4, <4>1, <4>3 DEF OnlyB
        <5> QED BY <5>1 DEF Owned
      <4>4. CASE k \in DOMAIN x.map /\ k \notin DOMAIN y.map
        <5>1. OnlyA(a, b, m, q)
          BY <2>2, <2>3, <3>1, <3>4, <4>1, <4>4 DEF OnlyA
        <5> QED BY <5>1 DEF Owned
      <4>5. CASE k \notin DOMAIN x.map /\ k \notin DOMAIN y.map
        <5>1. Neither(a, b, m, q)
          BY <2>2, <3>1, <3>4, <4>1, <4>5 DEF Neither
        <5> QED BY <5>1 DEF Owned
      <4> QED BY <4>2, <4>3, <4>4, <4>5
    <3> QED BY <3>3, <3>4
  <2>5. ASSUME OnlyB(a, b, m, p) PROVE Owned(a, b, m, f, q)
    <3>1. OnlyB(a, b, m, q) \/ Neither(a, b, m, q)
      BY <2>2, <2>5 DEF OnlyB, Neither
    <3> QED BY <3>1 DEF Owned
  <2>6. ASSUME OnlyA(a, b, m, p) PROVE Owned(a, b, m, f, q)
    <3>1. OnlyA(a, b, m, q) \/ Neither(a, b, m, q)
      BY <2>2, <2>3, <2>6 DEF OnlyA, Neither
    <3> QED BY <3>1 DEF Owned
  <2>7. ASSUME Neither(a, b, m, p) PROVE Owned(a, b, m, f, q)
    <3>1. Neither(a, b, m, q)
      BY <2>2, <2>3, <2>7 DEF Neither
    <3> QED BY <3>1 DEF Owned
  <2> QED BY <1>2, <2>4, <2>5, <2>6, <2>7 DEF Owned
<1>3. Path \subseteq S
  <2> HIDE DEF S
  <2> QED BY <1>1, <1>2, PathInduction
<1> QED BY <1>3

\* Every two trees have an owner for every path of their merge.
LEMMA MergeIsOwned ==
  ASSUME NEW a, NEW b, IsTree(a), IsTree(b)
  PROVE  \E f : \A p \in Path : Owned(a, b, deepMerge(a, b), f, p)
<1>1. PICK f : /\ \A p \in Shared(a, b) :
                    f[p] = mergeNodes(Node(a, p), Node(b, p), [k \in Key |-> f[Append(p, k)]])
               /\ deepMerge(a, b) = mergeNodes(a, b, [k \in Key |-> f[<<k>>]])
  BY MergedRecursion
<1>2. \A p \in Path : Owned(a, b, deepMerge(a, b), f, p)
  BY <1>1, MergeOwns
<1> QED BY <1>2

\* Where both trees have a node the merge has b's, or a map of the keys of both.
LEMMA MergeOfBoth ==
  ASSUME NEW a, NEW b, NEW m, NEW f, NEW p, Both(a, b, m, f, p)
  PROVE  /\ HasNode(a, p) /\ HasNode(b, p) /\ HasNode(m, p) /\ Decides(b, p)
         /\ \/ Node(m, p) = Node(b, p)
            \/ /\ IsMap(Node(a, p)) /\ IsMap(Node(b, p)) /\ IsMap(Node(m, p))
               /\ DOMAIN Node(m, p).map = DOMAIN Node(a, p).map \union DOMAIN Node(b, p).map
<1>1. /\ HasNode(a, p) /\ HasNode(b, p) /\ HasNode(m, p)
      /\ Node(m, p) = mergeNodes(Node(a, p), Node(b, p), [k \in Key |-> f[Append(p, k)]])
  BY DEF Both
<1>2. Decides(b, p)
  BY <1>1 DEF Decides
<1> QED BY <1>1, <1>2, MergedNode

\* A merge is as deep as the deeper of its trees.
LEMMA MergeKeepsDepth ==
  ASSUME NEW a, NEW b, IsTree(a), IsTree(b),
         NEW d, IsTreeOf(a, d), IsTreeOf(b, d)
  PROVE  IsTreeOf(deepMerge(a, b), d)
<1> DEFINE m == deepMerge(a, b)
<1>1. PICK f : \A p \in Path : Owned(a, b, m, f, p)
  BY MergeIsOwned
<1> HIDE DEF m
<1> SUFFICES ASSUME NEW p \in Path, HasNode(m, p), IsMap(Node(m, p))
             PROVE  Len(p) < d /\ DOMAIN Node(m, p).map \subseteq Key
  BY DEF IsTreeOf, m
<1>2. CASE Both(a, b, m, f, p)
  <2>1. CASE Node(m, p) = Node(b, p)
    BY <1>2, <2>1, MergeOfBoth DEF IsTreeOf
  <2>2. CASE Node(m, p) # Node(b, p)
    <3>1. /\ HasNode(a, p) /\ HasNode(b, p) /\ IsMap(Node(a, p)) /\ IsMap(Node(b, p))
          /\ DOMAIN Node(m, p).map = DOMAIN Node(a, p).map \union DOMAIN Node(b, p).map
      BY <1>2, <2>2, MergeOfBoth
    <3>2. /\ Len(p) < d
          /\ DOMAIN Node(a, p).map \subseteq Key /\ DOMAIN Node(b, p).map \subseteq Key
      BY <3>1 DEF IsTreeOf
    <3> QED BY <3>1, <3>2
  <2> QED BY <2>1, <2>2
<1>3. CASE OnlyB(a, b, m, p)
  BY <1>3 DEF OnlyB, IsTreeOf
<1>4. CASE OnlyA(a, b, m, p)
  BY <1>4 DEF OnlyA, IsTreeOf
<1>5. CASE Neither(a, b, m, p)
  BY <1>5 DEF Neither
<1> QED BY <1>1, <1>2, <1>3, <1>4, <1>5 DEF Owned

\* The meaning of deepMerge, path by path: b where it decides, a elsewhere.
LEMMA MergeOfTwo ==
  ASSUME NEW a, NEW b, IsTree(a), IsTree(b)
  PROVE  LET m == deepMerge(a, b)
         IN  \A p \in Path :
               /\ Decides(b, p) =>
                    /\ HasNode(m, p) <=> HasNode(b, p)
                    /\ HasNode(m, p) =>
                         /\ IsMap(Node(m, p)) <=> IsMap(Node(b, p))
                         /\ ~IsMap(Node(m, p)) => Node(m, p) = Node(b, p)
               /\ ~Decides(b, p) =>
                    /\ HasNode(m, p) <=> HasNode(a, p)
                    /\ HasNode(m, p) => Node(m, p) = Node(a, p)
<1> DEFINE m == deepMerge(a, b)
<1>1. PICK f : \A p \in Path : Owned(a, b, m, f, p)
  BY MergeIsOwned
<1> HIDE DEF m
<1>2. ASSUME NEW p \in Path
      PROVE  /\ Decides(b, p) =>
                  /\ HasNode(m, p) <=> HasNode(b, p)
                  /\ HasNode(m, p) =>
                       /\ IsMap(Node(m, p)) <=> IsMap(Node(b, p))
                       /\ ~IsMap(Node(m, p)) => Node(m, p) = Node(b, p)
             /\ ~Decides(b, p) =>
                  /\ HasNode(m, p) <=> HasNode(a, p)
                  /\ HasNode(m, p) => Node(m, p) = Node(a, p)
  <2>1. CASE Both(a, b, m, f, p)
    BY <2>1, MergeOfBoth
  <2>2. CASE OnlyB(a, b, m, p)
    BY <2>2 DEF OnlyB, Decides
  <2>3. CASE OnlyA(a, b, m, p)
    BY <2>3 DEF OnlyA
  <2>4. CASE Neither(a, b, m, p)
    BY <2>4 DEF Neither
  <2> QED BY <1>1, <2>1, <2>2, <2>3, <2>4 DEF Owned
<1> QED BY <1>2 DEF m

-----------------------------------------------------------------------------
\* Merging one more tree.

\* Nothing merged is the empty map.
LEMMA MergeOfNone ==
  /\ \A d \in Nat : d # 0 => IsTreeOf(Empty, d)
  /\ IsTree(Empty) /\ IsMergeOf(Empty, <<>>)
<1>1. Empty.map = <<>> /\ DOMAIN <<>> = {} /\ Len(<<>>) = 0
  BY DEF Empty, Map
<1>2. ASSUME NEW p \in Path, p # <<>> PROVE ~HasNode(Empty, p)
  <2>1. p \in Seq(Key)
    BY Paths
  <2>2. 1 \in 1..Len(p) /\ SubSeq(p, 1, 1 - 1) = <<>>
    BY <1>2, <2>1
  <2>3. HasNode(Empty, p) => p[1] \in DOMAIN Node(Empty, SubSeq(p, 1, 1 - 1)).map
    BY <2>2, Zenon DEF HasNode
  <2> QED BY <1>1, <2>2, <2>3, RootNode
<1>3. /\ \A d \in Nat : d # 0 => IsTreeOf(Empty, d)
      /\ IsTree(Empty)
  BY <1>1, <1>2, RootNode, DepthAssumption DEF IsTree, IsTreeOf
<1>4. IsMergeOf(Empty, <<>>)
  <2>1. \A p \in Path : {i \in 1..Len(<<>>) : Decides(<<>>[i], p)} = {}
    BY <1>1
  <2> QED BY <1>2, <2>1 DEF IsMergeOf
<1> QED BY <1>3, <1>4

\* The last of a set of numbers up to n.
LEMMA LastOf ==
  ASSUME NEW n \in Nat, NEW S, S \subseteq 1..n, S # {}
  PROVE  \E i \in S : \A j \in S : j <= i
<1> DEFINE K == {m \in Nat : \A T : T \subseteq 1..m /\ T # {} => \E i \in T : \A j \in T : j <= i}
<1>1. 0 \in K
  OBVIOUS
<1>2. ASSUME NEW m \in Nat, m \in K PROVE m + 1 \in K
  <2> SUFFICES ASSUME NEW T, T \subseteq 1..m + 1, T # {} PROVE \E i \in T : \A j \in T : j <= i
    OBVIOUS
  <2>1. CASE m + 1 \in T
    BY <2>1
  <2>2. CASE m + 1 \notin T
    <3>1. T \subseteq 1..m
      BY <2>2
    <3> QED BY <1>2, <3>1
  <2> QED BY <2>1, <2>2
<1>3. n \in K
  <2> HIDE DEF K
  <2> QED BY <1>1, <1>2, SetInduction, Zenon
<1> QED BY <1>3

\* One more tree merged on top is obeyed wherever it decides.
LEMMA MergeOfOneMore ==
  ASSUME NEW t, NEW ts, IsTree(t), Len(ts) \in Nat, IsMergeOf(t, ts),
         NEW b, IsTree(b),
         NEW more, Len(more) = Len(ts) + 1, more[Len(ts) + 1] = b,
         \A i \in 1..Len(ts) : more[i] = ts[i]
  PROVE  IsTree(deepMerge(t, b)) /\ IsMergeOf(deepMerge(t, b), more)
<1> DEFINE m == deepMerge(t, b)
           n == Len(ts)
           deciders(s, p) == {i \in 1..Len(s) : Decides(s[i], p)}
           last(s, p) == CHOOSE i \in deciders(s, p) : \A j \in deciders(s, p) : j <= i
           Obeys(x, y, p) == /\ HasNode(x, p) <=> HasNode(y, p)
                             /\ HasNode(x, p) =>
                                  /\ IsMap(Node(x, p)) <=> IsMap(Node(y, p))
                                  /\ ~IsMap(Node(x, p)) => Node(x, p) = Node(y, p)
<1>1. /\ IsTree(m)
      /\ \A p \in Path :
           /\ Decides(b, p) => Obeys(m, b, p)
           /\ ~Decides(b, p) => /\ HasNode(m, p) <=> HasNode(t, p)
                                /\ HasNode(m, p) => Node(m, p) = Node(t, p)
  BY MergeOfTwo, MergeKeepsDepth DEF IsTree
<1> HIDE DEF m
<1>2. ASSUME NEW p \in Path
      PROVE  IF deciders(more, p) = {} THEN ~HasNode(m, p) \/ p = <<>>
             ELSE Obeys(m, more[last(more, p)], p)
  <2>1. CASE Decides(b, p)
    <3>1. n + 1 \in deciders(more, p) /\ \A j \in deciders(more, p) : j <= n + 1
      BY <2>1
    <3>2. last(more, p) \in deciders(more, p) /\ \A j \in deciders(more, p) : j <= last(more, p)
      <4> HIDE DEF deciders
      <4> QED BY <3>1
    <3>3. last(more, p) = n + 1
      <4>1. last(more, p) \in 1..n + 1
        BY <3>2
      <4> HIDE DEF last, deciders
      <4> QED BY <3>1, <3>2, <4>1
    <3>4. Obeys(m, b, p)
      BY <1>1, <2>1
    <3> HIDE DEF Obeys, last
    <3> QED BY <3>1, <3>3, <3>4
  <2>2. CASE ~Decides(b, p)
    <3>1. deciders(more, p) = deciders(ts, p)
      BY <2>2
    <3>2. last(more, p) = last(ts, p)
      <4> HIDE DEF deciders
      <4> QED BY <3>1
    <3>3. IF deciders(ts, p) = {} THEN ~HasNode(t, p) \/ p = <<>>
          ELSE Obeys(t, ts[last(ts, p)], p)
      BY Zenon DEF IsMergeOf
    <3>4. CASE deciders(ts, p) = {}
      BY <1>1, <2>2, <3>1, <3>3, <3>4
    <3>5. CASE deciders(ts, p) # {}
      <4>1. \E i \in deciders(ts, p) : \A j \in deciders(ts, p) : j <= i
        <5>1. deciders(ts, p) \subseteq 1..n
          OBVIOUS
        <5> HIDE DEF deciders
        <5> QED BY <3>5, <5>1, LastOf
      <4>2. last(ts, p) \in deciders(ts, p)
        <5> HIDE DEF deciders
        <5> QED BY <4>1
      <4>3. last(ts, p) \in 1..n
        BY <4>2
      <4>4. Obeys(t, more[last(more, p)], p)
        <5> HIDE DEF last, deciders, Obeys
        <5> QED BY <3>2, <3>3, <3>5, <4>3
      <4> HIDE DEF last
      <4>5. Obeys(m, more[last(more, p)], p)
        BY <1>1, <2>2, <4>4
      <4> HIDE DEF deciders, Obeys
      <4> QED BY <3>1, <3>5, <4>5
    <3> QED BY <3>4, <3>5
  <2> QED BY <2>1, <2>2
<1>3. IsMergeOf(m, more)
  BY <1>2 DEF IsMergeOf
<1> QED BY <1>1, <1>3 DEF m

-----------------------------------------------------------------------------
\* The depth of a tree, one level at a time.

\* A path starts with a key of the root and goes on in what is there.
LEMMA PathFromRoot ==
  ASSUME NEW t, NEW q \in Path, q # <<>>
  PROVE  /\ HasNode(t, q) <=>
              /\ IsMap(t) /\ Head(q) \in DOMAIN t.map
              /\ HasNode(t.map[Head(q)], Tail(q))
         /\ Node(t, q) = Node(t.map[Head(q)], Tail(q))
<1> DEFINE From(r) == /\ HasNode(t, r) <=>
                           /\ IsMap(t) /\ Head(r) \in DOMAIN t.map
                           /\ HasNode(t.map[Head(r)], Tail(r))
                      /\ Node(t, r) = Node(t.map[Head(r)], Tail(r))
           S == {r \in Path : r # <<>> => From(r)}
<1>1. <<>> \in S
  BY Paths
<1>2. ASSUME NEW p \in Path, NEW k \in Key, p \in S, Append(p, k) \in Path
      PROVE  Append(p, k) \in S
  <2> DEFINE r == Append(p, k)
             h == Head(r)
  <2>1. p \in Seq(Key)
    BY Paths
  <2>2. /\ HasNode(t, r) <=> HasNode(t, p) /\ IsMap(Node(t, p)) /\ k \in DOMAIN Node(t, p).map
        /\ Node(t, r) = Node(t, p).map[k]
    BY <2>1, NextNode, NextHasNode
  <2>3. CASE p = <<>>
    <3>1. h = k /\ Tail(r) = <<>>
      BY <2>3, <2>1, HeadTailAppend
    <3>2. Node(t, p) = t /\ HasNode(t, p)
      BY <2>3, RootNode
    <3>3. Node(t.map[k], <<>>) = t.map[k] /\ HasNode(t.map[k], <<>>)
      BY RootNode
    <3>4. From(r)
      <4> HIDE DEF r
      <4> QED BY <2>2, <3>1, <3>2, <3>3
    <3> HIDE DEF From
    <3> QED BY <1>2, <3>4
  <2>4. CASE p # <<>>
    <3>1. h = Head(p) /\ Tail(r) = Append(Tail(p), k) /\ Tail(p) \in Seq(Key)
      BY <2>4, <2>1, HeadTailAppend, HeadTailProperties
    <3>2. From(p)
      BY <1>2, <2>4
    <3> DEFINE u == t.map[Head(p)]
    <3>3. /\ HasNode(u, Append(Tail(p), k)) <=>
                HasNode(u, Tail(p)) /\ IsMap(Node(u, Tail(p))) /\ k \in DOMAIN Node(u, Tail(p)).map
          /\ Node(u, Append(Tail(p), k)) = Node(u, Tail(p)).map[k]
      BY <3>1, NextNode, NextHasNode
    <3>4. From(r)
      <4> HIDE DEF r
      <4> QED BY <2>2, <3>1, <3>2, <3>3
    <3> HIDE DEF From
    <3> QED BY <1>2, <3>4
  <2> QED BY <2>3, <2>4
<1>3. Path \subseteq S
  <2> HIDE DEF S
  <2> QED BY <1>1, <1>2, PathInduction
<1> QED BY <1>3

\* What is no map has depth 0, and a tree of some depth has every greater one.
LEMMA NoMap ==
  ASSUME NEW t, ~IsMap(t), NEW d
  PROVE  IsTreeOf(t, d)
<1> SUFFICES ASSUME NEW p \in Path, HasNode(t, p), IsMap(Node(t, p)) PROVE FALSE
  BY DEF IsTreeOf
<1>1. CASE p = <<>>
  BY <1>1, RootNode
<1>2. CASE p # <<>>
  BY <1>2, PathFromRoot
<1> QED BY <1>1, <1>2

LEMMA Deeper ==
  ASSUME NEW t, NEW d \in Nat, NEW e \in Nat, d <= e, IsTreeOf(t, d)
  PROVE  IsTreeOf(t, e)
<1> SUFFICES ASSUME NEW p \in Path, HasNode(t, p), IsMap(Node(t, p))
             PROVE  Len(p) < e /\ DOMAIN Node(t, p).map \subseteq Key
  BY DEF IsTreeOf
<1>1. Len(p) < d /\ DOMAIN Node(t, p).map \subseteq Key
  BY DEF IsTreeOf
<1>2. Len(p) \in Nat
  BY Paths
<1> QED BY <1>1, <1>2

\* A map is one deeper than what it holds.
LEMMA MapOf ==
  ASSUME NEW t, DOMAIN t.map \subseteq Key,
         NEW d \in Nat, \A k \in DOMAIN t.map : IsTreeOf(t.map[k], d)
  PROVE  IsTreeOf(t, d + 1)
<1> SUFFICES ASSUME NEW p \in Path, HasNode(t, p), IsMap(Node(t, p))
             PROVE  Len(p) < d + 1 /\ DOMAIN Node(t, p).map \subseteq Key
  BY DEF IsTreeOf
<1>1. p \in Seq(Key) /\ Len(p) \in Nat /\ Len(p) <= MaxDepth
  BY Paths
<1>2. CASE p = <<>>
  BY <1>2, RootNode
<1>3. CASE p # <<>>
  <2>1. /\ Tail(p) \in Seq(Key) /\ Len(Tail(p)) = Len(p) - 1
    BY <1>1, <1>3, HeadTailProperties
  <2>2. Tail(p) \in Path
    <3>1. Len(Tail(p)) <= MaxDepth
      BY <1>1, <2>1, DepthAssumption
    <3> QED BY <2>1, <3>1, Paths
  <2> DEFINE u == t.map[Head(p)]
  <2>3. /\ Head(p) \in DOMAIN t.map /\ HasNode(u, Tail(p))
        /\ Node(t, p) = Node(u, Tail(p))
    BY <1>3, PathFromRoot
  <2>4. IsTreeOf(u, d)
    BY <2>3
  <2> HIDE DEF u
  <2>5. Len(Tail(p)) < d /\ DOMAIN Node(u, Tail(p)).map \subseteq Key
    BY <2>2, <2>3, <2>4 DEF IsTreeOf
  <2> QED BY <1>1, <2>1, <2>3, <2>5
<1> QED BY <1>2, <1>3

\* A key put in front of a path.
LEMMA KeyInFront ==
  ASSUME NEW k \in Key, NEW p \in Seq(Key)
  PROVE  LET q == <<k>> \o p
         IN  /\ q \in Seq(Key) /\ q # <<>> /\ Len(q) = Len(p) + 1
             /\ Head(q) = k /\ Tail(q) = p
<1> DEFINE q == <<k>> \o p
<1>1. <<k>> \in Seq(Key) /\ Len(<<k>>) = 1 /\ <<k>>[1] = k
  OBVIOUS
<1>2. /\ q \in Seq(Key) /\ Len(q) = 1 + Len(p)
      /\ \A i \in 1..1 + Len(p) : q[i] = IF i <= 1 THEN k ELSE p[i - 1]
  <2>1. /\ q \in Seq(Key) /\ Len(q) = Len(<<k>>) + Len(p)
        /\ \A i \in 1..Len(<<k>>) + Len(p) : q[i] = IF i <= Len(<<k>>) THEN <<k>>[i] ELSE p[i - Len(<<k>>)]
    BY <1>1, ConcatProperties
  <2> HIDE DEF q
  <2>2. \A i \in 1..1 + Len(p) : q[i] = IF i <= 1 THEN k ELSE p[i - 1]
    BY <1>1, <2>1
  <2> QED BY <1>1, <2>1, <2>2
<1> HIDE DEF q
<1>3. Len(p) \in Nat /\ q # <<>>
  BY <1>2
<1>4. Head(q) = k
  BY <1>2, <1>3
<1>5. /\ Tail(q) \in Seq(Key) /\ Len(Tail(q)) = Len(p)
      /\ \A i \in 1..Len(Tail(q)) : Tail(q)[i] = q[i + 1]
  BY <1>2, <1>3, HeadTailProperties
<1>6. \A i \in 1..Len(p) : Tail(q)[i] = p[i]
  BY <1>2, <1>3, <1>5
<1>7. Tail(q) = p
  BY <1>5, <1>6, SeqEqual
<1> QED BY <1>2, <1>3, <1>4, <1>7 DEF q

\* What a map holds is one less deep than the map.
LEMMA Below ==
  ASSUME NEW t, IsMap(t), NEW d \in Nat, d <= MaxDepth, IsTreeOf(t, d)
  PROVE  /\ d # 0 /\ DOMAIN t.map \subseteq Key
         /\ \A k \in DOMAIN t.map : IsTreeOf(t.map[k], d - 1)
<1>1. <<>> \in Path /\ HasNode(t, <<>>) /\ Node(t, <<>>) = t /\ Len(<<>>) = 0
  BY Paths, RootNode
<1>2. 0 < d /\ DOMAIN t.map \subseteq Key
  BY <1>1 DEF IsTreeOf
\* What a path below a key leads to is what the path with the key in front does.
<1>3. ASSUME NEW k \in DOMAIN t.map, NEW p \in Path, Len(p) < MaxDepth,
             HasNode(t.map[k], p), IsMap(Node(t.map[k], p))
      PROVE  Len(p) < d - 1 /\ DOMAIN Node(t.map[k], p).map \subseteq Key
  <2> DEFINE q == <<k>> \o p
  <2>1. p \in Seq(Key) /\ Len(p) \in Nat /\ k \in Key
    BY <1>2, Paths
  <2>2. q \in Seq(Key) /\ q # <<>> /\ Len(q) = Len(p) + 1 /\ Head(q) = k /\ Tail(q) = p
    BY <2>1, KeyInFront
  <2> HIDE DEF q
  <2>3. q \in Path
    <3>1. Len(q) <= MaxDepth
      BY <1>3, <2>1, <2>2, DepthAssumption
    <3> QED BY <2>2, <3>1, Paths
  <2>4. HasNode(t, q) /\ Node(t, q) = Node(t.map[k], p)
    BY <1>3, <2>2, <2>3, PathFromRoot
  <2>5. Len(q) < d /\ DOMAIN Node(t, q).map \subseteq Key
    BY <1>3, <2>3, <2>4 DEF IsTreeOf
  <2> QED BY <2>1, <2>2, <2>4, <2>5
<1>4. ASSUME NEW k \in DOMAIN t.map, NEW p \in Path,
             HasNode(t.map[k], p), IsMap(Node(t.map[k], p))
      PROVE  Len(p) < MaxDepth
  <2> SUFFICES ASSUME ~(Len(p) < MaxDepth) PROVE FALSE
    OBVIOUS
  <2>1. p \in Seq(Key) /\ Len(p) = MaxDepth
    BY Paths, DepthAssumption
  <2>2. p # <<>>
    BY <2>1, DepthAssumption
  <2>3. PICK r \in Seq(Key), j \in Key : p = Append(r, j)
    BY <2>1, <2>2, SequenceEmptyOrAppend, Zenon
  <2>4. Len(r) \in Nat /\ Len(p) = Len(r) + 1
    BY <2>3, Longer
  <2>5. r \in Path /\ Len(r) < MaxDepth
    <3>1. Len(r) <= MaxDepth /\ Len(r) < MaxDepth
      BY <2>1, <2>4
    <3> QED BY <2>3, <3>1, Paths
  <2>6. HasNode(t.map[k], r) /\ IsMap(Node(t.map[k], r))
    BY <1>4, <2>3, NextHasNode
  <2>7. Len(r) < d - 1
    BY <1>3, <2>5, <2>6
  <2> QED BY <2>1, <2>4, <2>7, DepthAssumption
<1>5. ASSUME NEW k \in DOMAIN t.map PROVE IsTreeOf(t.map[k], d - 1)
  BY <1>3, <1>4 DEF IsTreeOf
<1> QED BY <1>2, <1>5
=============================================================================
