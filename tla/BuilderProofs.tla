---------------------------- MODULE BuilderProofs ----------------------------
(***************************************************************************)
(* What a pass stages and archives, for every set of specs, sources and    *)
(* data, every number of artifacts, templates and iterations.              *)
(***************************************************************************)
EXTENDS Builder, Integers, SequenceTheorems, FiniteSetTheorems,
        WellFoundedInduction, TLAPS

-----------------------------------------------------------------------------
(***************************************************************************)
(* Induction over the natural numbers, for a set of numbers instead of a   *)
(* predicate.                                                              *)
(***************************************************************************)
\* A set with 0 and the successor of each of its numbers has them all.
LEMMA SetInduction ==
  ASSUME NEW K, 0 \in K, \A n \in Nat : n \in K => n + 1 \in K
  PROVE  Nat \subseteq K
<1> SUFFICES ASSUME ~(Nat \subseteq K) PROVE FALSE
  OBVIOUS
<1> DEFINE M == Nat \ K
<1>1. M \subseteq Nat /\ M # {}
  OBVIOUS
<1>2. PICK x \in M : \A y \in M : ~(<<y, x>> \in OpToRel(<, Nat))
  <2> HIDE DEF M
  <2> QED BY <1>1, NatLessThanWellFounded, WFMin, Zenon
<1>3. x \in Nat /\ x # 0 /\ x - 1 \in Nat /\ x - 1 < x
  OBVIOUS
<1>4. <<x - 1, x>> \in OpToRel(<, Nat)
  BY <1>3 DEF OpToRel
<1>5. x - 1 \notin M
  BY <1>2, <1>4
<1>6. x - 1 \in K /\ (x - 1) + 1 = x
  BY <1>3, <1>5
<1> QED
  BY <1>3, <1>6

\* The step function of a fold of n steps over A, and the fold itself.
IsStep(G, n, A) == G \in [(1..n) \X A -> A]

IsFold(f, G, n, A, base) ==
  f \in [0..n -> A] /\ f[0] = base /\ \A i \in 1..n : f[i] = G[<<i, f[i - 1]>>]

\* A fold of n steps exists, whatever function a step is.
LEMMA FoldExists ==
  ASSUME NEW n \in Nat, NEW A, NEW base \in A, NEW G, IsStep(G, n, A)
  PROVE  \E f : IsFold(f, G, n, A, base)
<1> USE DEF IsStep
<1> DEFINE Folds(m) == \E f \in [0..m -> A] : f[0] = base /\ \A i \in 1..m : f[i] = G[<<i, f[i - 1]>>]
           K == {m \in Nat : m <= n => Folds(m)}
<1>1. 0 \in K
  <2> DEFINE f == [i \in 0..0 |-> base]
  <2>1. f \in [0..0 -> A] /\ f[0] = base /\ \A i \in 1..0 : FALSE
    OBVIOUS
  <2> HIDE DEF f
  <2>2. Folds(0)
    BY <2>1
  <2> QED BY <2>2
<1>2. ASSUME NEW m \in Nat, m \in K PROVE m + 1 \in K
  <2> SUFFICES ASSUME m + 1 <= n PROVE Folds(m + 1)
    OBVIOUS
  <2>1. Folds(m)
    BY <1>2
  <2>2. PICK f \in [0..m -> A] : f[0] = base /\ \A i \in 1..m : f[i] = G[<<i, f[i - 1]>>]
    BY <2>1
  <2>3. m + 1 \in 1..n /\ f[m] \in A
    OBVIOUS
  <2>4. G[<<m + 1, f[m]>>] \in A
    BY <2>3
  <2> DEFINE g == [i \in 0..m + 1 |-> IF i = m + 1 THEN G[<<m + 1, f[m]>>] ELSE f[i]]
  <2>5. g \in [0..m + 1 -> A]
    BY <2>4
  <2>6. g[0] = base /\ g[m + 1] = G[<<m + 1, f[m]>>] /\ \A i \in 0..m : g[i] = f[i]
    BY <2>2
  <2> HIDE DEF g
  <2>7. ASSUME NEW i \in 1..m + 1 PROVE g[i] = G[<<i, g[i - 1]>>]
    <3>1. CASE i = m + 1
      <4>1. i - 1 = m /\ m \in 0..m
        BY <3>1
      <4> QED BY <4>1, <3>1, <2>6
    <3>2. CASE i \in 1..m
      <4>1. i - 1 \in 0..m /\ i \in 0..m
        BY <3>2
      <4> QED BY <4>1, <3>2, <2>6, <2>2
    <3> QED BY <3>1, <3>2
  <2> QED BY <2>5, <2>6, <2>7
<1>3. n \in K
  <2> HIDE DEF K
  <2> QED BY <1>1, <1>2, SetInduction, Zenon
<1> QED
  BY <1>3 DEF IsFold

-----------------------------------------------------------------------------
(***************************************************************************)
(* filepath.Clean.                                                         *)
(***************************************************************************)
\* A step of Clean stays within the segments it is given.
LEMMA CleanSegmentType ==
  ASSUME NEW S, NEW acc \in Seq(S), NEW s \in S
  PROVE  CleanSegment(acc, s) \in Seq(S)
<1>1. acc # <<>> => Front(acc) \in Seq(S)
  BY DEF Front
<1> QED
  BY <1>1, AppendProperties DEF CleanSegment

\* Clean is the fold it reads like.
LEMMA CleanIsFold ==
  ASSUME NEW S, NEW p \in Seq(S)
  PROVE  \E f \in [0..Len(p) -> Seq(S)] :
           /\ f[0] = <<>>
           /\ \A i \in 1..Len(p) : f[i] = CleanSegment(f[i - 1], p[i])
           /\ Clean(p) = f[Len(p)]
<1> DEFINE n == Len(p)
           G == [x \in (1..n) \X Seq(S) |-> CleanSegment(x[2], p[x[1]])]
           H(f) == [i \in 0..n |-> IF i = 0 THEN <<>> ELSE CleanSegment(f[i - 1], p[i])]
           c == CHOOSE f : f = H(f)
<1>1. n \in Nat /\ \A i \in 1..n : p[i] \in S
  OBVIOUS
<1>2. G \in [(1..n) \X Seq(S) -> Seq(S)]
  BY <1>1, CleanSegmentType
<1>3. \A i \in 1..n : \A a \in Seq(S) : G[<<i, a>>] = CleanSegment(a, p[i])
  OBVIOUS
<1>4. <<>> \in Seq(S)
  OBVIOUS
<1> HIDE DEF G
<1>5. PICK f \in [0..n -> Seq(S)] : f[0] = <<>> /\ \A i \in 1..n : f[i] = G[<<i, f[i - 1]>>]
  <2> DEFINE A == Seq(S)
             base == <<>>
  <2>1. n \in Nat /\ base \in A /\ IsStep(G, n, A)
    BY <1>1, <1>2, <1>4 DEF IsStep
  <2> HIDE DEF n, A, base
  <2>2. \E f : IsFold(f, G, n, A, base)
    BY <2>1, FoldExists, Zenon
  <2> QED BY <2>2 DEF A, base, IsFold
<1>6. \A i \in 1..n : f[i] = CleanSegment(f[i - 1], p[i])
  <2> SUFFICES ASSUME NEW i \in 1..n PROVE f[i] = CleanSegment(f[i - 1], p[i])
    OBVIOUS
  <2>1. i - 1 \in 0..n
    OBVIOUS
  <2> QED BY <2>1, <1>3, <1>5
<1>7. f = H(f)
  BY <1>5, <1>6
<1>8. c = H(c)
  <2> HIDE DEF H
  <2> QED BY <1>7
<1>9. Clean(p) = c[n]
  BY Zenon DEF Clean
<1> HIDE DEF c
<1>10. c[0] = <<>> /\ \A i \in 1..n : c[i] = CleanSegment(c[i - 1], p[i])
  <2>1. \A i \in 0..n : c[i] = H(c)[i]
    <3> HIDE DEF H
    <3> QED BY <1>8
  <2>2. 0 \in 0..n /\ \A i \in 1..n : i \in 0..n /\ i # 0
    BY <1>1
  <2> QED BY <2>1, <2>2
<1>11. c \in [0..n -> Seq(S)]
  <2> DEFINE K == {i \in Nat : i <= n => c[i] = f[i]}
  <2>1. 0 \in K
    BY <1>5, <1>10
  <2>2. ASSUME NEW i \in Nat, i \in K PROVE i + 1 \in K
    <3> SUFFICES ASSUME i + 1 <= n PROVE c[i + 1] = f[i + 1]
      OBVIOUS
    <3>1. i + 1 \in 1..n /\ (i + 1) - 1 = i /\ c[i] = f[i]
      BY <2>2, <1>1
    <3> QED BY <3>1, <1>6, <1>10
  <2>3. Nat \subseteq K
    <3> HIDE DEF K
    <3> QED BY <2>1, <2>2, SetInduction
  <2>4. \A i \in 0..n : c[i] = f[i]
    BY <2>3, <1>1
  <2>5. c = [i \in 0..n |-> c[i]]
    <3>1. DOMAIN c = 0..n
      BY <1>8
    <3>2. c = [i \in DOMAIN c |-> c[i]]
      BY <1>8
    <3> QED BY <3>1, <3>2
  <2> QED BY <2>4, <2>5, <1>5
<1> QED
  BY <1>9, <1>10, <1>11

\* What Clean returns: no empty segment and no ".", and every ".." in front.
IsClean(q) ==
  \A i \in 1..Len(q) : /\ q[i] \notin {"", "."}
                       /\ q[i] = ".." => \A j \in 1..i : q[j] = ".."

\* A step of Clean keeps a clean path clean.
LEMMA CleanSegmentClean ==
  ASSUME NEW S, NEW acc \in Seq(S), NEW s \in S, IsClean(acc)
  PROVE  IsClean(CleanSegment(acc, s))
<1>1. CASE s \in {"", "."}
  BY <1>1 DEF CleanSegment
<1>2. CASE s \notin {"", "."} /\ s = ".." /\ acc # <<>> /\ acc[Len(acc)] # ".."
  <2>1. CleanSegment(acc, s) = Front(acc)
    BY <1>2 DEF CleanSegment
  <2>2. Len(Front(acc)) = Len(acc) - 1 /\ \A i \in 1..Len(acc) - 1 : Front(acc)[i] = acc[i]
    <3>1. Len(acc) \in Nat /\ Len(acc) - 1 \in Nat
      BY <1>2, EmptySeq
    <3>2. \A i \in 1..Len(acc) - 1 : acc[i] \in S /\ 1 + i - 1 = i
      OBVIOUS
    <3> DEFINE k == Len(acc) - 1
    <3>3. k \in Nat /\ \A i \in 1..k : acc[i] \in S /\ 1 + i - 1 = i
      BY <3>1, <3>2
    <3> HIDE DEF k
    <3>4. Len(SubSeq(acc, 1, k)) = k /\ \A i \in 1..k : SubSeq(acc, 1, k)[i] = acc[i]
      BY <3>3, SubSeqProperties
    <3> QED BY <3>4 DEF Front, k
  <2>3. \A i \in 1..Len(acc) - 1 : i \in 1..Len(acc) /\ \A j \in 1..i : j \in 1..Len(acc) - 1
    BY LenProperties
  <2> QED BY <2>1, <2>2, <2>3 DEF IsClean
<1>3. CASE s \notin {"", "."} /\ ~(s = ".." /\ acc # <<>> /\ acc[Len(acc)] # "..")
  <2>1. CleanSegment(acc, s) = Append(acc, s)
    BY <1>3 DEF CleanSegment
  <2> DEFINE q == Append(acc, s)
  <2>2. /\ Len(q) = Len(acc) + 1 /\ q[Len(acc) + 1] = s /\ Len(acc) \in Nat
        /\ \A i \in 1..Len(acc) : q[i] = acc[i]
    BY AppendProperties
  <2>3. s = ".." => \A j \in 1..Len(acc) : acc[j] = ".."
    <3>1. acc # <<>> => Len(acc) \in 1..Len(acc)
      BY EmptySeq, <2>2
    <3>2. acc = <<>> => 1..Len(acc) = {}
      BY <2>2
    <3> QED BY <1>3, <3>1, <3>2 DEF IsClean
  <2> HIDE DEF q
  <2>4. ASSUME NEW i \in 1..Len(q)
        PROVE  q[i] \notin {"", "."} /\ (q[i] = ".." => \A j \in 1..i : q[j] = "..")
    <3>1. CASE i = Len(acc) + 1
      <4>1. q[i] = s
        BY <3>1, <2>2
      <4>2. ASSUME s = "..", NEW j \in 1..i PROVE q[j] = ".."
        <5>1. j = i \/ j \in 1..Len(acc)
          BY <3>1, <2>2
        <5> QED BY <5>1, <4>1, <4>2, <2>2, <2>3
      <4> QED BY <4>1, <4>2, <1>3
    <3>2. CASE i \in 1..Len(acc)
      <4>1. q[i] = acc[i] /\ \A j \in 1..i : j \in 1..Len(acc) /\ q[j] = acc[j]
        BY <3>2, <2>2
      <4> QED BY <4>1, <3>2 DEF IsClean
    <3>3. i = Len(acc) + 1 \/ i \in 1..Len(acc)
      BY <2>2
    <3> QED BY <3>1, <3>2, <3>3
  <2> QED BY <2>1, <2>4 DEF IsClean, q
<1> QED
  BY <1>1, <1>2, <1>3

\* Clean returns a clean path of the same segments.
LEMMA CleanIsClean ==
  ASSUME NEW S, NEW p \in Seq(S)
  PROVE  Clean(p) \in Seq(S) /\ IsClean(Clean(p))
<1>1. PICK f \in [0..Len(p) -> Seq(S)] :
         /\ f[0] = <<>>
         /\ \A i \in 1..Len(p) : f[i] = CleanSegment(f[i - 1], p[i])
         /\ Clean(p) = f[Len(p)]
  BY CleanIsFold
<1>2. Len(p) \in Nat /\ Len(p) \in 0..Len(p)
  OBVIOUS
<1> DEFINE K == {i \in Nat : i <= Len(p) => IsClean(f[i])}
<1>3. 0 \in K
  <2>1. ASSUME NEW q, Len(q) = 0 PROVE IsClean(q)
    <3>1. 1..Len(q) = {}
      BY <2>1
    <3> QED BY <3>1, Zenon DEF IsClean
  <2> QED BY <1>1, <2>1
<1>4. ASSUME NEW i \in Nat, i \in K PROVE i + 1 \in K
  <2> SUFFICES ASSUME i + 1 <= Len(p) PROVE IsClean(f[i + 1])
    OBVIOUS
  <2>1. i + 1 \in 1..Len(p) /\ (i + 1) - 1 = i /\ i \in 0..Len(p) /\ IsClean(f[i])
    BY <1>2, <1>4
  <2>2. f[i] \in Seq(S) /\ p[i + 1] \in S
    BY <2>1
  <2>3. f[i + 1] = CleanSegment(f[i], p[i + 1])
    BY <1>1, <2>1
  <2> QED BY <2>1, <2>2, <2>3, CleanSegmentClean
<1>5. Nat \subseteq K
  <2> HIDE DEF K
  <2> QED BY <1>3, <1>4, SetInduction
<1> QED
  BY <1>1, <1>2, <1>5

\* A clean path is left alone.
LEMMA CleanKeepsClean ==
  ASSUME NEW S, NEW q \in Seq(S), IsClean(q)
  PROVE  Clean(q) = q
<1>1. PICK f \in [0..Len(q) -> Seq(S)] :
         /\ f[0] = <<>>
         /\ \A i \in 1..Len(q) : f[i] = CleanSegment(f[i - 1], q[i])
         /\ Clean(q) = f[Len(q)]
  BY CleanIsFold
<1>2. Len(q) \in Nat
  OBVIOUS
<1> DEFINE K == {i \in Nat : i <= Len(q) => f[i] = SubSeq(q, 1, i)}
<1>3. 0 \in K
  BY <1>1
<1>4. ASSUME NEW i \in Nat, i \in K PROVE i + 1 \in K
  <2> SUFFICES ASSUME i + 1 <= Len(q) PROVE f[i + 1] = SubSeq(q, 1, i + 1)
    OBVIOUS
  <2>1. i + 1 \in 1..Len(q) /\ (i + 1) - 1 = i /\ i <= Len(q) /\ f[i] = SubSeq(q, 1, i)
    BY <1>2, <1>4
  <2> DEFINE acc == SubSeq(q, 1, i)
  <2>2. /\ acc \in Seq(S) /\ Len(acc) = i /\ \A j \in 1..i : acc[j] = q[j]
        /\ acc # <<>> => i \in 1..i
    BY <2>1, <1>2, SubSeqProperties
  <2>3. SubSeq(q, 1, i + 1) = Append(acc, q[i + 1])
    BY <2>1, <1>2
  <2> HIDE DEF acc
  <2>4. q[i + 1] = ".." /\ acc # <<>> => acc[Len(acc)] = ".."
    <3> SUFFICES ASSUME q[i + 1] = "..", acc # <<>> PROVE acc[Len(acc)] = ".."
      OBVIOUS
    <3>1. i \in 1..i + 1 /\ i \in 1..i
      BY <2>2
    <3>2. q[i] = ".."
      BY <2>1, <3>1 DEF IsClean
    <3> QED BY <2>2, <3>1, <3>2
  <2>5. q[i + 1] \notin {"", "."}
    BY <2>1 DEF IsClean
  <2>6. CleanSegment(acc, q[i + 1]) = Append(acc, q[i + 1])
    BY <2>4, <2>5 DEF CleanSegment
  <2>7. f[i + 1] = CleanSegment(acc, q[i + 1])
    BY <1>1, <2>1 DEF acc
  <2> QED BY <2>3, <2>6, <2>7
<1>5. Nat \subseteq K
  <2> HIDE DEF K
  <2> QED BY <1>3, <1>4, SetInduction
<1>6. f[Len(q)] = SubSeq(q, 1, Len(q))
  BY <1>2, <1>5
<1> QED
  BY <1>1, <1>6

\* Cleaning a path twice cleans it once: the file system puts a destination
\* where writtenPaths says it is.
THEOREM CleanIdempotent ==
  ASSUME NEW S, NEW p \in Seq(S)
  PROVE  Clean(Clean(p)) = Clean(p)
  BY CleanIsClean, CleanKeepsClean

-----------------------------------------------------------------------------
(***************************************************************************)
(* Partials and the names they define.                                     *)
(***************************************************************************)
\* The scopes over a set of names.
Scopes(N, V) == UNION {[D -> V] : D \in SUBSET N}

\* Parsing a file gives a scope over the names defined so far.
LEMMA ParseType ==
  ASSUME NEW N, NEW V, NEW acc \in Scopes(N, V), NEW f, f.defines \subseteq N, f.src \in V
  PROVE  Parse(acc, f) \in Scopes(N, V)
<1>1. PICK D \in SUBSET N : acc \in [D -> V]
  BY DEF Scopes
<1>2. Parse(acc, f) \in [D \union f.defines -> V]
  BY <1>1 DEF Parse
<1>3. D \union f.defines \in SUBSET N
  OBVIOUS
<1> QED
  BY <1>2, <1>3 DEF Scopes

\* Defined is the fold it reads like.
LEMMA DefinedIsFold ==
  ASSUME NEW S, NEW partials \in Seq(S), NEW file \in S
  PROVE  \E f : /\ f[0] = <<>>
                /\ \A i \in 1..Len(partials) + 1 :
                     f[i] = Parse(f[i - 1], Append(partials, file)[i])
                /\ Defined(partials, file) = f[Len(partials) + 1]
<1> DEFINE files == Append(partials, file)
           n == Len(files)
           N == UNION {g.defines : g \in S}
           V == {g.src : g \in S}
           A == Scopes(N, V)
           G == [x \in (1..n) \X A |-> Parse(x[2], files[x[1]])]
           H(f) == [i \in 0..n |-> IF i = 0 THEN <<>> ELSE Parse(f[i - 1], files[i])]
           c == CHOOSE f : f = H(f)
<1>1. n \in Nat /\ n = Len(partials) + 1 /\ \A i \in 1..n : files[i] \in S
  BY AppendProperties
<1>2. \A i \in 1..n : \A a \in A : Parse(a, files[i]) \in A
  <2> SUFFICES ASSUME NEW i \in 1..n, NEW a \in A PROVE Parse(a, files[i]) \in A
    OBVIOUS
  <2> DEFINE g == files[i]
  <2>1. g \in S
    BY <1>1
  <2> HIDE DEF g
  <2>2. g.defines \subseteq N /\ g.src \in V
    BY <2>1
  <2> HIDE DEF N, V
  <2>3. Parse(a, g) \in A
    BY <2>2, ParseType
  <2> QED BY <2>3 DEF g
<1>3. <<>> \in A
  <2>1. <<>> \in [{} -> V]
    BY DOMAIN <<>> = {}
  <2> QED BY <2>1 DEF Scopes
<1> HIDE DEF A, files, n
<1>4. IsStep(G, n, A) /\ \A i \in 1..n : \A a \in A : G[<<i, a>>] = Parse(a, files[i])
  BY <1>2 DEF IsStep
<1> HIDE DEF G
<1>5. PICK f : IsFold(f, G, n, A, <<>>)
  <2> DEFINE base == <<>>
  <2>1. base \in A
    BY <1>3
  <2> HIDE DEF base
  <2>2. \E f : IsFold(f, G, n, A, base)
    BY <1>1, <1>4, <2>1, FoldExists, Zenon
  <2> QED BY <2>2 DEF base
<1>6. f \in [0..n -> A] /\ f[0] = <<>> /\ \A i \in 1..n : f[i] = Parse(f[i - 1], files[i])
  <2>1. f \in [0..n -> A] /\ f[0] = <<>> /\ \A i \in 1..n : f[i] = G[<<i, f[i - 1]>>]
    BY <1>5, Zenon DEF IsFold
  <2>2. \A i \in 1..n : i - 1 \in 0..n
    BY <1>1
  <2> QED BY <1>4, <2>1, <2>2
<1>7. f = H(f)
  BY <1>6
<1>8. c = H(c)
  <2> HIDE DEF H
  <2> QED BY <1>7
<1>9. Defined(partials, file) = c[n]
  BY Zenon DEF Defined, n, files
<1> HIDE DEF c
<1>10. c[0] = <<>> /\ \A i \in 1..n : c[i] = Parse(c[i - 1], files[i])
  <2>1. \A i \in 0..n : c[i] = H(c)[i]
    <3> HIDE DEF H
    <3> QED BY <1>8
  <2>2. 0 \in 0..n /\ \A i \in 1..n : i \in 0..n /\ i # 0
    BY <1>1
  <2> QED BY <2>1, <2>2
<1> QED
  BY <1>1, <1>9, <1>10 DEF files

\* Every name that some file defines is defined, as the last of them does.
IsByLast(defined, partials, file) ==
  /\ \A i \in 1..Len(partials) + 1 : Append(partials, file)[i].defines \subseteq DOMAIN defined
  /\ \A name \in DOMAIN defined : \E i \in 1..Len(partials) + 1 :
       /\ name \in Append(partials, file)[i].defines
       /\ \A j \in i + 1..Len(partials) + 1 : name \notin Append(partials, file)[j].defines
       /\ defined[name] = Append(partials, file)[i].src

\* Parsing one file after the other lets the last definition win.
LEMMA LastDefineWins ==
  ASSUME NEW S, NEW partials \in Seq(S), NEW file \in S
  PROVE  IsByLast(Defined(partials, file), partials, file)
<1> DEFINE n == Len(partials) + 1
           files == Append(partials, file)
<1>1. PICK f : /\ f[0] = <<>>
               /\ \A i \in 1..n : f[i] = Parse(f[i - 1], files[i])
               /\ Defined(partials, file) = f[n]
  BY DefinedIsFold
<1>2. n \in Nat
  OBVIOUS
<1> DEFINE All(m) == \A i \in 1..m : files[i].defines \subseteq DOMAIN f[m]
           Lasts(m) == \A name \in DOMAIN f[m] : \E i \in 1..m :
                        /\ name \in files[i].defines
                        /\ \A j \in i + 1..m : name \notin files[j].defines
                        /\ f[m][name] = files[i].src
           K == {m \in Nat : m <= n => All(m) /\ Lasts(m)}
<1> HIDE DEF n, files
<1>3. 0 \in K
  <2>1. DOMAIN f[0] = {}
    BY <1>1
  <2> QED BY <2>1
<1>4. ASSUME NEW m \in Nat, m \in K PROVE m + 1 \in K
  <2> SUFFICES ASSUME m + 1 <= n PROVE All(m + 1) /\ Lasts(m + 1)
    OBVIOUS
  <2>1. m + 1 \in 1..n /\ (m + 1) - 1 = m /\ All(m) /\ Lasts(m)
    BY <1>2, <1>4
  <2>2. f[m + 1] = Parse(f[m], files[m + 1])
    BY <1>1, <2>1
  <2> DEFINE g == files[m + 1]
  <2>3. /\ DOMAIN f[m + 1] = DOMAIN f[m] \union g.defines
        /\ \A name \in DOMAIN f[m + 1] :
             f[m + 1][name] = IF name \in g.defines THEN g.src ELSE f[m][name]
    BY <2>2 DEF Parse
  <2>4. \A i \in 1..m + 1 : i = m + 1 \/ i \in 1..m
    OBVIOUS
  <2>5. All(m + 1)
    BY <2>1, <2>3, <2>4
  <2>6. ASSUME NEW name \in DOMAIN f[m + 1]
        PROVE  \E i \in 1..m + 1 : /\ name \in files[i].defines
                                   /\ \A j \in i + 1..m + 1 : name \notin files[j].defines
                                   /\ f[m + 1][name] = files[i].src
    <3>1. CASE name \in g.defines
      <4>1. m + 1 \in 1..m + 1 /\ (m + 1) + 1..m + 1 = {}
        OBVIOUS
      <4> QED BY <3>1, <4>1, <2>3
    <3>2. CASE name \notin g.defines
      <4>1. name \in DOMAIN f[m] /\ f[m + 1][name] = f[m][name]
        BY <3>2, <2>3
      <4>2. PICK i \in 1..m : /\ name \in files[i].defines
                              /\ \A j \in i + 1..m : name \notin files[j].defines
                              /\ f[m][name] = files[i].src
        BY <2>1, <4>1
      <4>3. i \in 1..m + 1 /\ \A j \in i + 1..m + 1 : j = m + 1 \/ j \in i + 1..m
        OBVIOUS
      <4> QED BY <3>2, <4>1, <4>2, <4>3
    <3> QED BY <3>1, <3>2
  <2> QED BY <2>5, <2>6
<1>5. Nat \subseteq K
  <2> HIDE DEF K
  <2> QED BY <1>3, <1>4, SetInduction
<1>6. All(n) /\ Lasts(n)
  BY <1>2, <1>5
<1> QED
  BY <1>1, <1>6 DEF n, files, IsByLast

\* The n-th place on the way down to a file where partials may be.
Place(p, n) == Append(SubSeq(p, 1, n - 1), "_helpers.tpl")

\* discoverPartials is the fold it reads like.
LEMMA PartialsAreFold ==
  ASSUME NEW tree, NEW p, Len(p) \in Nat
  PROVE  \E f : /\ f[0] = <<>>
                /\ \A i \in 1..Len(p) : f[i] = Collect(tree, f[i - 1], Place(p, i))
                /\ discoverPartials(tree, p) = f[Len(p)]
<1> DEFINE n == Len(p)
           chain == partialChainDirs(p)
           A == Seq({tree[q] : q \in DOMAIN tree})
           G == [x \in (1..n) \X A |-> Collect(tree, x[2], Place(p, x[1]))]
           H(f) == [i \in 0..n |-> IF i = 0 THEN <<>>
                                   ELSE Collect(tree, f[i - 1], Append(chain[i], "_helpers.tpl"))]
           c == CHOOSE f : f = H(f)
<1>1. \A i \in 1..n : Append(chain[i], "_helpers.tpl") = Place(p, i)
  BY DEF partialChainDirs, Place
<1>2. \A i \in 1..n : \A a \in A : Collect(tree, a, Place(p, i)) \in A
  <2> SUFFICES ASSUME NEW i \in 1..n, NEW a \in A PROVE Collect(tree, a, Place(p, i)) \in A
    OBVIOUS
  <2> DEFINE q == Place(p, i)
             E == {tree[r] : r \in DOMAIN tree}
  <2> HIDE DEF q
  <2>1. q \in DOMAIN tree => tree[q] \in E
    OBVIOUS
  <2> HIDE DEF E
  <2>2. q \in DOMAIN tree => Append(a, tree[q]) \in A
    BY <2>1, AppendProperties DEF E
  <2>3. Collect(tree, a, q) \in A
    BY <2>2 DEF Collect
  <2> QED BY <2>3 DEF q
<1>3. <<>> \in A
  OBVIOUS
<1> HIDE DEF A, n, chain
<1>4. IsStep(G, n, A) /\ \A i \in 1..n : \A a \in A : G[<<i, a>>] = Collect(tree, a, Place(p, i))
  BY <1>2 DEF IsStep
<1> HIDE DEF G
<1>5. PICK f : IsFold(f, G, n, A, <<>>)
  <2> DEFINE base == <<>>
  <2>1. base \in A /\ n \in Nat
    BY <1>3 DEF n
  <2> HIDE DEF base
  <2>2. \E f : IsFold(f, G, n, A, base)
    BY <1>4, <2>1, FoldExists, Zenon
  <2> QED BY <2>2 DEF base
<1>6. f \in [0..n -> A] /\ f[0] = <<>> /\ \A i \in 1..n : f[i] = Collect(tree, f[i - 1], Place(p, i))
  <2>1. f \in [0..n -> A] /\ f[0] = <<>> /\ \A i \in 1..n : f[i] = G[<<i, f[i - 1]>>]
    BY <1>5, Zenon DEF IsFold
  <2>2. \A i \in 1..n : i - 1 \in 0..n
    BY DEF n
  <2> QED BY <1>4, <2>1, <2>2
<1>7. f = H(f)
  <2>1. \A i \in 1..n : f[i] = Collect(tree, f[i - 1], Append(chain[i], "_helpers.tpl"))
    BY <1>1, <1>6
  <2>2. \A i \in 0..n : i = 0 \/ i \in 1..n
    BY DEF n
  <2> QED BY <1>6, <2>1, <2>2
<1>8. c = H(c)
  <2> HIDE DEF H
  <2> QED BY <1>7
<1>9. discoverPartials(tree, p) = c[n]
  BY Zenon DEF discoverPartials, n, chain
<1> HIDE DEF c
<1>10. c[0] = <<>> /\ \A i \in 1..n : c[i] = Collect(tree, c[i - 1], Place(p, i))
  <2>1. \A i \in 0..n : c[i] = H(c)[i]
    <3> HIDE DEF H
    <3> QED BY <1>8
  <2>2. 0 \in 0..n /\ \A i \in 1..n : i \in 0..n /\ i # 0
    BY DEF n
  <2> QED BY <1>1, <2>1, <2>2
<1> QED
  BY <1>9, <1>10 DEF n

\* The partials of a file are those on its way, each once and in the order of
\* the way: k tells where each of them lies.
AreOnTheWay(partials, k, tree, p, n) ==
  /\ partials \in Seq({tree[q] : q \in DOMAIN tree})
  /\ k \in [1..Len(partials) -> 1..n]
  /\ \A a \in 1..Len(partials) : /\ Place(p, k[a]) \in DOMAIN tree
                                 /\ partials[a] = tree[Place(p, k[a])]
  /\ \A a, b \in 1..Len(partials) : a < b => k[a] < k[b]
  /\ \A i \in 1..n : Place(p, i) \in DOMAIN tree => \E a \in 1..Len(partials) : k[a] = i

\* discoverPartials finds them so.
LEMMA PartialsAreOnTheWay ==
  ASSUME NEW tree, NEW p, Len(p) \in Nat
  PROVE  \E k : AreOnTheWay(discoverPartials(tree, p), k, tree, p, Len(p))
<1> DEFINE n == Len(p)
           S == {tree[q] : q \in DOMAIN tree}
<1>1. PICK f : /\ f[0] = <<>>
               /\ \A i \in 1..n : f[i] = Collect(tree, f[i - 1], Place(p, i))
               /\ discoverPartials(tree, p) = f[n]
  BY PartialsAreFold
<1> DEFINE K == {m \in Nat : m <= n => \E k : AreOnTheWay(f[m], k, tree, p, m)}
<1>2. 0 \in K
  <2> DEFINE e == <<>>
             k == [a \in 1..0 |-> 0]
  <2>1. /\ e \in Seq(S) /\ Len(e) = 0 /\ 1..0 = {} /\ k \in [1..0 -> 1..0]
    OBVIOUS
  <2> HIDE DEF e, k, S
  <2>2. AreOnTheWay(e, k, tree, p, 0)
    BY <2>1 DEF AreOnTheWay, S
  <2> QED BY <1>1, <2>2 DEF e
<1>3. ASSUME NEW m \in Nat, m \in K PROVE m + 1 \in K
  <2> SUFFICES ASSUME m + 1 <= n PROVE \E k : AreOnTheWay(f[m + 1], k, tree, p, m + 1)
    OBVIOUS
  <2>1. m + 1 \in 1..n /\ (m + 1) - 1 = m
    OBVIOUS
  <2> DEFINE old == f[m]
             q == Place(p, m + 1)
             l == Len(old)
  <2>2. f[m + 1] = Collect(tree, old, q)
    BY <1>1, <2>1
  <2>3. PICK k : AreOnTheWay(old, k, tree, p, m)
    BY <1>3
  <2> HIDE DEF old, q
  <2>4. /\ old \in Seq(S) /\ l \in Nat /\ k \in [1..l -> 1..m]
        /\ \A a \in 1..l : Place(p, k[a]) \in DOMAIN tree /\ old[a] = tree[Place(p, k[a])]
        /\ \A a, b \in 1..l : a < b => k[a] < k[b]
        /\ \A i \in 1..m : Place(p, i) \in DOMAIN tree => \E a \in 1..l : k[a] = i
    BY <2>3 DEF AreOnTheWay
  <2>5. CASE q \notin DOMAIN tree
    <3>1. f[m + 1] = old
      BY <2>2, <2>5 DEF Collect
    <3>2. k \in [1..l -> 1..m + 1] /\ \A i \in 1..m + 1 : i = m + 1 \/ i \in 1..m
      BY <2>4
    <3>3. AreOnTheWay(old, k, tree, p, m + 1)
      BY <2>4, <2>5, <3>2 DEF AreOnTheWay, q
    <3> QED BY <3>1, <3>3
  <2>6. CASE q \in DOMAIN tree
    <3> DEFINE new == Append(old, tree[q])
               g == [a \in 1..l + 1 |-> IF a = l + 1 THEN m + 1 ELSE k[a]]
    <3>1. f[m + 1] = new
      BY <2>2, <2>6 DEF Collect
    <3>2. tree[q] \in S
      BY <2>6
    <3> HIDE DEF S, l
    <3>3. /\ new \in Seq(S) /\ Len(new) = l + 1 /\ new[l + 1] = tree[q]
          /\ \A a \in 1..l : new[a] = old[a]
      BY <2>4, <3>2, AppendProperties DEF l
    <3>4. /\ g \in [1..l + 1 -> 1..m + 1] /\ g[l + 1] = m + 1
          /\ \A a \in 1..l : g[a] = k[a] /\ g[a] \in 1..m
      BY <2>4
    <3> HIDE DEF new, g
    <3>5. \A a \in 1..l + 1 : a = l + 1 \/ a \in 1..l
      BY <2>4
    <3>6. \A a \in 1..l + 1 : Place(p, g[a]) \in DOMAIN tree /\ new[a] = tree[Place(p, g[a])]
      BY <2>4, <2>6, <3>3, <3>4, <3>5 DEF q
    <3>7. ASSUME NEW a \in 1..l + 1, NEW b \in 1..l + 1, a < b PROVE g[a] < g[b]
      <4>1. a \in 1..l
        BY <3>7, <2>4
      <4>2. CASE b = l + 1
        BY <4>1, <4>2, <3>4
      <4>3. CASE b \in 1..l
        BY <4>1, <4>3, <3>7, <3>4, <2>4
      <4> QED BY <3>5, <4>2, <4>3
    <3>8. ASSUME NEW i \in 1..m + 1, Place(p, i) \in DOMAIN tree
          PROVE  \E a \in 1..l + 1 : g[a] = i
      <4>1. CASE i = m + 1
        BY <4>1, <2>4, <3>4
      <4>2. CASE i \in 1..m
        <5>1. PICK a \in 1..l : k[a] = i
          BY <4>2, <3>8, <2>4
        <5> QED BY <5>1, <2>4, <3>4
      <4> QED BY <4>1, <4>2
    <3>9. AreOnTheWay(new, g, tree, p, m + 1)
      BY <3>3, <3>4, <3>6, <3>7, <3>8 DEF AreOnTheWay, S
    <3> QED BY <3>1, <3>9
  <2> QED BY <2>5, <2>6
<1>4. Nat \subseteq K
  <2> HIDE DEF K
  <2> QED BY <1>2, <1>3, SetInduction
<1> QED
  BY <1>1, <1>4

\* A template sees exactly what is in force after its partials were parsed:
\* its own definition of a name, else that of the closest directory.
LEMMA DefinedIsSeen ==
  ASSUME NEW tree, NEW p \in DOMAIN tree, p \in Seq(ToSet(p)), NEW name
  PROVE  LET defined == Defined(discoverPartials(tree, p), tree[p])
         IN  /\ name \in DOMAIN defined <=> Sees(tree, p, name) # {}
             /\ name \in DOMAIN defined => defined[name] \in Sees(tree, p, name)
<1> DEFINE S == {tree[q] : q \in DOMAIN tree}
           partials == discoverPartials(tree, p)
           defined == Defined(partials, tree[p])
           l == Len(partials)
           files == Append(partials, tree[p])
           helper(n) == tree[Append(SubSeq(p, 1, n), "_helpers.tpl")]
           above == {n \in 0..Len(p) - 1 : Append(SubSeq(p, 1, n), "_helpers.tpl") \in DOMAIN tree}
           has == {n \in above : name \in helper(n).defines}
<1>1. Len(p) \in Nat
  BY LenProperties
<1>2. PICK k : AreOnTheWay(partials, k, tree, p, Len(p))
  BY <1>1, PartialsAreOnTheWay
<1>3. /\ partials \in Seq(S) /\ l \in Nat /\ k \in [1..l -> 1..Len(p)]
      /\ \A a \in 1..l : Place(p, k[a]) \in DOMAIN tree /\ partials[a] = tree[Place(p, k[a])]
      /\ \A a, b \in 1..l : a < b => k[a] < k[b]
      /\ \A i \in 1..Len(p) : Place(p, i) \in DOMAIN tree => \E a \in 1..l : k[a] = i
  BY <1>2 DEF AreOnTheWay
<1>4. tree[p] \in S
  OBVIOUS
<1> HIDE DEF S
<1>5. /\ \A i \in 1..l + 1 : files[i].defines \subseteq DOMAIN defined
      /\ \A x \in DOMAIN defined : \E i \in 1..l + 1 :
           /\ x \in files[i].defines
           /\ \A j \in i + 1..l + 1 : x \notin files[j].defines
           /\ defined[x] = files[i].src
  <2> DEFINE file == tree[p]
  <2>1. partials \in Seq(S) /\ file \in S
    BY <1>3, <1>4
  <2> HIDE DEF partials, file
  <2>2. IsByLast(Defined(partials, file), partials, file)
    BY <2>1, LastDefineWins
  <2> QED BY <2>2 DEF IsByLast, file
<1>6. files[l + 1] = tree[p] /\ \A a \in 1..l : files[a] = partials[a]
  BY <1>3, <1>4, AppendProperties
<1> HIDE DEF partials, defined, files, l
<1>7. \A a \in 1..l : k[a] - 1 \in above /\ files[a] = helper(k[a] - 1)
  <2> SUFFICES ASSUME NEW a \in 1..l PROVE k[a] - 1 \in above /\ files[a] = helper(k[a] - 1)
    OBVIOUS
  <2>1. k[a] \in 1..Len(p) /\ k[a] - 1 \in 0..Len(p) - 1
    BY <1>1, <1>3
  <2> QED BY <1>3, <1>6, <2>1 DEF Place
<1>8. \A n \in above : \E a \in 1..l : k[a] = n + 1 /\ files[a] = helper(n)
  <2> SUFFICES ASSUME NEW n \in above PROVE \E a \in 1..l : k[a] = n + 1 /\ files[a] = helper(n)
    OBVIOUS
  <2>1. n + 1 \in 1..Len(p) /\ (n + 1) - 1 = n
    BY <1>1
  <2>2. Place(p, n + 1) \in DOMAIN tree
    BY <2>1 DEF Place
  <2>3. PICK a \in 1..l : k[a] = n + 1
    BY <1>3, <2>1, <2>2
  <2> QED BY <1>7, <2>1, <2>3
<1>9. Sees(tree, p, name) = IF name \in tree[p].defines THEN {tree[p].src}
                            ELSE {helper(n).src : n \in {n \in has : \A m \in has : m <= n}}
  BY Zenon DEF Sees
<1>10. \A n \in above : n \in Nat
  BY <1>1
<1> DEFINE see == Sees(tree, p, name)
<1> HIDE DEF see, helper, above
<1>11. ASSUME name \in DOMAIN defined PROVE defined[name] \in see
  <2>1. PICK i \in 1..l + 1 : /\ name \in files[i].defines
                              /\ \A j \in i + 1..l + 1 : name \notin files[j].defines
                              /\ defined[name] = files[i].src
    BY <1>5, <1>11
  <2>2. CASE i = l + 1
    BY <2>1, <2>2, <1>6, <1>9 DEF see
  <2>3. CASE i \in 1..l
    <3>1. l + 1 \in i + 1..l + 1 /\ \A b \in 1..l : b > i => b \in i + 1..l + 1
      BY <2>3, <1>3
    <3>2. name \notin tree[p].defines
      BY <2>1, <3>1, <1>6
    <3>3. k[i] - 1 \in has /\ files[i] = helper(k[i] - 1)
      BY <2>1, <2>3, <1>7
    <3>4. ASSUME NEW n \in has PROVE n <= k[i] - 1
      <4>1. PICK b \in 1..l : k[b] = n + 1 /\ files[b] = helper(n)
        BY <1>8
      <4>2. ~(b > i)
        BY <2>1, <3>1, <4>1
      <4>3. b = i \/ b < i
        BY <4>2, <2>3, <1>3
      <4>4. k[b] <= k[i]
        BY <4>3, <2>3, <1>3
      <4>5. k[b] \in Nat /\ k[i] \in Nat /\ n \in Nat
        BY <2>3, <1>3, <1>10
      <4> QED BY <4>1, <4>4, <4>5
    <3> QED BY <2>1, <3>2, <3>3, <3>4, <1>9 DEF see
  <2> QED BY <2>2, <2>3, <1>3
<1>12. ASSUME see # {} PROVE name \in DOMAIN defined
  <2>1. CASE name \in tree[p].defines
    <3>1. l + 1 \in 1..l + 1
      BY <1>3
    <3> QED BY <2>1, <3>1, <1>5, <1>6
  <2>2. CASE name \notin tree[p].defines
    <3>1. PICK n \in has : TRUE
      BY <2>2, <1>12, <1>9 DEF see
    <3>2. PICK a \in 1..l : files[a] = helper(n)
      BY <3>1, <1>8
    <3>3. a \in 1..l + 1
      BY <1>3
    <3> QED BY <3>1, <3>2, <3>3, <1>5
  <2> QED BY <2>1, <2>2
<1> QED
  BY <1>11, <1>12 DEF see, defined, partials

-----------------------------------------------------------------------------
(***************************************************************************)
(* Artifacts, iterations and positions.                                    *)
(***************************************************************************)
\* What the API server admits.
IsArtifact(art) ==
  /\ art.templates \in Seq(ToSet(art.templates)) \ {<<>>}
  /\ \A t \in ToSet(art.templates) :
       t.to \in Seq(ToSet(t.to)) /\ t.from \in Seq(ToSet(t.from))

\* Every artifact of an admitted spec is well formed.
LEMMA ArtifactsAre ==
  ASSUME spec \in Specs
  PROVE  /\ spec.artifacts \in Seq(ToSet(spec.artifacts))
         /\ Len(spec.artifacts) \in Nat
         /\ DOMAIN spec.artifacts = 1..Len(spec.artifacts)
         /\ \A k \in 1..Len(spec.artifacts) : /\ spec.artifacts[k] \in ToSet(spec.artifacts)
                                             /\ IsArtifact(spec.artifacts[k])
         /\ \A art \in ToSet(spec.artifacts) :
              IsArtifact(art) /\ \E k \in 1..Len(spec.artifacts) : art = spec.artifacts[k]
<1>1. /\ spec.artifacts \in Seq(ToSet(spec.artifacts))
      /\ \A art \in ToSet(spec.artifacts) : IsArtifact(art)
  BY SpecsAssumption DEF IsArtifact
<1>2. Len(spec.artifacts) \in Nat /\ DOMAIN spec.artifacts = 1..Len(spec.artifacts)
  BY <1>1, LenProperties
<1>3. \A art : art \in ToSet(spec.artifacts) <=> \E k \in 1..Len(spec.artifacts) : art = spec.artifacts[k]
  BY <1>2 DEF ToSet
<1> QED
  BY <1>1, <1>2, <1>3

\* The templates of an artifact are at least one.
LEMMA TemplatesAre ==
  ASSUME NEW art, IsArtifact(art)
  PROVE  /\ Len(art.templates) \in Nat \ {0} /\ DOMAIN art.templates = 1..Len(art.templates)
         /\ \A i \in 1..Len(art.templates) : art.templates[i] \in ToSet(art.templates)
         /\ \A i \in 1..Len(art.templates) :
              art.templates[i].to \in Seq(ToSet(art.templates[i].to))
<1>1. Len(art.templates) \in Nat \ {0} /\ DOMAIN art.templates = 1..Len(art.templates)
  BY EmptySeq, LenProperties DEF IsArtifact
<1>2. \A i \in 1..Len(art.templates) : art.templates[i] \in ToSet(art.templates)
  BY <1>1 DEF ToSet
<1> QED
  BY <1>1, <1>2 DEF IsArtifact

\* A function over 1..n is a sequence of length n.
LEMMA LengthOf ==
  ASSUME NEW n \in Nat, NEW f, f = [i \in 1..n |-> f[i]]
  PROVE  Len(f) = n /\ DOMAIN f = 1..n /\ f \in Seq(ToSet(f))
<1>1. f \in [1..n -> ToSet(f)]
  BY DEF ToSet
<1>2. f \in Seq(ToSet(f))
  BY <1>1
<1> QED
  BY <1>1, <1>2, LenProperties

\* An artifact that can be iterated has a number of iterations.
LEMMA IterationsAre ==
  ASSUME NEW art, Iterable(art)
  PROVE  /\ Len(buildIterations(art)) \in Nat
         /\ DOMAIN buildIterations(art) = 1..Len(buildIterations(art))
<1>1. CASE art.forEach = "none"
  BY <1>1 DEF buildIterations
<1>2. CASE art.forEach # "none"
  <2> DEFINE src == Data[art.forEach]
             its == buildIterations(art)
  <2>1. art.forEach \in DOMAIN Data /\ DOMAIN src \in {{"list"}, {"map"}}
    BY <1>2 DEF Iterable
  <2>2. CASE "list" \in DOMAIN src
    <3>1. src.list \in Seq(ToSet(src.list))
      BY <2>1, <2>2, DataAssumption
    <3>2. DOMAIN src.list = 1..Len(src.list) /\ Len(src.list) \in Nat
      BY <3>1, LenProperties
    <3>3. its = [i \in 1..Len(src.list) |-> [key |-> KeyOrder[i], value |-> src.list[i]]]
      BY <1>2, <2>2, <3>2, Zenon DEF buildIterations
    <3>4. its = [i \in 1..Len(src.list) |-> its[i]]
      BY <3>3
    <3> HIDE DEF its, src
    <3>5. Len(its) = Len(src.list) /\ DOMAIN its = 1..Len(src.list)
      BY <3>2, <3>4, LengthOf
    <3> QED BY <3>2, <3>5 DEF its
  <2>3. CASE "list" \notin DOMAIN src
    <3> DEFINE at == {i \in DOMAIN KeyOrder : KeyOrder[i] \in DOMAIN src.map}
               n == Cardinality(at)
               keys == sortedKeys(src.map)
    <3>1. DOMAIN KeyOrder = 1..Len(KeyOrder) /\ Len(KeyOrder) \in Nat
      BY DataAssumption, LenProperties
    <3>2. n \in Nat
      <4>1. IsFiniteSet(1..Len(KeyOrder))
        BY <3>1, FS_Interval
      <4>2. at \in SUBSET (1..Len(KeyOrder))
        BY <3>1
      <4> HIDE DEF at
      <4> QED BY <4>1, <4>2, FS_Subset, FS_CardinalityType
    <3>3. DOMAIN keys = 1..n
      BY Zenon DEF sortedKeys
    <3>4. its = [i \in DOMAIN keys |-> [key |-> keys[i], value |-> src.map[keys[i]]]]
      BY <1>2, <2>3, Zenon DEF buildIterations
    <3> HIDE DEF n, keys
    <3>5. its = [i \in 1..n |-> its[i]]
      BY <3>3, <3>4
    <3> HIDE DEF its, src
    <3>6. Len(its) = n /\ DOMAIN its = 1..n
      BY <3>2, <3>5, LengthOf
    <3> QED BY <3>2, <3>6 DEF its
  <2> QED BY <2>2, <2>3
<1> QED
  BY <1>1, <1>2

\* The jobs of an artifact are those at its positions.
LEMMA JobsAre ==
  ASSUME NEW art, Iterable(art), IsArtifact(art)
  PROVE  /\ \A c \in Positions(art) : JobAt(art, c) \in Jobs(art)
         /\ \A j \in Jobs(art) : \E c \in Positions(art) : j = JobAt(art, c)
         /\ {Dest(art, j) : j \in Jobs(art)} = {DestAt(art, c) : c \in Positions(art)}
<1> DEFINE its == buildIterations(art)
<1>1. DOMAIN its = 1..Len(its)
  BY IterationsAre
<1>2. ASSUME NEW c \in Positions(art) PROVE JobAt(art, c) \in Jobs(art)
  <2>1. c[1] \in DOMAIN its /\ c[2] \in DOMAIN art.templates
    BY <1>1 DEF Positions
  <2>2. its[c[1]] \in Range(its)
    BY <2>1 DEF Range
  <2> QED BY <2>1, <2>2 DEF Jobs, JobAt
<1>3. ASSUME NEW j \in Jobs(art) PROVE \E c \in Positions(art) : j = JobAt(art, c)
  <2>1. PICK it \in Range(its), i \in DOMAIN art.templates : j = <<it, i>>
    BY DEF Jobs
  <2>2. PICK n \in DOMAIN its : it = its[n]
    BY DEF Range
  <2>3. <<n, i>> \in Positions(art)
    BY <1>1, <2>1, <2>2 DEF Positions
  <2>4. j = JobAt(art, <<n, i>>)
    BY <2>1, <2>2 DEF JobAt
  <2> QED BY <2>3, <2>4
<1>4. \A c : DestAt(art, c) = Dest(art, JobAt(art, c))
  BY DEF DestAt
<1> QED
  BY <1>2, <1>3, <1>4

\* There are as many destinations as copies exactly when no two positions
\* have the same one.
LEMMA CopiesAre ==
  ASSUME NEW art, Iterable(art), IsArtifact(art)
  PROVE  Cardinality({Dest(art, j) : j \in Jobs(art)}) = Copies(art) <=>
           \A c, d \in Positions(art) : DestAt(art, c) = DestAt(art, d) => c = d
<1> DEFINE P == Positions(art)
           D == {DestAt(art, c) : c \in P}
           f == [c \in P |-> DestAt(art, c)]
           n == Len(buildIterations(art))
           m == Len(art.templates)
<1>1. n \in Nat /\ m \in Nat /\ P = (1..n) \X (1..m)
  BY IterationsAre, TemplatesAre DEF Positions
<1>2. IsFiniteSet(P) /\ Cardinality(P) = Copies(art)
  <2> HIDE DEF P, n, m
  <2>1. IsFiniteSet(1..n) /\ Cardinality(1..n) = n /\ IsFiniteSet(1..m) /\ Cardinality(1..m) = m
    BY <1>1, FS_Interval
  <2>2. IsFiniteSet((1..n) \X (1..m)) /\ Cardinality((1..n) \X (1..m)) = n * m
    <3> DEFINE A == 1..n
               B == 1..m
    <3>1. IsFiniteSet(A) /\ IsFiniteSet(B) /\ Cardinality(A) = n /\ Cardinality(B) = m
      BY <2>1
    <3> HIDE DEF A, B
    <3>2. IsFiniteSet(A \X B) /\ Cardinality(A \X B) = Cardinality(A) * Cardinality(B)
      BY <3>1, FS_Product, Zenon
    <3> QED BY <3>1, <3>2, Zenon DEF A, B
  <2> QED BY <1>1, <2>2 DEF Copies, n, m
<1>3. f \in Surjection(P, D)
  BY DEF Surjection
<1>4. f \in Injection(P, D) <=> \A c, d \in P : DestAt(art, c) = DestAt(art, d) => c = d
  BY DEF Injection, IsInjective
<1> HIDE DEF P, D, f
<1>5. Cardinality(D) = Cardinality(P) <=> f \in Injection(P, D)
  BY <1>2, <1>3, FS_Surjection
<1>6. {Dest(art, j) : j \in Jobs(art)} = D
  BY JobsAre DEF D, P
<1> QED
  BY <1>2, <1>4, <1>5, <1>6 DEF P

-----------------------------------------------------------------------------
(***************************************************************************)
(* The order of the pass.                                                  *)
(***************************************************************************)
\* A pass does not change its spec, nor what was said of it.
LEMMA SpecStays ==
  ASSUME spec' = spec
  PROVE  /\ validateSpec' <=> validateSpec
         /\ Alias' = Alias
         /\ NamesApart' <=> NamesApart
         /\ cur' = cur => Art' = Art
<1>1. Alias' = Alias
  BY DEF Alias
<1>2. \A art : validateArtifact(art)' <=> validateArtifact(art)
  BY <1>1 DEF validateArtifact, KnownOrNone
<1>3. NamesApart' <=> NamesApart
  BY <1>1 DEF NamesApart
<1>4. cur' = cur => Art' = Art
  BY DEF Art
<1>5. validateSpec' <=> validateSpec
  BY <1>2 DEF validateSpec
<1> QED
  BY <1>1, <1>3, <1>4, <1>5

\* No action changes the spec.
LEMMA SpecNeverChanges ==
  ASSUME [Next]_vars
  PROVE  spec' = spec
  BY DEF Next, vars, Validate, ValidateFails, Fetch, FetchFails, StartBuild, ApplyTemplate,
         ApplyTemplateFails, Cancelled, Archive, ArchiveFails, Abort

\* What was built stays built.
LEMMA BuiltStays ==
  ASSUME spec' = spec, stored' = stored
  PROVE  Built' = Built /\ \A art : Tarball(art)' = Tarball(art)
  BY DEF Built, Tarball

\* The artifact being built is one of the spec.
LEMMA ArtIsArtifact ==
  ASSUME ControlInv, phase = "build"
  PROVE  /\ cur \in 1..Len(spec.artifacts)
         /\ Art \in ToSet(spec.artifacts) /\ IsArtifact(Art) /\ Iterable(Art)
         /\ \A t \in ToSet(Art.templates) : t.alias \in Alias
         /\ KnownOrNone(Art.revision)
         /\ \A k \in 1..Len(spec.artifacts) : spec.artifacts[k].name = Art.name => k = cur
<1>1. cur \in 1..Len(spec.artifacts) /\ validateSpec /\ Iterable(Art) /\ spec \in Specs
  BY ArtifactsAre DEF ControlInv, LoopInv
<1>2. Art \in ToSet(spec.artifacts) /\ IsArtifact(Art)
  BY <1>1, ArtifactsAre DEF Art
<1>3. validateArtifact(Art)
  BY <1>1, <1>2 DEF validateSpec
<1>4. \A k \in 1..Len(spec.artifacts) : spec.artifacts[k].name = Art.name => k = cur
  BY <1>1, ArtifactsAre DEF validateSpec, Art
<1> QED
  BY <1>1, <1>2, <1>3, <1>4 DEF validateArtifact

\* A pass that gives up for a reason other than a malformed reference.
LEMMA AbortControl ==
  ASSUME ControlInv, NEW why, Abort(why), why # "none", why # "malformed",
         why = "build" => cur > 0
  PROVE  ControlInv'
<1>1. /\ spec' = spec /\ cur' = cur /\ stored' = stored
      /\ phase' = "failed" /\ err' = why
  BY DEF Abort
<1>2. Built' = Built
  BY <1>1, BuiltStays
<1> QED
  BY <1>1, <1>2, SpecStays DEF ControlInv, AcceptedIsWellFormed, LoopInv

\* applyTemplate refuses a reference only for the alias "artifact".
LEMMA MalformedControl ==
  ASSUME ControlInv, Looping, ~WellFormed(T), Abort("malformed")
  PROVE  ControlInv'
<1>1. /\ spec' = spec /\ cur' = cur /\ stored' = stored /\ phase = "build"
      /\ phase' = "failed" /\ err' = "malformed"
  BY DEF Abort, Looping
<1>2. T \in ToSet(Art.templates)
  <2>1. tmpl \in DOMAIN Art.templates
    BY <1>1 DEF ControlInv, LoopInv
  <2> QED BY <2>1, <1>1, ArtIsArtifact, TemplatesAre DEF T
<1>3. T.alias = "artifact"
  BY <1>1, <1>2, ArtIsArtifact DEF WellFormed
<1>4. "artifact" \in {t.alias : t \in ToSet(Art.templates)} /\ Art' = Art /\ Built' = Built
  BY <1>1, <1>2, <1>3, BuiltStays, SpecStays
<1> QED
  BY <1>1, <1>4, SpecStays, ArtIsArtifact DEF ControlInv, AcceptedIsWellFormed, LoopInv

\* An artifact taken from a valid spec defines what it iterates over.
LEMMA StartBuildControl ==
  ASSUME ControlInv, StartBuild
  PROVE  ControlInv'
<1> DEFINE art == spec.artifacts[cur + 1]
<1>1. /\ phase = "next" /\ cur < Len(spec.artifacts) /\ spec' = spec /\ stored' = stored
      /\ cur' = cur + 1 /\ iter' = 1 /\ tmpl' = 1
      /\ \/ Iterable(art) /\ phase' = "build" /\ err' = err
         \/ /\ ~Iterable(art) /\ phase' = "failed"
            /\ err' = IF art.forEach \in DOMAIN Data THEN "build" ELSE "malformed"
  BY Zenon DEF StartBuild, Takes
<1>2. cur' \in 1..Len(spec.artifacts) /\ Art' = art /\ IsArtifact(art)
      /\ art \in ToSet(spec.artifacts) /\ validateSpec /\ err = "none" /\ spec \in Specs
      /\ Len(spec.artifacts) \in Nat
  BY <1>1, ArtifactsAre DEF ControlInv, Art
<1>3. ~Iterable(art) => art.forEach \in DOMAIN Data
  BY <1>2 DEF validateSpec, validateArtifact, Iterable
<1>4. Iterable(art) => Len(buildIterations(art)) \in Nat
  BY IterationsAre
<1>5. 1 \in DOMAIN art.templates
  BY <1>2, TemplatesAre
<1>6. Built' = Built /\ (validateSpec' <=> validateSpec)
  BY <1>1, BuiltStays, SpecStays
<1> HIDE DEF art
<1>7. AcceptedIsWellFormed'
  BY <1>1, <1>2, <1>3, <1>6 DEF ControlInv, AcceptedIsWellFormed
<1>8. cur' \in 0..Len(spec'.artifacts) /\ cur' > 0
  BY <1>1, <1>2
<1>9. LoopInv'
  BY <1>1, <1>2, <1>4, <1>5, <1>8 DEF LoopInv
<1> QED
  BY <1>1, <1>2, <1>3, <1>6, <1>7, <1>8, <1>9 DEF ControlInv

\* The loops of applyArtifact: the next template, or the first one of the
\* next iteration.
LEMMA ApplyTemplateControl ==
  ASSUME ControlInv, ApplyTemplate
  PROVE  ControlInv'
<1> DEFINE n == Len(buildIterations(Art))
           m == Len(Art.templates)
<1>1. /\ phase = "build" /\ iter <= n /\ spec' = spec /\ stored' = stored
      /\ cur' = cur /\ phase' = phase /\ err' = err
      /\ \/ tmpl < m /\ tmpl' = tmpl + 1 /\ iter' = iter
         \/ ~(tmpl < m) /\ tmpl' = 1 /\ iter' = iter + 1
  BY Zenon DEF ApplyTemplate, Looping
<1>2. n \in Nat /\ m \in Nat \ {0} /\ DOMAIN Art.templates = 1..m
  BY <1>1, ArtIsArtifact, IterationsAre, TemplatesAre
<1>3. Art' = Art /\ Built' = Built /\ (validateSpec' <=> validateSpec)
  BY <1>1, BuiltStays, SpecStays
<1>4. iter \in 1..n + 1 /\ tmpl \in 1..m /\ Iterable(Art) /\ cur > 0
  BY <1>1, <1>2 DEF ControlInv, LoopInv
<1>5. iter' \in 1..n + 1 /\ tmpl' \in 1..m /\ (iter' > n => tmpl' = 1)
  BY <1>1, <1>2, <1>4
<1> HIDE DEF n, m
<1>6. AcceptedIsWellFormed'
  BY <1>1, <1>3 DEF ControlInv, AcceptedIsWellFormed
<1>7. LoopInv'
  BY <1>1, <1>2, <1>3, <1>4, <1>5 DEF LoopInv, n, m
<1> QED
  BY <1>1, <1>3, <1>6, <1>7 DEF ControlInv

\* An archive carries the revision its artifact mirrors, and replaces no
\* other artifact's.
LEMMA ArchiveControl ==
  ASSUME ControlInv, Archive
  PROVE  ControlInv'
<1> DEFINE what == [tree |-> [p \in {q \in DOMAIN dirs[StagingDir(Art)] : ~SourceIgnored(q)} |->
                                dirs[StagingDir(Art)][p]],
                    revision |-> Revision(Art)]
<1>1. /\ phase = "build" /\ stored' = Put(stored, Art.name, what) /\ phase' = "next"
      /\ spec' = spec /\ cur' = cur /\ err' = err
  BY Zenon DEF Archive
<1>2. what.revision = Revision(Art)
  OBVIOUS
<1> HIDE DEF what
<1>8. /\ DOMAIN stored' = DOMAIN stored \union {Art.name} /\ stored'[Art.name] = what
      /\ \A x \in DOMAIN stored : x # Art.name => stored'[x] = stored[x]
  BY <1>1 DEF Put
<1>3. ASSUME NEW art \in Built', art.revision # "none"
      PROVE  stored'[art.name].revision = art.revision
  <2>1. art \in ToSet(spec.artifacts) /\ art.name \in DOMAIN stored'
    BY <1>1 DEF Built
  <2>2. CASE art.name = Art.name
    <3>1. art = Art
      BY <2>1, <2>2, <1>1, ArtIsArtifact, ArtifactsAre DEF Art, ControlInv
    <3>2. Revision(Art) = Art.revision
      BY <3>1, <1>1, <1>3, ArtIsArtifact DEF Revision, KnownOrNone
    <3> QED BY <3>1, <3>2, <1>2, <1>8
  <2>3. CASE art.name # Art.name
    <3>1. art.name \in DOMAIN stored /\ stored'[art.name] = stored[art.name]
      BY <2>1, <2>3, <1>8
    <3>2. art \in Built
      BY <2>1, <3>1 DEF Built
    <3> QED BY <3>1, <3>2, <1>3 DEF ControlInv, AcceptedIsWellFormed
  <2> QED BY <2>2, <2>3
<1>4. err' = "none"
  BY <1>1 DEF ControlInv
<1>5. AcceptedIsWellFormed'
  BY <1>3, <1>4 DEF AcceptedIsWellFormed
<1>6. validateSpec' <=> validateSpec
  BY <1>1, SpecStays
<1> QED
  BY <1>1, <1>4, <1>5, <1>6, ArtIsArtifact DEF ControlInv, LoopInv

\* Before the first artifact nothing is built.
LEMMA EarlyControl ==
  ASSUME ControlInv, Validate \/ \E a \in Alias : Fetch(a)
  PROVE  ControlInv'
<1>1. /\ phase \in {"validate", "fetch"} /\ spec' = spec /\ cur' = cur /\ stored' = stored
      /\ err' = err /\ phase' \in {"fetch", "next"}
      /\ phase = "validate" => validateSpec
  BY DEF Validate, Fetch
<1>2. Built' = Built /\ (validateSpec' <=> validateSpec)
  BY <1>1, BuiltStays, SpecStays
<1>3. AcceptedIsWellFormed'
  BY <1>1, <1>2 DEF ControlInv, AcceptedIsWellFormed
<1> QED
  BY <1>1, <1>2, <1>3 DEF ControlInv, LoopInv

\* The pass fetches and builds only for a spec that validateSpec accepted, and
\* the loops stay within the artifact they are at.
LEMMA ControlStep ==
  ASSUME ControlInv, [Next]_vars
  PROVE  ControlInv'
<1>1. CASE Validate \/ \E a \in Alias : Fetch(a)
  BY <1>1, EarlyControl
<1>2. CASE ValidateFails \/ FetchFails \/ Cancelled \/ ArchiveFails
  BY <1>2, AbortControl DEF ValidateFails, FetchFails, Cancelled, ArchiveFails
<1>3. CASE StartBuild
  BY <1>3, StartBuildControl
<1>4. CASE ApplyTemplate
  BY <1>4, ApplyTemplateControl
<1>5. CASE ApplyTemplateFails
  <2>1. cur > 0
    BY <1>5 DEF ApplyTemplateFails, Looping, ControlInv, LoopInv
  <2> QED BY <1>5, <2>1, MalformedControl, AbortControl DEF ApplyTemplateFails
<1>6. CASE Archive
  BY <1>6, ArchiveControl
<1>7. CASE UNCHANGED vars
  <2>1. /\ spec' = spec /\ cur' = cur /\ stored' = stored /\ err' = err /\ phase' = phase
        /\ iter' = iter /\ tmpl' = tmpl
    BY <1>7 DEF vars
  <2>2. Built' = Built /\ (validateSpec' <=> validateSpec) /\ Art' = Art
    BY <2>1, BuiltStays, SpecStays
  <2>3. AcceptedIsWellFormed'
    BY <2>1, <2>2 DEF ControlInv, AcceptedIsWellFormed
  <2> QED BY <2>1, <2>2, <2>3 DEF ControlInv, LoopInv
<1> QED
  BY <1>1, <1>2, <1>3, <1>4, <1>5, <1>6, <1>7 DEF Next

\* Nothing is archived for a spec that was not accepted.
LEMMA AcceptedBeforeBuilt ==
  ASSUME ControlInv, NEW art \in Built
  PROVE  spec \in Specs /\ validateSpec
<1>1. stored # <<>>
  BY DEF Built
<1> QED
  BY <1>1 DEF ControlInv

\* Initially.
LEMMA InitControl == Init => ControlInv
<1> SUFFICES ASSUME Init PROVE ControlInv
  OBVIOUS
<1>1. /\ spec \in Specs /\ cur = 0 /\ stored = <<>> /\ phase = "validate" /\ err = "none"
  BY DEF Init
<1>2. Built = {}
  BY <1>1 DEF Built
<1>3. AcceptedIsWellFormed
  BY <1>1, <1>2 DEF AcceptedIsWellFormed
<1> QED
  BY <1>1, <1>3, ArtifactsAre DEF ControlInv, LoopInv

\* A spec that validateSpec accepted is refused later only for what the
\* sources and the data hold, or for the alias "artifact", and an archive
\* carries the revision it mirrors.
THEOREM AcceptedSpecsAreWellFormed == Spec => []AcceptedIsWellFormed
<1>1. ControlInv => AcceptedIsWellFormed
  BY DEF ControlInv
<1> QED
  BY InitControl, ControlStep, <1>1, PTL DEF Spec

-----------------------------------------------------------------------------
(***************************************************************************)
(* Staging.                                                                *)
(***************************************************************************)
\* A call succeeds exactly when there is what it asks for, and that is what it
\* gives.
LEMMA SucceedsWhenThere ==
  ASSUME NEW tree, NEW p \in DOMAIN tree, p \in Seq(ToSet(p)), NEW it,
         NEW call, call.helper \in {"include", "lookupFile", "required"}
  PROVE  LET defined == Defined(discoverPartials(tree, p), tree[p])
         IN  /\ Succeeds(call, tree, it, defined) <=> Wanted(tree, p, it, call) # {}
             /\ Succeeds(call, tree, it, defined) =>
                  Result(call, tree, it, defined) \in Wanted(tree, p, it, call)
<1> DEFINE defined == Defined(discoverPartials(tree, p), tree[p])
<1>1. CASE call.helper = "include"
  <2>1. /\ call.name \in DOMAIN defined <=> Sees(tree, p, call.name) # {}
        /\ call.name \in DOMAIN defined => defined[call.name] \in Sees(tree, p, call.name)
    BY DefinedIsSeen
  <2> HIDE DEF defined
  <2>2. /\ Succeeds(call, tree, it, defined) <=> call.name \in DOMAIN defined
        /\ Result(call, tree, it, defined) = defined[call.name]
        /\ Wanted(tree, p, it, call) = Sees(tree, p, call.name)
    BY <1>1 DEF Succeeds, Result, Wanted
  <2> QED BY <2>1, <2>2 DEF defined
<1>2. CASE call.helper = "lookupFile"
  <2> HIDE DEF defined
  <2> DEFINE q == Clean(call.path)
             found == {tree[r].src : r \in {r \in DOMAIN tree : /\ ValidLookup(call.path)
                                                                /\ r = q /\ ~tree[r].huge}}
  <2>1. /\ Succeeds(call, tree, it, defined) <=> ValidLookup(call.path) /\ q \in DOMAIN tree /\ ~tree[q].huge
        /\ Result(call, tree, it, defined) = tree[q].src
        /\ Wanted(tree, p, it, call) = found
    BY <1>2 DEF Succeeds, Result, Wanted
  <2> HIDE DEF q
  <2> QED BY <2>1 DEF defined
<1>3. CASE call.helper = "required"
  <2> HIDE DEF defined
  <2>1. /\ Succeeds(call, tree, it, defined) <=> it.value # ""
        /\ Result(call, tree, it, defined) = <<"value", it.value>>
        /\ Wanted(tree, p, it, call) = IF it.value = "" THEN {} ELSE {<<"value", it.value>>}
    BY <1>3 DEF Succeeds, Result, Wanted
  <2> QED BY <2>1 DEF defined
<1> QED
  BY <1>1, <1>2, <1>3

\* What is known of the template of a job in an accepted spec.
LEMMA JobOfSources ==
  ASSUME spec \in Specs, validateSpec, NEW art \in ToSet(spec.artifacts), NEW j \in Jobs(art)
  PROVE  /\ Template(art, j) \in ToSet(art.templates)
         /\ Template(art, j).from \in Seq(ToSet(Template(art, j).from))
         /\ Template(art, j).alias \in DOMAIN Sources
<1>1. IsArtifact(art) /\ validateArtifact(art)
  BY ArtifactsAre DEF validateSpec
<1>2. j[2] \in DOMAIN art.templates
  BY DEF Jobs
<1>3. Template(art, j) \in ToSet(art.templates)
  BY <1>1, <1>2, TemplatesAre DEF Template
<1>4. Template(art, j).alias \in Alias
  BY <1>1, <1>3 DEF validateArtifact
<1>5. \A ref \in ToSet(spec.sources) : ref.alias \in DOMAIN Sources
  BY SpecsAssumption
<1>6. Template(art, j).alias \in DOMAIN Sources
  BY <1>4, <1>5 DEF Alias
<1> QED
  BY <1>1, <1>3, <1>6 DEF IsArtifact

\* A job whose template is there renders exactly when it is renderable, and
\* then every call gives what is wanted of it.
LEMMA RendersWhenRenderable ==
  ASSUME spec \in Specs, validateSpec, NEW art \in ToSet(spec.artifacts), NEW j \in Jobs(art),
         Template(art, j).from \in DOMAIN Sources[Template(art, j).alias]
  PROVE  /\ RendersAlone(art, j) <=> Renderable(art, j)
         /\ RendersAlone(art, j) =>
              LET t == Template(art, j)
                  file == Sources[t.alias][t.from]
              IN  \A i \in DOMAIN file.calls :
                    Rendering(art, j).calls[i] \in Wanted(Sources[t.alias], t.from, j[1], file.calls[i])
<1> DEFINE t == Template(art, j)
           tree == Sources[t.alias]
           p == t.from
           it == j[1]
           partials == discoverPartials(tree, p)
           defined == Defined(partials, tree[p])
<1>1. p \in DOMAIN tree /\ p \in Seq(ToSet(p)) /\ t.alias \in DOMAIN Sources
  BY JobOfSources
<1>2. \A call \in ToSet(tree[p].calls) : call.helper \in {"include", "lookupFile", "required"}
  BY <1>1, SourcesAssumption
<1>3. RendersAlone(art, j) <=> Renders(tree[p], tree, it, partials)
  BY DEF RendersAlone
<1>4. Rendering(art, j) = Render(tree[p], tree, it, partials)
  BY DEF Rendering
<1>5. Renderable(art, j) <=>
        /\ tree[p].parses
        /\ \A n \in 0..Len(p) - 1 : Append(SubSeq(p, 1, n), "_helpers.tpl") \in DOMAIN tree =>
             tree[Append(SubSeq(p, 1, n), "_helpers.tpl")].parses
        /\ \A call \in ToSet(tree[p].calls) : Wanted(tree, p, it, call) # {}
  BY Zenon DEF Renderable
<1> HIDE DEF t, tree, p, it
<1>6. \A call \in ToSet(tree[p].calls) :
        /\ Succeeds(call, tree, it, defined) <=> Wanted(tree, p, it, call) # {}
        /\ Succeeds(call, tree, it, defined) =>
             Result(call, tree, it, defined) \in Wanted(tree, p, it, call)
  BY <1>1, <1>2, SucceedsWhenThere
<1> HIDE DEF partials, defined
<1>7. (\A f \in ToSet(partials) : f.parses) <=>
        \A n \in 0..Len(p) - 1 : Append(SubSeq(p, 1, n), "_helpers.tpl") \in DOMAIN tree =>
          tree[Append(SubSeq(p, 1, n), "_helpers.tpl")].parses
  <2>1. Len(p) \in Nat
    BY <1>1, LenProperties
  <2>2. PICK k : AreOnTheWay(partials, k, tree, p, Len(p))
    BY <2>1, PartialsAreOnTheWay DEF partials
  <2> DEFINE S == {tree[q] : q \in DOMAIN tree}
             l == Len(partials)
  <2>3. /\ partials \in Seq(S) /\ k \in [1..l -> 1..Len(p)]
        /\ \A a \in 1..l : Place(p, k[a]) \in DOMAIN tree /\ partials[a] = tree[Place(p, k[a])]
        /\ \A i \in 1..Len(p) : Place(p, i) \in DOMAIN tree => \E a \in 1..l : k[a] = i
    BY <2>2 DEF AreOnTheWay
  <2> HIDE DEF S
  <2>4. ToSet(partials) = {partials[a] : a \in 1..l}
    BY <2>3, LenProperties DEF ToSet
  <2> HIDE DEF l
  <2>5. (\A f \in ToSet(partials) : f.parses) <=>
          \A i \in 1..Len(p) : Place(p, i) \in DOMAIN tree => tree[Place(p, i)].parses
    BY <2>3, <2>4
  <2>6. \A n \in 0..Len(p) - 1 : /\ n + 1 \in 1..Len(p)
                                 /\ Place(p, n + 1) = Append(SubSeq(p, 1, n), "_helpers.tpl")
    <3> SUFFICES ASSUME NEW n \in 0..Len(p) - 1
                 PROVE  /\ n + 1 \in 1..Len(p)
                        /\ Place(p, n + 1) = Append(SubSeq(p, 1, n), "_helpers.tpl")
      OBVIOUS
    <3>1. n + 1 \in 1..Len(p) /\ (n + 1) - 1 = n
      BY <2>1
    <3> QED BY <3>1 DEF Place
  <2>7. \A i \in 1..Len(p) : i - 1 \in 0..Len(p) - 1 /\ (i - 1) + 1 = i
    BY <2>1
  <2> QED BY <2>5, <2>6, <2>7
<1>8. Renders(tree[p], tree, it, partials) <=>
        /\ tree[p].parses /\ \A f \in ToSet(partials) : f.parses
        /\ \A call \in ToSet(tree[p].calls) : Succeeds(call, tree, it, defined)
  BY Zenon DEF Renders, defined
<1>9. RendersAlone(art, j) <=> Renderable(art, j)
  BY <1>3, <1>5, <1>6, <1>7, <1>8
<1>10. ASSUME RendersAlone(art, j), NEW i \in DOMAIN tree[p].calls
       PROVE  Rendering(art, j).calls[i] \in Wanted(tree, p, it, tree[p].calls[i])
  <2>1. tree[p].calls[i] \in ToSet(tree[p].calls)
    BY DEF ToSet
  <2>2. Rendering(art, j).calls[i] = Result(tree[p].calls[i], tree, it, defined)
    BY <1>4 DEF Render, defined
  <2> QED BY <1>3, <1>6, <1>8, <1>10, <2>1, <2>2
<1> QED
  BY <1>9, <1>10 DEF t, tree, p, it

\* What the loops are at is a position that has not been passed, and its
\* destination is where the file goes.
LEMMA Here ==
  ASSUME ControlInv, Looping
  PROVE  /\ <<iter, tmpl>> \in Positions(Art) /\ <<iter, tmpl>> \notin Passed
         /\ JobAt(Art, <<iter, tmpl>>) = <<It, tmpl>>
         /\ Template(Art, JobAt(Art, <<iter, tmpl>>)) = T
         /\ T.alias \in Alias
         /\ renderDestPath(T.to, It) = DestAt(Art, <<iter, tmpl>>)
         /\ Clean(DestAt(Art, <<iter, tmpl>>)) = DestAt(Art, <<iter, tmpl>>)
<1> DEFINE h == <<iter, tmpl>>
<1>1. phase = "build" /\ iter <= Len(buildIterations(Art))
  BY DEF Looping
<1>2. /\ iter \in 1..Len(buildIterations(Art)) + 1 /\ tmpl \in DOMAIN Art.templates
      /\ IsArtifact(Art) /\ Len(buildIterations(Art)) \in Nat
      /\ DOMAIN Art.templates = 1..Len(Art.templates) /\ Len(Art.templates) \in Nat
  BY <1>1, ArtIsArtifact, IterationsAre, TemplatesAre DEF ControlInv, LoopInv
<1>3. h \in Positions(Art)
  BY <1>1, <1>2 DEF Positions
<1>4. h \notin Passed
  BY <1>2 DEF Passed
<1>5. JobAt(Art, h) = <<It, tmpl>>
  BY DEF JobAt, It
<1>6. Template(Art, <<It, tmpl>>) = T
  BY DEF Template, T
<1>7. T \in ToSet(Art.templates) /\ T.to \in Seq(ToSet(T.to))
  BY <1>1, <1>2, ArtIsArtifact, TemplatesAre DEF T
<1>8. T.alias \in Alias
  BY <1>1, <1>7, ArtIsArtifact
<1>9. DestAt(Art, h) = Clean(Rendered(T.to, It))
  BY <1>5 DEF DestAt, Dest, T
<1>10. Rendered(T.to, It) \in Seq(ToSet(Rendered(T.to, It)))
  <2> DEFINE r == Rendered(T.to, It)
             n == Len(T.to)
  <2>1. n \in Nat /\ DOMAIN T.to = 1..n
    BY <1>7, LenProperties
  <2>2. DOMAIN r = 1..n /\ r = [i \in DOMAIN r |-> r[i]]
    BY <2>1 DEF Rendered
  <2> HIDE DEF r, n
  <2> QED BY <2>1, <2>2, LengthOf DEF r
<1>11. Clean(Clean(Rendered(T.to, It))) = Clean(Rendered(T.to, It))
  BY <1>10, CleanIdempotent
<1> QED
  BY <1>3, <1>4, <1>5, <1>6, <1>8, <1>9, <1>11 DEF renderDestPath

\* Every template and every iteration passed is one position further.
LEMMA PassedGrows ==
  ASSUME ControlInv, ApplyTemplate
  PROVE  Passed' = Passed \union {<<iter, tmpl>>}
<1> DEFINE n == Len(buildIterations(Art))
           m == Len(Art.templates)
<1>1. /\ phase = "build" /\ iter <= n /\ spec' = spec /\ cur' = cur
      /\ \/ tmpl < m /\ tmpl' = tmpl + 1 /\ iter' = iter
         \/ ~(tmpl < m) /\ tmpl' = 1 /\ iter' = iter + 1
  BY Zenon DEF ApplyTemplate, Looping
<1>2. n \in Nat /\ m \in Nat \ {0} /\ DOMAIN Art.templates = 1..m
  BY <1>1, ArtIsArtifact, IterationsAre, TemplatesAre
<1>3. Art' = Art
  BY <1>1, SpecStays
<1>4. iter \in 1..n /\ tmpl \in 1..m
  BY <1>1, <1>2 DEF ControlInv, LoopInv
<1>5. Positions(Art) = (1..n) \X (1..m)
  BY <1>2 DEF Positions
<1>6. Passed' = {c \in Positions(Art) : c[1] < iter' \/ (c[1] = iter' /\ c[2] < tmpl')}
  BY <1>3 DEF Passed
<1> HIDE DEF n, m
<1>7. ASSUME NEW c \in Positions(Art)
      PROVE  c[1] < iter' \/ (c[1] = iter' /\ c[2] < tmpl') <=>
               (c[1] < iter \/ (c[1] = iter /\ c[2] < tmpl)) \/ c = <<iter, tmpl>>
  <2>1. PICK i \in 1..n, t \in 1..m : c = <<i, t>>
    BY <1>5
  <2>2. c[1] = i /\ c[2] = t /\ (c = <<iter, tmpl>> <=> i = iter /\ t = tmpl)
    BY <2>1
  <2> HIDE DEF n, m
  <2>3. i \in Nat /\ t \in Nat /\ t <= m /\ iter \in Nat /\ tmpl \in Nat /\ t >= 1
    BY <1>2, <1>4
  <2> QED BY <1>1, <1>2, <1>4, <2>2, <2>3
<1>8. <<iter, tmpl>> \in Positions(Art)
  BY <1>4, <1>5
<1> QED
  BY <1>6, <1>7, <1>8 DEF Passed

\* At the end of the loops every position has been passed.
LEMMA AllPassed ==
  ASSUME ControlInv, phase = "build", iter > Len(buildIterations(Art))
  PROVE  Passed = Positions(Art)
<1> DEFINE n == Len(buildIterations(Art))
<1>1. n \in Nat /\ iter \in 1..n + 1
  BY ArtIsArtifact, IterationsAre DEF ControlInv, LoopInv
<1>2. \A c \in Positions(Art) : c[1] \in 1..n
  BY DEF Positions
<1> HIDE DEF n
<1>3. iter > n
  BY DEF n
<1> QED
  BY <1>1, <1>2, <1>3 DEF Passed

\* What depends on the spec, the position and the archives only.
LEMMA StagingStays ==
  ASSUME spec' = spec
  PROVE  /\ stored' = stored => /\ Built' = Built
                               /\ \A art : Archived(art)' <=> Archived(art)
         /\ dirs' = dirs => (SourcesIntact' <=> SourcesIntact)
         /\ dirs' = dirs /\ cur' = cur => (NotYetStaged' <=> NotYetStaged)
<1>1. Alias' = Alias
  BY SpecStays
<1>2. stored' = stored => Built' = Built /\ \A art : Archived(art)' <=> Archived(art)
  <2>1. stored' = stored => \A art : Tarball(art)' = Tarball(art)
    BY BuiltStays
  <2> QED BY <2>1, BuiltStays DEF Archived
<1> QED
  BY <1>1, <1>2 DEF SourcesIntact, NotYetStaged

\* A step that only moves the pass on, or ends it.
LEMMA FrameStaging ==
  ASSUME StagingInv, spec' = spec, dirs' = dirs, cur' = cur, stored' = stored,
         phase' \in {"fetch", "failed"}, BuildFailsForCause', RenderFailsForCause'
  PROVE  StagingInv'
<1>1. Built' = Built /\ \A art : Archived(art)' <=> Archived(art)
  BY StagingStays
<1>2. SourcesIntact' /\ NotYetStaged' /\ StagedInv'
  BY StagingStays DEF StagingInv, StagedInv
<1> QED
  BY <1>1, <1>2 DEF StagingInv

\* Fetching puts a source where its alias says, beside no artifact.
LEMMA FetchStaging ==
  ASSUME ControlInv, NamesApart, StagingInv, NEW a \in Alias, Fetch(a)
  PROVE  StagingInv'
<1>1. /\ phase = "fetch" /\ spec' = spec /\ cur' = cur /\ stored' = stored /\ err' = err
      /\ dirs' = Put(dirs, a, Sources[a]) /\ a \notin DOMAIN dirs
      /\ phase' = IF DOMAIN dirs' = Alias THEN "next" ELSE "fetch"
  BY DEF Fetch
<1>2. /\ DOMAIN dirs' = DOMAIN dirs \union {a} /\ dirs'[a] = Sources[a]
      /\ \A x \in DOMAIN dirs : x # a => dirs'[x] = dirs[x]
  BY <1>1 DEF Put
<1>3. Alias' = Alias /\ Built' = Built /\ \A art : Archived(art)' <=> Archived(art)
  BY <1>1, SpecStays, StagingStays
<1>4. SourcesIntact'
  BY <1>2, <1>3 DEF SourcesIntact, StagingInv
<1>5. NotYetStaged'
  <2>1. ASSUME NEW k \in cur + 1..Len(spec.artifacts)
        PROVE  StagingDir(spec.artifacts[k]) # a
    <3>1. k \in 1..Len(spec.artifacts)
      BY ArtifactsAre DEF ControlInv
    <3>2. spec.artifacts[k] \in ToSet(spec.artifacts)
      BY <3>1, ArtifactsAre DEF ControlInv
    <3> QED BY <3>2 DEF NamesApart, StagingDir
  <2> QED BY <2>1, <1>1, <1>2 DEF NotYetStaged, StagingInv, StagingDir
<1>6. phase' # "build" /\ phase' # "validate" /\ (phase' = "next" => Alias' \subseteq DOMAIN dirs')
  BY <1>1, <1>3
<1>7. err' \notin {"build", "render"}
  BY <1>1 DEF ControlInv
<1> QED
  BY <1>3, <1>4, <1>5, <1>6, <1>7 DEF StagingInv, StagedInv, BuildFailsForCause, RenderFailsForCause

\* An artifact begins with a staging directory nobody has used.
LEMMA StartBuildStaging ==
  ASSUME ControlInv, NamesApart, StagingInv, StartBuild
  PROVE  StagingInv'
<1> DEFINE art == spec.artifacts[cur + 1]
           d == StagingDir(art)
<1>1. /\ phase = "next" /\ cur < Len(spec.artifacts) /\ spec' = spec /\ stored' = stored
      /\ cur' = cur + 1 /\ iter' = 1 /\ tmpl' = 1 /\ written' = {}
      /\ dirs' = Put(dirs, d, IF d \in DOMAIN dirs THEN dirs[d] ELSE <<>>)
      /\ \/ Iterable(art) /\ phase' = "build" /\ err' = err
         \/ /\ ~Iterable(art) /\ phase' = "failed"
            /\ err' = IF art.forEach \in DOMAIN Data THEN "build" ELSE "malformed"
  BY Zenon DEF StartBuild, Takes
<1>2. cur \in Nat /\ Len(spec.artifacts) \in Nat /\ cur + 1 \in 1..Len(spec.artifacts)
      /\ spec \in Specs /\ validateSpec /\ Art' = art
  BY <1>1, ArtifactsAre DEF ControlInv, Art
<1>3. art \in ToSet(spec.artifacts) /\ IsArtifact(art)
  BY <1>2, ArtifactsAre
<1>4. d \notin DOMAIN dirs
  BY <1>2 DEF StagingInv, NotYetStaged
<1>5. d \notin Alias
  BY <1>3 DEF NamesApart, StagingDir
<1>6. ASSUME NEW k \in cur + 2..Len(spec.artifacts)
      PROVE  StagingDir(spec.artifacts[k]) # d
  <2>1. k \in 1..Len(spec.artifacts) /\ k # cur + 1
    BY <1>2
  <2>2. k \in DOMAIN spec.artifacts /\ cur + 1 \in DOMAIN spec.artifacts
    BY <1>2, <2>1, ArtifactsAre
  <2>3. spec.artifacts[k].name # spec.artifacts[cur + 1].name
    BY <1>2, <2>1, <2>2 DEF validateSpec
  <2> QED BY <2>3 DEF StagingDir
<1>7. Built' = Built /\ Alias' = Alias /\ \A x : Archived(x)' <=> Archived(x)
  BY <1>1, SpecStays, StagingStays
<1> HIDE DEF d
<1>8. /\ DOMAIN dirs' = DOMAIN dirs \union {d} /\ dirs'[d] = <<>>
      /\ \A x \in DOMAIN dirs : x # d => dirs'[x] = dirs[x]
  BY <1>1, <1>4 DEF Put
<1>9. SourcesIntact'
  BY <1>5, <1>7, <1>8 DEF StagingInv, SourcesIntact
<1>10. NotYetStaged'
  <2> SUFFICES ASSUME NEW k \in cur + 2..Len(spec.artifacts)
               PROVE  StagingDir(spec.artifacts[k]) \notin DOMAIN dirs'
    BY <1>1, <1>2 DEF NotYetStaged, StagingDir
  <2>1. k \in cur + 1..Len(spec.artifacts)
    BY <1>2
  <2> QED BY <2>1, <1>6, <1>8 DEF StagingInv, NotYetStaged
<1>11. StagedInv'
  <2>1. StagingDir(Art)' = d
    BY <1>2 DEF StagingDir, d
  <2>2. DOMAIN dirs'[d] = {}
    BY <1>8
  <2>3. phase' = "build" => Passed' = {}
    <3> SUFFICES ASSUME phase' = "build" PROVE Passed' = {}
      OBVIOUS
    <3> DEFINE P == Positions(art)
    <3>1. Iterable(art)
      BY <1>1
    <3>2. P = (1..Len(buildIterations(art))) \X (1..Len(art.templates))
      BY <1>3, TemplatesAre DEF Positions
    <3>3. \A c \in P : c[1] \in Nat \ {0} /\ c[2] \in Nat \ {0}
      BY <3>1, <3>2, <1>3, IterationsAre, TemplatesAre
    <3>4. Passed' = {c \in P : c[1] < 1 \/ (c[1] = 1 /\ c[2] < 1)}
      BY <1>1, <1>2 DEF Passed
    <3> HIDE DEF P
    <3> QED BY <3>3, <3>4
  <2> QED BY <1>1, <1>8, <2>1, <2>2, <2>3 DEF StagedInv
<1>12. BuildFailsForCause' /\ RenderFailsForCause'
  <2>1. Placeable(art) => Iterable(art)
    BY DEF Placeable
  <2>2. err' # "render"
    BY <1>1 DEF ControlInv
  <2> QED BY <2>1, <2>2, <1>1, <1>2 DEF BuildFailsForCause, RenderFailsForCause, ControlInv
<1>13. Alias' \subseteq DOMAIN dirs' /\ phase' # "validate"
  BY <1>1, <1>7, <1>8 DEF StagingInv
<1> QED
  BY <1>7, <1>9, <1>10, <1>11, <1>12, <1>13 DEF StagingInv

\* A file that is written takes its place beside those of the positions before.
LEMMA ApplyTemplateStaging ==
  ASSUME ControlInv, NamesApart, StagingInv, ApplyTemplate
  PROVE  StagingInv'
<1> DEFINE h == <<iter, tmpl>>
           d == StagingDir(Art)
           p == DestAt(Art, h)
           tree == dirs[T.alias]
           out == Render(tree[T.from], tree, It, discoverPartials(tree, T.from))
<1>1. /\ Looping /\ WellFormed(T) /\ Located /\ RendersNow /\ Writable
      /\ spec' = spec /\ cur' = cur /\ stored' = stored /\ phase' = phase /\ err' = err
      /\ written' = written \union {renderDestPath(T.to, It)}
      /\ dirs' = Put(dirs, d, Put(dirs[d], Clean(renderDestPath(T.to, It)), out))
  BY Zenon DEF ApplyTemplate
<1> HIDE DEF out
<1>2. phase = "build"
  BY <1>1 DEF Looping
<1>3. /\ h \in Positions(Art) /\ h \notin Passed /\ JobAt(Art, h) = <<It, tmpl>>
      /\ Template(Art, JobAt(Art, h)) = T /\ T.alias \in Alias
      /\ renderDestPath(T.to, It) = p /\ Clean(p) = p
  BY <1>1, Here
<1>4. /\ d \in DOMAIN dirs /\ DOMAIN dirs[d] = written
      /\ written = {DestAt(Art, c) : c \in Passed}
      /\ \A c \in Passed : /\ Stageable(Art, c)
                          /\ dirs[d][DestAt(Art, c)] = Rendering(Art, JobAt(Art, c))
      /\ \A c, e \in Passed : Disjoint(Art, c, e)
  BY <1>2 DEF StagingInv, StagedInv
<1>5. Passed' = Passed \union {h}
  BY PassedGrows
<1>6. Art' = Art /\ Alias' = Alias /\ Built' = Built /\ \A x : Archived(x)' <=> Archived(x)
  BY <1>1, SpecStays, StagingStays
<1>7. d \notin Alias
  BY <1>2, ArtIsArtifact DEF NamesApart, StagingDir
<1>8. written' = written \union {p}
  BY <1>1, <1>3
<1>9. p \notin written /\ ~UnderFile(dirs[d], p) /\ ~IsDirectory(dirs[d], p)
  BY <1>1, <1>3 DEF Located, Writable
<1>10. Stageable(Art, h) /\ out = Rendering(Art, JobAt(Art, h))
  <2>1. dirs[T.alias] = Sources[T.alias]
    BY <1>2, <1>3 DEF StagingInv, SourcesIntact
  <2>2. ValidDest(Rendered(T.to, It)) /\ Readable(Sources[T.alias], T.from)
    BY <1>1, <2>1 DEF Located
  <2>3. JobAt(Art, h)[1] = It
    BY <1>3
  <2>4. RendersAlone(Art, JobAt(Art, h))
    BY <1>1, <1>3, <2>1, <2>3 DEF RendersNow, RendersAlone
  <2>5. out = Rendering(Art, JobAt(Art, h))
    BY <1>3, <2>1, <2>3 DEF out, Rendering
  <2> QED BY <1>3, <2>2, <2>3, <2>4, <2>5 DEF Stageable
<1> HIDE DEF d
<1>11. /\ DOMAIN dirs' = DOMAIN dirs /\ DOMAIN dirs'[d] = written' /\ dirs'[d][p] = out
       /\ \A q \in written : q # p => dirs'[d][q] = dirs[d][q]
       /\ \A x \in DOMAIN dirs : x # d => dirs'[x] = dirs[x]
  <2> HIDE DEF p
  <2>1. dirs' = Put(dirs, d, Put(dirs[d], p, out))
    BY <1>1, <1>3
  <2>2. /\ DOMAIN Put(dirs[d], p, out) = DOMAIN dirs[d] \union {p}
        /\ Put(dirs[d], p, out)[p] = out
        /\ \A q \in DOMAIN dirs[d] : q # p => Put(dirs[d], p, out)[q] = dirs[d][q]
    BY DEF Put
  <2>3. /\ DOMAIN dirs' = DOMAIN dirs \union {d} /\ dirs'[d] = Put(dirs[d], p, out)
        /\ \A x \in DOMAIN dirs : x # d => dirs'[x] = dirs[x]
    BY <2>1 DEF Put
  <2> QED BY <1>4, <1>8, <2>2, <2>3
<1>12. SourcesIntact' /\ NotYetStaged'
  BY <1>1, <1>6, <1>7, <1>11 DEF StagingInv, SourcesIntact, NotYetStaged, StagingDir
<1>13. \A x, y : Disjoint(Art, x, y)' <=> Disjoint(Art, x, y)
  BY <1>6 DEF Disjoint, DestAt, Dest, JobAt
<1>14. \A x : Stageable(Art, x)' <=> Stageable(Art, x)
  BY <1>6 DEF Stageable, Template, JobAt, RendersAlone
<1>15. \A c \in Passed : Disjoint(Art, c, h) /\ Disjoint(Art, h, c)
  <2> SUFFICES ASSUME NEW c \in Passed
               PROVE  Disjoint(Art, c, h) /\ Disjoint(Art, h, c)
    OBVIOUS
  <2> HIDE DEF h
  <2>1. DestAt(Art, c) \in DOMAIN dirs[d]
    BY <1>4
  <2>2. DestAt(Art, c) # p
    BY <1>4, <1>9, <2>1
  <2>3. ~IsStrictPrefix(DestAt(Art, c), p) /\ ~IsStrictPrefix(p, DestAt(Art, c))
    BY <1>9, <2>1 DEF UnderFile, IsDirectory
  <2> QED BY <2>2, <2>3 DEF Disjoint
<1>16. Disjoint(Art, h, h)
  BY DEF Disjoint, IsStrictPrefix
<1>17. written' = {DestAt(Art, c)' : c \in Passed'}
  <2>1. \A c : DestAt(Art, c)' = DestAt(Art, c)
    BY <1>6 DEF DestAt, Dest, JobAt
  <2> HIDE DEF h
  <2> QED BY <1>4, <1>5, <1>8, <2>1
<1>21. \A c \in Passed' : dirs'[d][DestAt(Art, c)'] = Rendering(Art, JobAt(Art, c))'
  <2>1. \A c : /\ DestAt(Art, c)' = DestAt(Art, c)
               /\ Rendering(Art, JobAt(Art, c))' = Rendering(Art, JobAt(Art, c))
    BY <1>6 DEF DestAt, Dest, JobAt, Rendering, Template
  <2> HIDE DEF h
  <2>2. ASSUME NEW c \in Passed
        PROVE  dirs'[d][DestAt(Art, c)] = Rendering(Art, JobAt(Art, c))
    <3>1. DestAt(Art, c) \in written /\ DestAt(Art, c) # p
      BY <1>4, <1>9
    <3> QED BY <3>1, <1>4, <1>11
  <2>3. dirs'[d][DestAt(Art, h)] = Rendering(Art, JobAt(Art, h))
    BY <1>10, <1>11
  <2> QED BY <1>5, <2>1, <2>2, <2>3
<1> HIDE DEF h, p
<1>18. StagedInv'
  <2>1. StagingDir(Art)' = d
    BY <1>6 DEF StagingDir, d
  <2>2. \A c \in Passed' : Stageable(Art, c)'
    BY <1>4, <1>5, <1>10, <1>14
  <2>3. \A c, e \in Passed' : Disjoint(Art, c, e)'
    BY <1>4, <1>5, <1>13, <1>15, <1>16
  <2> QED BY <1>4, <1>11, <1>17, <1>21, <2>1, <2>2, <2>3 DEF StagedInv
<1>19. BuildFailsForCause' /\ RenderFailsForCause'
  BY <1>1, <1>6 DEF StagingInv, BuildFailsForCause, RenderFailsForCause
<1>20. Alias' \subseteq DOMAIN dirs'
  BY <1>2, <1>6, <1>11 DEF StagingInv
<1> QED
  BY <1>1, <1>2, <1>6, <1>12, <1>18, <1>19, <1>20 DEF StagingInv

\* A template that is not placed is one no order of the jobs could place.
LEMMA NotPlaced ==
  ASSUME ControlInv, StagingInv, Looping, ~(Located /\ Writable)
  PROVE  ~Placeable(Art)
<1> DEFINE h == <<iter, tmpl>>
           p == DestAt(Art, h)
           tree == dirs[StagingDir(Art)]
<1>1. phase = "build" /\ Iterable(Art) /\ IsArtifact(Art)
  BY ArtIsArtifact DEF Looping
<1>2. /\ h \in Positions(Art) /\ h \notin Passed /\ JobAt(Art, h) = <<It, tmpl>>
      /\ Template(Art, JobAt(Art, h)) = T /\ T.alias \in Alias
      /\ renderDestPath(T.to, It) = p /\ Clean(p) = p
  BY Here
<1>3. DOMAIN tree = written /\ written = {DestAt(Art, c) : c \in Passed}
  BY <1>1 DEF StagingInv, StagedInv
<1>4. dirs[T.alias] = Sources[T.alias]
  BY <1>1, <1>2 DEF StagingInv, SourcesIntact
<1>5. JobAt(Art, h) \in Jobs(Art) /\ JobAt(Art, h)[1] = It
  BY <1>1, <1>2, JobsAre
<1>6. \A c \in Passed : c \in Positions(Art) /\ JobAt(Art, c) \in Jobs(Art)
  BY <1>1, JobsAre DEF Passed
<1>7. \A c : DestAt(Art, c) = Dest(Art, JobAt(Art, c))
  BY DEF DestAt
<1> SUFFICES ASSUME Placeable(Art) PROVE FALSE
  OBVIOUS
<1>8. Readable(dirs[T.alias], T.from) /\ ValidDest(Rendered(T.to, It))
  <2> HIDE DEF h
  <2>1. /\ Readable(Sources[T.alias], T.from)
        /\ ValidDest(Rendered(T.to, JobAt(Art, h)[1]))
    BY <1>2, <1>5 DEF Placeable
  <2> QED BY <1>4, <1>5, <2>1
<1> HIDE DEF h, tree
<1>9. p \notin written
  <2>1. \A c, e \in Positions(Art) : DestAt(Art, c) = DestAt(Art, e) => c = e
    BY <1>1, CopiesAre DEF Placeable
  <2> QED BY <1>2, <1>3, <1>6, <2>1
<1>10. \A q \in DOMAIN tree : ~IsStrictPrefix(q, p) /\ ~IsStrictPrefix(p, q)
  <2> SUFFICES ASSUME NEW c \in Passed
               PROVE  /\ ~IsStrictPrefix(DestAt(Art, c), p)
                      /\ ~IsStrictPrefix(p, DestAt(Art, c))
    BY <1>3
  <2> QED BY <1>5, <1>6, <1>7 DEF Placeable
<1>11. Located
  BY <1>2, <1>8, <1>9 DEF Located
<1>12. Writable
  BY <1>2, <1>10 DEF Writable, UnderFile, IsDirectory, tree
<1> QED
  BY <1>11, <1>12

\* A template that does not render is one whose job asks for what is not there.
LEMMA NotRendered ==
  ASSUME ControlInv, StagingInv, Looping, Located, ~RendersNow
  PROVE  \E j \in Jobs(Art) : /\ Readable(Sources[Template(Art, j).alias], Template(Art, j).from)
                             /\ ~Renderable(Art, j)
<1> DEFINE j == JobAt(Art, <<iter, tmpl>>)
<1>1. /\ phase = "build" /\ Iterable(Art) /\ IsArtifact(Art) /\ Art \in ToSet(spec.artifacts)
      /\ spec \in Specs /\ validateSpec
  BY ArtIsArtifact DEF Looping, ControlInv
<1>2. /\ <<iter, tmpl>> \in Positions(Art) /\ j = <<It, tmpl>>
      /\ Template(Art, j) = T /\ T.alias \in Alias
  BY Here
<1>3. dirs[T.alias] = Sources[T.alias]
  BY <1>1, <1>2 DEF StagingInv, SourcesIntact
<1>4. j \in Jobs(Art) /\ j[1] = It
  BY <1>1, <1>2, JobsAre
<1> HIDE DEF j
<1>5. Readable(Sources[T.alias], T.from)
  BY <1>3 DEF Located
<1>6. ~RendersAlone(Art, j)
  BY <1>2, <1>3, <1>4 DEF RendersNow, RendersAlone
<1>7. T.from \in DOMAIN Sources[T.alias]
  BY <1>5 DEF Readable
<1>8. ~Renderable(Art, j)
  BY <1>1, <1>2, <1>4, <1>6, <1>7, RendersWhenRenderable
<1> QED
  BY <1>2, <1>4, <1>5, <1>8

\* What is archived is all the jobs of the artifact and nothing else, and no
\* other artifact's archive is touched.
LEMMA ArchiveStaging ==
  ASSUME ControlInv, StagingInv, Archive
  PROVE  StagingInv'
<1> DEFINE tree == dirs[StagingDir(Art)]
           what == [tree |-> [q \in {q \in DOMAIN tree : ~SourceIgnored(q)} |-> tree[q]],
                    revision |-> Revision(Art)]
<1>1. /\ phase = "build" /\ iter > Len(buildIterations(Art)) /\ phase' = "next"
      /\ stored' = Put(stored, Art.name, what) /\ dirs' = dirs
      /\ spec' = spec /\ cur' = cur /\ err' = err
  BY Zenon DEF Archive
<1>2. Iterable(Art) /\ IsArtifact(Art) /\ Art \in ToSet(spec.artifacts)
  BY <1>1, ArtIsArtifact
<1>3. Passed = Positions(Art)
  BY <1>1, AllPassed
<1>4. /\ DOMAIN tree = {DestAt(Art, c) : c \in Positions(Art)}
      /\ \A c \in Positions(Art) : /\ Stageable(Art, c)
                                 /\ tree[DestAt(Art, c)] = Rendering(Art, JobAt(Art, c))
      /\ \A c, e \in Positions(Art) : Disjoint(Art, c, e)
  BY <1>1, <1>3, Zenon DEF StagingInv, StagedInv
<1>5. Placeable(Art)
  <2>1. \A c, e \in Positions(Art) : DestAt(Art, c) = DestAt(Art, e) => c = e
    BY <1>4 DEF Disjoint
  <2>2. Cardinality({Dest(Art, j) : j \in Jobs(Art)}) = Copies(Art)
    BY <1>2, <2>1, CopiesAre
  <2>3. ASSUME NEW j \in Jobs(Art)
        PROVE  /\ Readable(Sources[Template(Art, j).alias], Template(Art, j).from)
               /\ ValidDest(Rendered(Template(Art, j).to, j[1]))
    <3>1. PICK c \in Positions(Art) : j = JobAt(Art, c)
      BY <1>2, JobsAre
    <3> QED BY <1>4, <3>1 DEF Stageable
  <2>4. ASSUME NEW j \in Jobs(Art), NEW k \in Jobs(Art)
        PROVE  ~IsStrictPrefix(Dest(Art, j), Dest(Art, k))
    <3>1. PICK c \in Positions(Art) : j = JobAt(Art, c)
      BY <1>2, JobsAre
    <3>2. PICK e \in Positions(Art) : k = JobAt(Art, e)
      BY <1>2, JobsAre
    <3>3. ~IsStrictPrefix(DestAt(Art, c), DestAt(Art, e))
      BY <1>4 DEF Disjoint
    <3> QED BY <3>1, <3>2, <3>3 DEF DestAt
  <2> QED BY <1>2, <2>2, <2>3, <2>4 DEF Placeable
<1>6. DOMAIN tree = {Dest(Art, j) : j \in Jobs(Art)}
  BY <1>2, <1>4, JobsAre
<1>7. /\ DOMAIN what.tree = {q \in {Dest(Art, j) : j \in Jobs(Art)} : ~SourceIgnored(q)}
      /\ \A q \in DOMAIN what.tree : what.tree[q] = tree[q]
  BY <1>6
<1>12. \A j \in Jobs(Art) : /\ RendersAlone(Art, j)
                            /\ tree[Dest(Art, j)] = Rendering(Art, j)
  <2> SUFFICES ASSUME NEW j \in Jobs(Art)
               PROVE  RendersAlone(Art, j) /\ tree[Dest(Art, j)] = Rendering(Art, j)
    OBVIOUS
  <2>1. PICK c \in Positions(Art) : j = JobAt(Art, c)
    BY <1>2, JobsAre
  <2> QED BY <1>4, <2>1 DEF Stageable, DestAt
<1> HIDE DEF what, tree
<1>8. /\ DOMAIN stored' = DOMAIN stored \union {Art.name} /\ stored'[Art.name] = what
      /\ \A x \in DOMAIN stored : x # Art.name => stored'[x] = stored[x]
  BY <1>1 DEF Put
<1>9. ASSUME NEW art \in Built' PROVE Archived(art)'
  <2>1. art \in ToSet(spec.artifacts) /\ art.name \in DOMAIN stored'
    BY <1>1 DEF Built
  <2>2. CASE art.name = Art.name
    <3>1. art = Art
      BY <2>1, <2>2, <1>1, ArtIsArtifact, ArtifactsAre DEF Art, ControlInv
    <3>2. DOMAIN (stored'[art.name]).tree = {q \in {Dest(art, j) : j \in Jobs(art)} : ~SourceIgnored(q)}
      BY <3>1, <1>7, <1>8
    <3>3. Placeable(art)
      BY <3>1, <1>5
    <3>4. \A j \in Jobs(art) :
            /\ RendersAlone(art, j)
            /\ Dest(art, j) \in DOMAIN (stored'[art.name]).tree =>
                 (stored'[art.name]).tree[Dest(art, j)] = Rendering(art, j)
      BY <3>1, <1>7, <1>8, <1>12
    <3> QED BY <3>2, <3>3, <3>4 DEF Archived, Tarball
  <2>3. CASE art.name # Art.name
    <3>1. art.name \in DOMAIN stored /\ stored'[art.name] = stored[art.name]
      BY <2>1, <2>3, <1>8
    <3>2. Archived(art)
      BY <2>1, <3>1 DEF Built, StagingInv
    <3> QED BY <3>1, <3>2 DEF Archived, Tarball
  <2> QED BY <2>2, <2>3
<1>10. Alias' = Alias /\ SourcesIntact' /\ NotYetStaged'
  BY <1>1, SpecStays, StagingStays DEF StagingInv
<1>11. err' \notin {"build", "render"}
  BY <1>1 DEF ControlInv
<1> QED
  BY <1>1, <1>9, <1>10, <1>11 DEF StagingInv, StagedInv, BuildFailsForCause, RenderFailsForCause

\* Every step keeps the staging directories and the archives as they should be.
LEMMA StagingStep ==
  ASSUME ControlInv, NamesApart, StagingInv, [Next]_vars
  PROVE  StagingInv'
<1>1. CASE Validate
  <2>1. /\ spec' = spec /\ dirs' = dirs /\ cur' = cur /\ stored' = stored
        /\ phase' = "fetch" /\ err' = "none"
    BY <1>1 DEF Validate, ControlInv
  <2>2. BuildFailsForCause' /\ RenderFailsForCause'
    BY <2>1 DEF BuildFailsForCause, RenderFailsForCause
  <2> QED BY <2>1, <2>2, FrameStaging
<1>2. CASE ValidateFails \/ FetchFails \/ Cancelled \/ ArchiveFails
  <2>1. /\ spec' = spec /\ dirs' = dirs /\ cur' = cur /\ stored' = stored
        /\ phase' = "failed" /\ err' \notin {"build", "render"}
    BY <1>2 DEF ValidateFails, FetchFails, Cancelled, ArchiveFails, Abort
  <2>2. BuildFailsForCause' /\ RenderFailsForCause'
    BY <2>1 DEF BuildFailsForCause, RenderFailsForCause
  <2> QED BY <2>1, <2>2, FrameStaging
<1>3. CASE \E a \in Alias : Fetch(a)
  BY <1>3, FetchStaging
<1>4. CASE StartBuild
  BY <1>4, StartBuildStaging
<1>5. CASE ApplyTemplate
  BY <1>5, ApplyTemplateStaging
<1>6. CASE ApplyTemplateFails
  <2>1. /\ Looping /\ spec' = spec /\ dirs' = dirs /\ cur' = cur /\ stored' = stored
        /\ phase' = "failed" /\ (err' = "build" => ~(Located /\ Writable))
        /\ err' = "render" => Located /\ ~RendersNow
    BY <1>6 DEF ApplyTemplateFails, Abort
  <2>2. Art' = Art
    BY <2>1, SpecStays
  <2>3. BuildFailsForCause'
    BY <2>1, <2>2, NotPlaced DEF BuildFailsForCause
  <2>4. RenderFailsForCause'
    BY <2>1, <2>2, NotRendered DEF RenderFailsForCause
  <2> QED BY <2>1, <2>3, <2>4, FrameStaging
<1>7. CASE Archive
  BY <1>7, ArchiveStaging
<1>8. CASE UNCHANGED vars
  <2>1. /\ spec' = spec /\ dirs' = dirs /\ cur' = cur /\ written' = written /\ iter' = iter
        /\ tmpl' = tmpl /\ stored' = stored /\ phase' = phase /\ err' = err
    BY <1>8 DEF vars
  <2>2. /\ Art' = Art /\ Alias' = Alias /\ Built' = Built
        /\ \A art : Archived(art)' <=> Archived(art)
        /\ SourcesIntact' /\ NotYetStaged'
    BY <2>1, SpecStays, StagingStays DEF StagingInv
  <2>3. StagedInv'
    <3>1. Passed' = Passed
      BY <2>1, <2>2 DEF Passed
    <3> QED BY <2>1, <2>2, <3>1 DEF StagingInv, StagedInv
  <2> QED BY <2>1, <2>2, <2>3 DEF StagingInv, BuildFailsForCause, RenderFailsForCause
<1> QED
  BY <1>1, <1>2, <1>3, <1>4, <1>5, <1>6, <1>7, <1>8 DEF Next

\* Nothing is staged or archived in the beginning.
LEMMA InitStaging == Init => StagingInv
<1> SUFFICES ASSUME Init PROVE StagingInv
  OBVIOUS
<1>1. dirs = <<>> /\ stored = <<>> /\ phase = "validate" /\ err = "none"
  BY DEF Init
<1>2. DOMAIN dirs = {} /\ Built = {}
  BY <1>1 DEF Built
<1> QED
  BY <1>1, <1>2 DEF StagingInv, SourcesIntact, NotYetStaged, StagedInv, BuildFailsForCause,
                     RenderFailsForCause

\* A build stages exactly the jobs before the one it is at, each where no other
\* is, and an archive holds all of its artifact's jobs, for every spec whose
\* artifacts are named unlike its aliases, whatever the sources and data hold.
THEOREM BuildInvariant == Spec => []BuildInv
<1>1. Init => BuildInv
  BY InitControl, InitStaging DEF BuildInv
<1>2. ASSUME BuildInv, [Next]_vars PROVE BuildInv'
  <2>1. ControlInv'
    BY <1>2, ControlStep DEF BuildInv
  <2>2. NamesApart' <=> NamesApart
    BY <1>2, SpecNeverChanges, SpecStays
  <2>3. NamesApart => StagingInv'
    BY <1>2, StagingStep DEF BuildInv
  <2> QED BY <2>1, <2>2, <2>3 DEF BuildInv
<1> QED
  BY <1>1, <1>2, PTL DEF Spec

\* An archived tarball holds one file for every iteration and every template,
\* except those that the default patterns ignore, and nothing else, for a spec
\* whose artifacts are named unlike its aliases.
THEOREM TarballsAreComplete == Spec /\ NamesApart => []TarballIsComplete
<1>1. ASSUME BuildInv, NamesApart PROVE TarballIsComplete
  BY <1>1 DEF BuildInv, StagingInv, Archived, Placeable, TarballIsComplete
<1>2. ASSUME NamesApart, [Next]_vars PROVE NamesApart'
  BY <1>2, SpecNeverChanges, SpecStays
<1> QED
  BY <1>1, <1>2, BuildInvariant, PTL DEF Spec

\* Every archived file is the template as it was fetched, rendered for its own
\* iteration, each include answered by the template itself or by the closest
\* directory, for a spec whose artifacts are named unlike its aliases.
THEOREM TarballsAreRendered == Spec /\ NamesApart => []TarballIsRendered
<1>1. ASSUME BuildInv, NamesApart PROVE TarballIsRendered
  <2> SUFFICES ASSUME NEW art \in Built, NEW j \in Jobs(art), Dest(art, j) \in DOMAIN Tarball(art)
               PROVE  LET t    == Template(art, j)
                          file == Sources[t.alias][t.from]
                          out  == Tarball(art)[Dest(art, j)]
                      IN  /\ out.tmpl = file.src /\ out.item = j[1]
                          /\ \A i \in DOMAIN file.calls :
                               out.calls[i] \in Wanted(Sources[t.alias], t.from, j[1], file.calls[i])
    BY Zenon DEF TarballIsRendered
  <2>1. ControlInv /\ Archived(art) /\ art \in ToSet(spec.artifacts)
    BY <1>1 DEF BuildInv, StagingInv, Built
  <2>3. spec \in Specs /\ validateSpec
    BY <2>1, AcceptedBeforeBuilt
  <2>4. RendersAlone(art, j) /\ Tarball(art)[Dest(art, j)] = Rendering(art, j)
    BY <2>1 DEF Archived
  <2>5. Template(art, j).from \in DOMAIN Sources[Template(art, j).alias]
    BY <2>1 DEF Archived, Placeable, Readable
  <2>6. /\ Rendering(art, j).tmpl = Sources[Template(art, j).alias][Template(art, j).from].src
        /\ Rendering(art, j).item = j[1]
    BY DEF Rendering, Render
  <2> QED BY <2>1, <2>3, <2>4, <2>5, <2>6, RendersWhenRenderable
<1>2. ASSUME NamesApart, [Next]_vars PROVE NamesApart'
  BY <1>2, SpecNeverChanges, SpecStays
<1> QED
  BY <1>1, <1>2, BuildInvariant, PTL DEF Spec

\* A build reports BuildFailed only when some template is missing or too large,
\* or a destination is invalid or in another's way, in whatever order they are
\* tried, and RenderFailed only when a template asks for what is not there; what
\* it archives is none of that.  Again for artifacts named unlike the aliases.
THEOREM BuildsFailForCause == Spec /\ NamesApart => []FailsForCause
<1>1. ASSUME BuildInv, NamesApart PROVE FailsForCause
  <2>1. BuildFailsForCause /\ RenderFailsForCause /\ ControlInv
    BY <1>1 DEF BuildInv, StagingInv
  <2>2. ASSUME NEW art \in Built
        PROVE  Placeable(art) /\ \A j \in Jobs(art) : Renderable(art, j)
    <3>1. Archived(art) /\ art \in ToSet(spec.artifacts)
      BY <1>1 DEF BuildInv, StagingInv, Built
    <3>2. spec \in Specs /\ validateSpec
      BY <2>1, AcceptedBeforeBuilt
    <3>3. ASSUME NEW j \in Jobs(art) PROVE Renderable(art, j)
      <4>1. RendersAlone(art, j)
        BY <3>1 DEF Archived
      <4>2. Template(art, j).from \in DOMAIN Sources[Template(art, j).alias]
        BY <3>1 DEF Archived, Placeable, Readable
      <4> QED BY <3>1, <3>2, <4>1, <4>2, RendersWhenRenderable
    <3> QED BY <3>1, <3>3 DEF Archived
  <2> QED BY <2>1, <2>2 DEF FailsForCause, BuiltIsPlaceable
<1>2. ASSUME NamesApart, [Next]_vars PROVE NamesApart'
  BY <1>2, SpecNeverChanges, SpecStays
<1> QED
  BY <1>1, <1>2, BuildInvariant, PTL DEF Spec
=============================================================================
