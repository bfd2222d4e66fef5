--------------------------- MODULE PipelineProofs ---------------------------
(***************************************************************************)
(* What Compile guarantees Run, for every set of names, aliases and files  *)
(* and every length of the pipeline.                                       *)
(***************************************************************************)
EXTENDS Pipeline, TreesProofs, FiniteSetTheorems

-----------------------------------------------------------------------------
\* The loops of the verbs are the recursions they read like.

\* load, building a map.
LEMMA EntriesLoop ==
  ASSUME NEW ls, NEW matches, NEW values, Len(matches) \in Nat
  PROVE  \E f : /\ f[0] = Ok(<<>>)
                /\ \A i \in 1..Len(matches) : f[i] = AddEntry(f[i - 1], loadKeyOf(ls.expr, matches[i]), values[i].ok)
                /\ entries(ls, matches, values) = f[Len(matches)]
<1> DEFINE n == Len(matches)
           step(x, i) == AddEntry(x, loadKeyOf(ls.expr, matches[i]), values[i].ok)
           H(f, m) == [i \in 0..m |-> IF i = 0 THEN Ok(<<>>) ELSE step(f[i - 1], i)]
           K == {m \in Nat : \E f : f = H(f, m)}
           c == CHOOSE f : f = H(f, n)
<1>1. entries(ls, matches, values) = c[n]
  BY Zenon DEF entries
<1> HIDE DEF step, n
<1>2. 0 \in K
  <2>1. [i \in 0..0 |-> Ok(<<>>)] = H([i \in 0..0 |-> Ok(<<>>)], 0)
    OBVIOUS
  <2> QED BY <2>1
<1>3. ASSUME NEW m \in Nat, m \in K PROVE m + 1 \in K
  <2>1. PICK f : f = H(f, m)
    BY <1>3
  <2>2. PICK g : g = [i \in 0..m + 1 |-> IF i = 0 THEN Ok(<<>>) ELSE step(f[i - 1], i)]
    OBVIOUS
  <2>3. \A i \in 0..m : g[i] = f[i]
    BY <2>1, <2>2
  <2>4. \A i \in 1..m + 1 : i - 1 \in 0..m
    OBVIOUS
  <2>5. \A i \in 1..m + 1 : step(f[i - 1], i) = step(g[i - 1], i)
    BY <2>3, <2>4
  <2>6. g = H(g, m + 1)
    BY <2>2, <2>5
  <2> QED BY <2>6
<1>4. n \in K
  <2> HIDE DEF K
  <2> QED BY <1>2, <1>3, SetInduction, Zenon DEF n
<1>5. c = H(c, n)
  <2>1. \E f : f = H(f, n)
    BY <1>4
  <2> HIDE DEF H
  <2> QED BY <2>1
<1> HIDE DEF c
<1>6. c[0] = Ok(<<>>) /\ \A i \in 1..n : c[i] = step(c[i - 1], i)
  <2>1. \A i \in 0..n : c[i] = H(c, n)[i]
    <3> HIDE DEF H
    <3> QED BY <1>5
  <2>2. n \in Nat
    BY DEF n
  <2> QED BY <2>1, <2>2
<1> QED BY <1>1, <1>6 DEF n, step

\* filter over a list, and the matches of a glob.
LEMMA KeptLoop ==
  ASSUME NEW list, NEW wanted, Len(list) \in Nat
  PROVE  \E f : /\ f[0] = <<>>
                /\ \A i \in 1..Len(list) : f[i] = IF wanted[i] THEN Append(f[i - 1], list[i]) ELSE f[i - 1]
                /\ kept(list, wanted) = f[Len(list)]
<1> DEFINE n == Len(list)
           step(x, i) == IF wanted[i] THEN Append(x, list[i]) ELSE x
           H(f, m) == [i \in 0..m |-> IF i = 0 THEN <<>> ELSE step(f[i - 1], i)]
           K == {m \in Nat : \E f : f = H(f, m)}
           c == CHOOSE f : f = H(f, n)
<1>1. kept(list, wanted) = c[n]
  BY Zenon DEF kept
<1> HIDE DEF step, n
<1>2. 0 \in K
  <2>1. [i \in 0..0 |-> <<>>] = H([i \in 0..0 |-> <<>>], 0)
    OBVIOUS
  <2> QED BY <2>1
<1>3. ASSUME NEW m \in Nat, m \in K PROVE m + 1 \in K
  <2>1. PICK f : f = H(f, m)
    BY <1>3
  <2>2. PICK g : g = [i \in 0..m + 1 |-> IF i = 0 THEN <<>> ELSE step(f[i - 1], i)]
    OBVIOUS
  <2>3. \A i \in 0..m : g[i] = f[i]
    BY <2>1, <2>2
  <2>4. \A i \in 1..m + 1 : i - 1 \in 0..m
    OBVIOUS
  <2>5. \A i \in 1..m + 1 : step(f[i - 1], i) = step(g[i - 1], i)
    BY <2>3, <2>4
  <2>6. g = H(g, m + 1)
    BY <2>2, <2>5
  <2> QED BY <2>6
<1>4. n \in K
  <2> HIDE DEF K
  <2> QED BY <1>2, <1>3, SetInduction, Zenon DEF n
<1>5. c = H(c, n)
  <2>1. \E f : f = H(f, n)
    BY <1>4
  <2> HIDE DEF H
  <2> QED BY <2>1
<1> HIDE DEF c
<1>6. c[0] = <<>> /\ \A i \in 1..n : c[i] = step(c[i - 1], i)
  <2>1. \A i \in 0..n : c[i] = H(c, n)[i]
    <3> HIDE DEF H
    <3> QED BY <1>5
  <2>2. n \in Nat
    BY DEF n
  <2> QED BY <2>1, <2>2
<1> QED BY <1>1, <1>6 DEF n, step

\* group.
LEMMA BucketsLoop ==
  ASSUME NEW key, NEW list, Len(list) \in Nat
  PROVE  \E f : /\ f[0] = <<>>
                /\ \A i \in 1..Len(list) : f[i] = AppendToBucket(f[i - 1], key[i], list[i])
                /\ buckets(key, list) = f[Len(list)]
<1> DEFINE n == Len(list)
           step(x, i) == AppendToBucket(x, key[i], list[i])
           H(f, m) == [i \in 0..m |-> IF i = 0 THEN <<>> ELSE step(f[i - 1], i)]
           K == {m \in Nat : \E f : f = H(f, m)}
           c == CHOOSE f : f = H(f, n)
<1>1. buckets(key, list) = c[n]
  BY Zenon DEF buckets
<1> HIDE DEF step, n
<1>2. 0 \in K
  <2>1. [i \in 0..0 |-> <<>>] = H([i \in 0..0 |-> <<>>], 0)
    OBVIOUS
  <2> QED BY <2>1
<1>3. ASSUME NEW m \in Nat, m \in K PROVE m + 1 \in K
  <2>1. PICK f : f = H(f, m)
    BY <1>3
  <2>2. PICK g : g = [i \in 0..m + 1 |-> IF i = 0 THEN <<>> ELSE step(f[i - 1], i)]
    OBVIOUS
  <2>3. \A i \in 0..m : g[i] = f[i]
    BY <2>1, <2>2
  <2>4. \A i \in 1..m + 1 : i - 1 \in 0..m
    OBVIOUS
  <2>5. \A i \in 1..m + 1 : step(f[i - 1], i) = step(g[i - 1], i)
    BY <2>3, <2>4
  <2>6. g = H(g, m + 1)
    BY <2>2, <2>5
  <2> QED BY <2>6
<1>4. n \in K
  <2> HIDE DEF K
  <2> QED BY <1>2, <1>3, SetInduction, Zenon DEF n
<1>5. c = H(c, n)
  <2>1. \E f : f = H(f, n)
    BY <1>4
  <2> HIDE DEF H
  <2> QED BY <2>1
<1> HIDE DEF c
<1>6. c[0] = <<>> /\ \A i \in 1..n : c[i] = step(c[i - 1], i)
  <2>1. \A i \in 0..n : c[i] = H(c, n)[i]
    <3> HIDE DEF H
    <3> QED BY <1>5
  <2>2. n \in Nat
    BY DEF n
  <2> QED BY <2>1, <2>2
<1> QED BY <1>1, <1>6 DEF n, step

\* merge.
LEMMA MergedLoop ==
  ASSUME NEW from, NEW outs, Len(from) \in Nat
  PROVE  \E f : /\ f[0] = Empty
                /\ \A i \in 1..Len(from) : f[i] = deepMerge(f[i - 1], outs[from[i]])
                /\ merged(from, outs) = f[Len(from)]
<1> DEFINE n == Len(from)
           step(x, i) == deepMerge(x, outs[from[i]])
           H(f, m) == [i \in 0..m |-> IF i = 0 THEN Empty ELSE step(f[i - 1], i)]
           K == {m \in Nat : \E f : f = H(f, m)}
           c == CHOOSE f : f = H(f, n)
<1>1. merged(from, outs) = c[n]
  BY Zenon DEF merged
<1> HIDE DEF step, n
<1>2. 0 \in K
  <2>1. [i \in 0..0 |-> Empty] = H([i \in 0..0 |-> Empty], 0)
    OBVIOUS
  <2> QED BY <2>1
<1>3. ASSUME NEW m \in Nat, m \in K PROVE m + 1 \in K
  <2>1. PICK f : f = H(f, m)
    BY <1>3
  <2>2. PICK g : g = [i \in 0..m + 1 |-> IF i = 0 THEN Empty ELSE step(f[i - 1], i)]
    OBVIOUS
  <2>3. \A i \in 0..m : g[i] = f[i]
    BY <2>1, <2>2
  <2>4. \A i \in 1..m + 1 : i - 1 \in 0..m
    OBVIOUS
  <2>5. \A i \in 1..m + 1 : step(f[i - 1], i) = step(g[i - 1], i)
    BY <2>3, <2>4
  <2>6. g = H(g, m + 1)
    BY <2>2, <2>5
  <2> QED BY <2>6
<1>4. n \in K
  <2> HIDE DEF K
  <2> QED BY <1>2, <1>3, SetInduction, Zenon DEF n
<1>5. c = H(c, n)
  <2>1. \E f : f = H(f, n)
    BY <1>4
  <2> HIDE DEF H
  <2> QED BY <2>1
<1> HIDE DEF c
<1>6. c[0] = Empty /\ \A i \in 1..n : c[i] = step(c[i - 1], i)
  <2>1. \A i \in 0..n : c[i] = H(c, n)[i]
    <3> HIDE DEF H
    <3> QED BY <1>5
  <2>2. n \in Nat
    BY DEF n
  <2> QED BY <2>1, <2>2
<1> QED BY <1>1, <1>6 DEF n, step

-----------------------------------------------------------------------------
\* Results, trees and sequences.

LEMMA Results ==
  /\ \A v : IsOk(Ok(v)) /\ Ok(v).ok = v
  /\ \A k : ~IsOk(Err(k)) /\ Err(k).err = k
  BY DEF IsOk, Ok, Err

LEMMA Shapes ==
  /\ \A f : IsMap(Map(f)) /\ ~IsList(Map(f)) /\ Map(f).map = f
  /\ \A s : IsList(List(s)) /\ ~IsMap(List(s)) /\ List(s).list = s
  BY DEF IsMap, IsList, Map, List

LEMMA Sequences ==
  ASSUME NEW s
  PROVE  /\ \A S : s \in Seq(S) => IsSequence(s)
         /\ IsSequence(s) => Len(s) \in Nat /\ DOMAIN s = 1..Len(s)
<1>1. ASSUME NEW S, s \in Seq(S) PROVE IsSequence(s)
  BY <1>1, RangeOfSeq, SeqOfRange DEF IsSequence
<1>2. ASSUME IsSequence(s) PROVE Len(s) \in Nat /\ DOMAIN s = 1..Len(s)
  BY <1>2 DEF IsSequence
<1> QED BY <1>1, <1>2

\* A function over 1..n is a sequence of length n.
LEMMA FunctionIsSequence ==
  ASSUME NEW f, NEW n \in Nat, f \in [1..n -> Range(f)]
  PROVE  IsSequence(f) /\ Len(f) = n
  BY SeqDef DEF IsSequence

\* Appending to a sequence.
LEMMA Appended ==
  ASSUME NEW s, IsSequence(s), NEW x
  PROVE  LET t == Append(s, x)
         IN  /\ IsSequence(t)
             /\ Len(t) = Len(s) + 1
             /\ t[Len(t)] = x
             /\ \A i \in 1..Len(s) : t[i] = s[i]
<1> DEFINE S == Range(s) \union {x}
<1>1. s \in Seq(S)
  BY SeqMonotonic DEF IsSequence
<1>2. x \in S
  OBVIOUS
<1> HIDE DEF S
<1>3. /\ Append(s, x) \in Seq(S)
      /\ Len(Append(s, x)) = Len(s) + 1
      /\ Append(s, x)[Len(s) + 1] = x
      /\ \A i \in 1..Len(s) : Append(s, x)[i] = s[i]
  BY <1>1, <1>2, AppendProperties
<1> QED BY <1>3, Sequences

\* What is kept of a sequence: the wanted items, each once if the sequence has
\* each once.
LEMMA Kept ==
  ASSUME NEW list, IsSequence(list), NEW wanted
  PROVE  /\ IsSequence(kept(list, wanted))
         /\ Range(kept(list, wanted)) = {list[j] : j \in {i \in 1..Len(list) : wanted[i]}}
         /\ Len(kept(list, wanted)) <= Len(list)
         /\ IsInjective(list) => IsInjective(kept(list, wanted))
<1> DEFINE n == Len(list)
           Chosen(i) == {list[j] : j \in {m \in 1..i : wanted[m]}}
<1>1. n \in Nat /\ DOMAIN list = 1..n
  BY Sequences
<1>2. PICK f : /\ f[0] = <<>>
               /\ \A i \in 1..n : f[i] = IF wanted[i] THEN Append(f[i - 1], list[i]) ELSE f[i - 1]
               /\ kept(list, wanted) = f[n]
  BY <1>1, KeptLoop, Zenon
<1> DEFINE P(i) == /\ IsSequence(f[i])
                   /\ Range(f[i]) = Chosen(i)
                   /\ Len(f[i]) <= i
                   /\ IsInjective(list) => IsInjective(f[i])
           K == {i \in Nat : i <= n => P(i)}
<1>3. 0 \in K
  <2>1. /\ IsSequence(<<>>) /\ Range(<<>>) = {} /\ IsInjective(<<>>) /\ Len(<<>>) = 0
    BY DEF IsSequence, Range, IsInjective
  <2>2. Chosen(0) = {}
    OBVIOUS
  <2> QED BY <2>1, <2>2, <1>2
<1>4. ASSUME NEW i \in Nat, i \in K PROVE i + 1 \in K
  <2> SUFFICES ASSUME i + 1 <= n PROVE P(i + 1)
    OBVIOUS
  <2>1. P(i) /\ i + 1 \in 1..n /\ (i + 1) - 1 = i
    BY <1>4, <1>1
  <2>2. f[i + 1] = IF wanted[i + 1] THEN Append(f[i], list[i + 1]) ELSE f[i]
    BY <1>2, <2>1
  <2>3. CASE ~wanted[i + 1]
    <3>1. Chosen(i + 1) = Chosen(i)
      <4>1. {m \in 1..i + 1 : wanted[m]} = {m \in 1..i : wanted[m]}
        BY <2>3
      <4> QED BY <4>1
    <3>2. f[i + 1] = f[i]
      BY <2>2, <2>3
    <3>3. Len(f[i]) \in Nat
      BY <2>1, Sequences
    <3> HIDE DEF Chosen, K, n
    <3>4. IsSequence(f[i + 1]) /\ (IsInjective(list) => IsInjective(f[i + 1]))
      BY <2>1, <3>2
    <3>5. Range(f[i + 1]) = Chosen(i + 1)
      BY <2>1, <3>1, <3>2
    <3>6. Len(f[i + 1]) <= i + 1
      BY <2>1, <3>2, <3>3
    <3> QED BY <3>4, <3>5, <3>6
  <2>4. CASE wanted[i + 1]
    <3> DEFINE t == Append(f[i], list[i + 1])
    <3>1. Chosen(i + 1) = Chosen(i) \union {list[i + 1]}
      <4>1. {m \in 1..i + 1 : wanted[m]} = {m \in 1..i : wanted[m]} \union {i + 1}
        BY <2>4
      <4> QED BY <4>1
    <3>2. f[i + 1] = t
      BY <2>2, <2>4
    <3>3. /\ IsSequence(t)
          /\ Len(t) = Len(f[i]) + 1
          /\ t[Len(t)] = list[i + 1]
          /\ \A j \in 1..Len(f[i]) : t[j] = f[i][j]
      BY <2>1, Appended
    <3>4. /\ DOMAIN t = 1..Len(f[i]) + 1 /\ DOMAIN f[i] = 1..Len(f[i])
          /\ Len(f[i]) \in Nat
      BY <2>1, <3>3, Sequences
    <3> HIDE DEF t
    <3>5. Range(t) = Range(f[i]) \union {list[i + 1]}
      BY <3>3, <3>4 DEF Range
    <3>6. ASSUME IsInjective(list) PROVE IsInjective(t)
      <4> HIDE DEF n
      <4>1. list[i + 1] \notin Chosen(i)
        BY <3>6, <1>1, <2>1 DEF IsInjective
      <4>2. \A j \in DOMAIN f[i] : f[i][j] \in Chosen(i)
        BY <2>1 DEF Range
      <4>3. IsInjective(f[i])
        BY <2>1, <3>6
      <4> HIDE DEF Chosen
      <4> SUFFICES ASSUME NEW a \in DOMAIN t, NEW b \in DOMAIN t, t[a] = t[b]
                   PROVE  a = b
        BY DEF IsInjective
      <4>4. ASSUME NEW j \in DOMAIN t
            PROVE  \/ j \in DOMAIN f[i] /\ t[j] = f[i][j] /\ t[j] # list[i + 1]
                   \/ j = Len(t) /\ t[j] = list[i + 1]
        BY <3>3, <3>4, <4>1, <4>2
      <4>5. \/ a \in DOMAIN f[i] /\ b \in DOMAIN f[i] /\ f[i][a] = f[i][b]
            \/ a = Len(t) /\ b = Len(t)
        BY <4>4
      <4> QED BY <4>3, <4>5 DEF IsInjective
    <3>7. Len(t) <= i + 1
      BY <2>1, <3>3, <3>4
    <3> HIDE DEF Chosen, K, n
    <3>8. Range(t) = Chosen(i + 1)
      BY <2>1, <3>1, <3>5
    <3> QED BY <3>2, <3>3, <3>6, <3>7, <3>8
  <2> QED BY <2>3, <2>4
<1>5. n \in K
  <2> HIDE DEF K, n
  <2> QED BY <1>1, <1>3, <1>4, SetInduction, Zenon
<1> QED BY <1>2, <1>5

-----------------------------------------------------------------------------
\* Evaluating a step gives a value whose list is a sequence, or an error.

Kinds == {"undefined", "missing", "decode", "shape", "expr", "duplicate"}

\* The shape of what a verb reads and publishes.
ListOK(v) == IsList(v) => ~IsMap(v) /\ IsSequence(v.list)

Sound(r) == IF IsOk(r) THEN ListOK(r.ok) ELSE r.err \in Kinds

LEMMA SoundResults ==
  /\ \A f : Sound(Ok(Map(f)))
  /\ \A s : IsSequence(s) => Sound(Ok(List(s)))
  /\ \A k \in Kinds : Sound(Err(k))
  BY Results, Shapes DEF Sound, ListOK

\* A fragment that compiled renders a key or fails.
LEMMA LoadKeys ==
  ASSUME NEW e \in KeyExpr, NEW file
  PROVE  IsOk(loadKeyOf(e, file)) \/ loadKeyOf(e, file) = Err("expr")
  BY Results DEF KeyExpr, loadKeyOf, keyOf

\* The loop of a load `as: map`: as many entries as files, each file in one of
\* them, or the error that stopped it.
LEMMA Entries ==
  ASSUME NEW ls, NEW matches, NEW values, Len(matches) \in Nat, ls.expr \in KeyExpr
  PROVE  LET r == entries(ls, matches, values)
         IN  IF IsOk(r)
             THEN /\ Cardinality(DOMAIN r.ok) = Len(matches)
                  /\ \A j \in 1..Len(matches) : \E k \in DOMAIN r.ok : r.ok[k] = values[j].ok
             ELSE r.err \in {"expr", "duplicate"}
<1> DEFINE n == Len(matches)
           Full(r, i) == /\ IsFiniteSet(DOMAIN r.ok) /\ Cardinality(DOMAIN r.ok) = i
                         /\ \A j \in 1..i : \E k \in DOMAIN r.ok : r.ok[k] = values[j].ok
           P(r, i) == IF IsOk(r) THEN Full(r, i) ELSE r.err \in {"expr", "duplicate"}
<1>1. PICK f : /\ f[0] = Ok(<<>>)
               /\ \A i \in 1..n : f[i] = AddEntry(f[i - 1], loadKeyOf(ls.expr, matches[i]), values[i].ok)
               /\ entries(ls, matches, values) = f[n]
  BY EntriesLoop
<1> DEFINE K == {i \in Nat : i <= n => P(f[i], i)}
<1>2. 0 \in K
  <2>1. DOMAIN <<>> = {}
    OBVIOUS
  <2>2. IsOk(f[0]) /\ f[0].ok = <<>>
    BY <1>1, Results
  <2>3. Full(f[0], 0)
    BY <2>1, <2>2, FS_EmptySet
  <2> QED BY <2>2, <2>3
<1>3. ASSUME NEW i \in Nat, i \in K PROVE i + 1 \in K
  <2> SUFFICES ASSUME i + 1 <= n PROVE P(f[i + 1], i + 1)
    OBVIOUS
  <2>1. P(f[i], i) /\ i + 1 \in 1..n /\ (i + 1) - 1 = i
    BY <1>3
  <2> DEFINE key == loadKeyOf(ls.expr, matches[i + 1])
             val == values[i + 1].ok
             new == [k \in DOMAIN f[i].ok \union {key.ok} |-> IF k = key.ok THEN val ELSE f[i].ok[k]]
  <2>2. f[i + 1] = AddEntry(f[i], key, val)
    BY <1>1, <2>1
  <2>3. CASE ~IsOk(f[i])
    BY <2>1, <2>2, <2>3 DEF AddEntry
  <2>4. CASE IsOk(f[i]) /\ ~IsOk(key)
    <3>1. f[i + 1] = key
      BY <2>2, <2>4 DEF AddEntry
    <3>2. key = Err("expr")
      BY <2>4, LoadKeys
    <3> HIDE DEF key
    <3>3. ~IsOk(f[i + 1]) /\ f[i + 1].err = "expr"
      BY <3>1, <3>2, Results
    <3> QED BY <3>3
  <2>5. CASE IsOk(f[i]) /\ IsOk(key) /\ key.ok \in DOMAIN f[i].ok
    <3>1. f[i + 1] = Err("duplicate")
      BY <2>2, <2>5 DEF AddEntry
    <3>2. ~IsOk(f[i + 1]) /\ f[i + 1].err = "duplicate"
      BY <3>1, Results
    <3> QED BY <3>2
  <2>6. CASE IsOk(f[i]) /\ IsOk(key) /\ key.ok \notin DOMAIN f[i].ok
    <3>1. f[i + 1] = Ok(new)
      BY <2>2, <2>6 DEF AddEntry
    <3>2. IsOk(f[i + 1]) /\ f[i + 1].ok = new
      BY <3>1, Results
    <3>3. Full(f[i], i)
      BY <2>1, <2>6
    <3> HIDE DEF key, val
    <3>4. /\ DOMAIN new = DOMAIN f[i].ok \union {key.ok}
          /\ new[key.ok] = val
          /\ \A k \in DOMAIN f[i].ok : new[k] = f[i].ok[k]
      BY <2>6
    <3> HIDE DEF new
    <3>5. IsFiniteSet(DOMAIN new) /\ Cardinality(DOMAIN new) = i + 1
      <4>1. /\ IsFiniteSet(DOMAIN f[i].ok) /\ Cardinality(DOMAIN f[i].ok) = i
            /\ key.ok \notin DOMAIN f[i].ok
        BY <3>3, <2>6
      <4> QED BY <3>4, <4>1, FS_AddElement
    <3>6. ASSUME NEW j \in 1..i + 1 PROVE \E k \in DOMAIN new : new[k] = values[j].ok
      <4>1. CASE j = i + 1
        BY <4>1, <3>4 DEF val
      <4>2. CASE j \in 1..i
        <5>1. PICK k \in DOMAIN f[i].ok : f[i].ok[k] = values[j].ok
          BY <4>2, <3>3
        <5> QED BY <5>1, <3>4
      <4> QED BY <4>1, <4>2
    <3> QED BY <3>2, <3>5, <3>6
  <2> QED BY <2>3, <2>4, <2>5, <2>6
<1>4. n \in K
  <2> HIDE DEF K, n
  <2> QED BY <1>2, <1>3, SetInduction, Zenon DEF n
<1> QED BY <1>1, <1>4

\* The matches of a glob: every file of the alias, once, in order.
LEMMA Matches ==
  ASSUME NEW ls, ls.alias \in Alias
  PROVE  LET m == expandGlob(ls)
         IN  /\ IsSequence(m)
             /\ \A i \in DOMAIN m : m[i] \in DOMAIN Files[ls.alias]
             /\ Len(m) <= Len(FileOrder)
             /\ ls.glob => Range(m) = DOMAIN Files[ls.alias] /\ IsInjective(m)
<1> DEFINE wanted == [i \in DOMAIN FileOrder |-> FileOrder[i] \in DOMAIN Files[ls.alias]]
           D == DOMAIN Files[ls.alias]
<1>1. IsSequence(FileOrder) /\ IsInjective(FileOrder) /\ D \subseteq Range(FileOrder)
  BY FilesAssumption
<1>5. Len(FileOrder) \in Nat /\ Len(FileOrder) >= 1
  BY <1>1, FilesAssumption, EmptySeq DEF IsSequence
<1>2. CASE ls.glob
  <2>1. expandGlob(ls) = kept(FileOrder, wanted)
    BY <1>2 DEF expandGlob
  <2>2. {FileOrder[j] : j \in {i \in 1..Len(FileOrder) : wanted[i]}} = D
    <3>1. DOMAIN FileOrder = 1..Len(FileOrder)
      BY <1>1, Sequences
    <3> QED BY <3>1, <1>1 DEF Range
  <2> HIDE DEF wanted
  <2>3. /\ IsSequence(kept(FileOrder, wanted))
        /\ Range(kept(FileOrder, wanted)) = D
        /\ Len(kept(FileOrder, wanted)) <= Len(FileOrder)
        /\ IsInjective(kept(FileOrder, wanted))
    BY <2>2, <1>1, Kept
  <2> QED BY <2>1, <2>3 DEF Range
<1>3. CASE ~ls.glob /\ FileOrder[1] \in D
  <2>1. expandGlob(ls) = <<FileOrder[1]>>
    BY <1>3 DEF expandGlob
  <2>2. /\ <<FileOrder[1]>> \in Seq({FileOrder[1]}) /\ Len(<<FileOrder[1]>>) = 1
        /\ \A i \in DOMAIN <<FileOrder[1]>> : <<FileOrder[1]>>[i] = FileOrder[1]
    OBVIOUS
  <2> QED BY <1>3, <1>5, <2>1, <2>2, Sequences
<1>4. CASE ~ls.glob /\ FileOrder[1] \notin D
  <2>1. expandGlob(ls) = <<>>
    BY <1>4 DEF expandGlob
  <2>2. <<>> \in Seq({}) /\ DOMAIN <<>> = {} /\ Len(<<>>) = 0
    OBVIOUS
  <2>3. IsSequence(<<>>)
    BY <2>2, Sequences, Zenon
  <2>4. Len(<<>>) <= Len(FileOrder)
    BY <1>5, <2>2
  <2>5. \A i \in DOMAIN <<>> : FALSE
    BY <2>2
  <2> HIDE DEF D
  <2> QED BY <1>4, <2>1, <2>3, <2>4, <2>5, Zenon
<1> QED BY <1>2, <1>3, <1>4

IsLoad(ls) == ls.expr \in KeyExpr \union {"none", "unparsable"}

LEMMA LoadIsSound ==
  ASSUME NEW ls, IsLoad(ls), compileLoad(ls)
  PROVE  Sound(evalLoad(ls))
<1> DEFINE matches == expandGlob(ls)
           values  == [i \in DOMAIN matches |-> readDecode(ls.alias, matches[i])]
           r       == entries(ls, matches, values)
<1>1. ls.alias \in Alias
  BY DEF compileLoad
<1>2. /\ IsSequence(matches)
      /\ \A i \in DOMAIN matches : matches[i] \in DOMAIN Files[ls.alias]
  BY <1>1, Matches
<1>3. Len(matches) \in Nat /\ DOMAIN matches = 1..Len(matches)
  BY <1>2, Sequences
<1>4. evalLoad(ls) = IF ~ls.glob
                     THEN IF Len(matches) = 1 THEN values[1] ELSE Err("missing")
                     ELSE IF \E i \in DOMAIN values : ~IsOk(values[i]) THEN Err("decode")
                     ELSE IF ls.asMap THEN IF IsOk(r) THEN Ok(Map(r.ok)) ELSE r
                     ELSE Ok(List([i \in DOMAIN values |-> values[i].ok]))
  BY DEF evalLoad
<1> HIDE DEF matches
<1>5. ASSUME NEW i \in DOMAIN matches PROVE Sound(values[i])
  <2> DEFINE t == Files[ls.alias][matches[i]]
  <2>1. ListOK(t)
    BY <1>1, <1>2, <1>5, FilesAssumption DEF ListOK
  <2>2. values[i] = Err("decode") \/ values[i] = Ok(t)
    BY <1>5 DEF readDecode
  <2> HIDE DEF t, values
  <2>3. Sound(Ok(t))
    BY <2>1, Results DEF Sound
  <2> QED BY <2>2, <2>3, SoundResults DEF Kinds
<1>6. CASE ~ls.glob /\ Len(matches) = 1
  BY <1>3, <1>4, <1>5, <1>6
<1>7. CASE ~ls.glob /\ Len(matches) # 1
  BY <1>4, <1>7, SoundResults DEF Kinds
<1>8. CASE ls.glob /\ \E i \in DOMAIN values : ~IsOk(values[i])
  BY <1>4, <1>8, SoundResults DEF Kinds
<1>9. CASE ls.glob /\ (\A i \in DOMAIN values : IsOk(values[i])) /\ ls.asMap
  <2>1. ls.expr \in KeyExpr
    BY <1>9 DEF IsLoad, compileLoad, newItemTemplate
  <2>2. evalLoad(ls) = IF IsOk(r) THEN Ok(Map(r.ok)) ELSE r
    BY <1>4, <1>9
  <2>3. IsOk(r) \/ (~IsOk(r) /\ r.err \in {"expr", "duplicate"})
    <3> HIDE DEF values
    <3> QED BY <2>1, <1>3, Entries
  <2> HIDE DEF r
  <2>4. CASE IsOk(r)
    BY <2>2, <2>4, SoundResults
  <2>5. CASE ~IsOk(r)
    BY <2>2, <2>3, <2>5 DEF Sound, Kinds
  <2> QED BY <2>4, <2>5
<1>10. CASE ls.glob /\ (\A i \in DOMAIN values : IsOk(values[i])) /\ ~ls.asMap
  <2> DEFINE s == [i \in DOMAIN values |-> values[i].ok]
  <2>1. evalLoad(ls) = Ok(List(s))
    BY <1>4, <1>10
  <2>2. DOMAIN s = 1..Len(matches)
    BY <1>3
  <2> HIDE DEF values
  <2>3. s \in [1..Len(matches) -> Range(s)]
    BY <2>2 DEF Range
  <2> HIDE DEF s
  <2>4. IsSequence(s)
    BY <1>3, <2>3, FunctionIsSequence
  <2> QED BY <2>1, <2>4, SoundResults
<1> QED BY <1>6, <1>7, <1>8, <1>9, <1>10

\* A selection of a collection, of its items or of their objects.
LEMMA Selected ==
  ASSUME NEW v, IsList(v) => IsSequence(v.list), NEW wanted
  PROVE  /\ IsList(v) => /\ selected(v, wanted) = List(kept(v.list, wanted))
                         /\ IsSequence(kept(v.list, wanted))
                         /\ Range(kept(v.list, wanted)) \subseteq Range(v.list)
                         /\ Len(kept(v.list, wanted)) <= Len(v.list)
         /\ ~IsList(v) => \E f : /\ selected(v, wanted) = Map(f)
                                 /\ DOMAIN f \subseteq DOMAIN v.map
                                 /\ \A k \in DOMAIN f : f[k] = v.map[k]
<1>1. CASE IsList(v)
  <2>1. selected(v, wanted) = List(kept(v.list, wanted))
    BY <1>1 DEF selected
  <2>2. IsSequence(v.list) /\ DOMAIN v.list = 1..Len(v.list)
    BY <1>1, Sequences
  <2>3. /\ IsSequence(kept(v.list, wanted))
        /\ Range(kept(v.list, wanted)) = {v.list[j] : j \in {i \in 1..Len(v.list) : wanted[i]}}
        /\ Len(kept(v.list, wanted)) <= Len(v.list)
    BY <2>2, Kept
  <2>4. Range(kept(v.list, wanted)) \subseteq Range(v.list)
    BY <2>2, <2>3 DEF Range
  <2> QED BY <1>1, <2>1, <2>3, <2>4
<1>2. CASE ~IsList(v)
  <2> DEFINE f == [k \in {j \in DOMAIN v.map : wanted[j]} |-> v.map[k]]
  <2>1. selected(v, wanted) = Map(f)
    BY <1>2 DEF selected
  <2>2. DOMAIN f \subseteq DOMAIN v.map /\ \A k \in DOMAIN f : f[k] = v.map[k]
    OBVIOUS
  <2> HIDE DEF f
  <2> QED BY <1>2, <2>1, <2>2
<1> QED BY <1>1, <1>2

LEMMA Filtered ==
  ASSUME NEW ps, NEW v
  PROVE  \/ evalFilter(ps, v) \in {Err("shape"), Err("expr")}
         \/ IsCollection(v) /\ evalFilter(ps, v) = Ok(selected(v, holds(ps, v)))
  BY DEF evalFilter

LEMMA FilterIsSound ==
  ASSUME NEW ps, NEW v, ListOK(v)
  PROVE  Sound(evalFilter(ps, v))
<1> DEFINE s == selected(v, holds(ps, v))
<1>1. Sound(Ok(s))
  <2>1. CASE IsList(v)
    BY <2>1, Selected, SoundResults DEF ListOK
  <2>2. CASE ~IsList(v)
    BY <2>2, Selected, SoundResults
  <2> QED BY <2>1, <2>2
<1> HIDE DEF s
<1>2. evalFilter(ps, v) \in {Err("shape"), Err("expr"), Ok(s)}
  BY Filtered DEF s
<1> QED BY <1>1, <1>2, SoundResults DEF Kinds

LEMMA MapIsSound ==
  ASSUME NEW ps, NEW v, ListOK(v)
  PROVE  Sound(evalMap(ps, v))
<1> DEFINE new   == [i \in DOMAIN Items(v) |-> renderItem(ps.expr, Items(v)[i])]
           items == [i \in DOMAIN new |-> new[i].ok]
<1>1. evalMap(ps, v) \in {Err("shape"), Err("expr")} \/ evalMap(ps, v) = Ok(IF IsList(v) THEN List(items) ELSE Map(items))
  BY DEF evalMap
<1>2. IsList(v) => IsSequence(items)
  <2> SUFFICES ASSUME IsList(v) PROVE IsSequence(items)
    OBVIOUS
  <2>1. Len(v.list) \in Nat /\ DOMAIN v.list = 1..Len(v.list)
    BY Sequences DEF ListOK
  <2>2. DOMAIN items = 1..Len(v.list)
    BY <2>1 DEF Items
  <2>3. items \in [1..Len(v.list) -> Range(items)]
    <3> HIDE DEF new
    <3> QED BY <2>2 DEF Range
  <2> HIDE DEF items
  <2> QED BY <2>1, <2>3, FunctionIsSequence
<1> HIDE DEF items
<1>3. CASE IsList(v)
  BY <1>1, <1>2, <1>3, SoundResults DEF Kinds
<1>4. CASE ~IsList(v)
  BY <1>1, <1>4, SoundResults DEF Kinds
<1> QED BY <1>3, <1>4

LEMMA GroupIsSound ==
  ASSUME NEW ps, NEW v
  PROVE  Sound(evalGroup(ps, v))
<1>1. evalGroup(ps, v) \in {Err("shape"), Err("expr"), Ok(Map(buckets(groupKeys(ps, v.list), v.list)))}
  BY DEF evalGroup
<1> QED BY <1>1, SoundResults DEF Kinds

\* Two maps merge to a map, and so do the maps of a merge step.
LEMMA MergeOfMaps ==
  ASSUME NEW a, NEW b, IsMap(a), IsMap(b)
  PROVE  \E f : deepMerge(a, b) = Map(f)
  BY DEF deepMerge, mergeNodes

LEMMA MergedIsMap ==
  ASSUME NEW from, NEW outs, Len(from) \in Nat, \A i \in 1..Len(from) : IsMap(outs[from[i]])
  PROVE  \E g : merged(from, outs) = Map(g)
<1> DEFINE n == Len(from)
<1>1. PICK f : /\ f[0] = Empty
               /\ \A i \in 1..n : f[i] = deepMerge(f[i - 1], outs[from[i]])
               /\ merged(from, outs) = f[n]
  BY MergedLoop
<1> DEFINE K == {i \in Nat : i <= n => \E g : f[i] = Map(g)}
<1>2. 0 \in K
  BY <1>1 DEF Empty
<1>3. ASSUME NEW i \in Nat, i \in K PROVE i + 1 \in K
  <2> SUFFICES ASSUME i + 1 <= n PROVE \E g : f[i + 1] = Map(g)
    OBVIOUS
  <2>1. i + 1 \in 1..n /\ (i + 1) - 1 = i
    OBVIOUS
  <2>2. IsMap(f[i])
    BY <1>3, Shapes
  <2>3. f[i + 1] = deepMerge(f[i], outs[from[i + 1]])
    BY <1>1, <2>1
  <2> QED BY <2>1, <2>2, <2>3, MergeOfMaps
<1>4. n \in K
  <2> HIDE DEF K, n
  <2> QED BY <1>2, <1>3, SetInduction, Zenon DEF n
<1> QED BY <1>1, <1>4

\* The verbs and the fragments of the steps that set something.
LEMMA Effects ==
  ASSUME NEW ps \in Setters
  PROVE  \/ ps.verb = "load" /\ ps.expr = "distinct" /\ ps.sets \in StepName
         \/ ps.verb = "filter" /\ ps.expr = "isMap"
         \/ ps.verb = "map" /\ ps.expr = "self"
         \/ ps.verb = "group" /\ ps.expr = "distinct"
<1> DEFINE L    == [verb : {"load"}, name : StepName, alias : Alias, glob : {TRUE}, asMap : {TRUE},
                    expr : {"distinct"}, sets : StepName]
           I(v) == [verb : {v[1]}, name : StepName, from : StepName,
                    expr : {v[2]}, sets : StepName \union {"item"}]
           V    == {<<"filter", "isMap">>, <<"map", "self">>, <<"group", "distinct">>}
<1>1. ps \in L \/ ps \in UNION {I(v) : v \in V}
  BY DEF Setters
<1>2. CASE ps \in L
  BY <1>2
<1>3. CASE ps \in UNION {I(v) : v \in V}
  <2>1. PICK v \in V : ps \in I(v)
    BY <1>3
  <2>2. ps.verb = v[1] /\ ps.expr = v[2]
    BY <2>1
  <2> QED BY <2>1, <2>2
<1> QED BY <1>1, <1>2, <1>3

\* What the steps of a spec look like.
LEMMA Verbs ==
  ASSUME NEW ps \in PipelineStep
  PROVE  /\ ps.verb \in {"load", "filter", "map", "group", "merge"}
         /\ ps.verb = "load" => IsLoad(ps)
         /\ ps.verb = "merge" => Len(ps.from) \in Nat /\ DOMAIN ps.from = 1..Len(ps.from)
<1>1. CASE ps \in Loads
  BY <1>1 DEF Loads, IsLoad
<1>2. CASE ps \in Iterations
  BY <1>2 DEF Iterations
<1>3. CASE ps \in Merges
  <2>1. ps.verb = "merge" /\ ps.from \in SeqOf(StepName, 2)
    BY <1>3 DEF Merges
  <2>2. PICK m \in 0..2 : ps.from \in [1..m -> StepName]
    BY <2>1 DEF SeqOf
  <2>3. Len(ps.from) = m /\ DOMAIN ps.from = 1..m
    BY <2>2
  <2> QED BY <2>1, <2>3
<1>4. CASE ps \in Setters
  BY <1>4, Effects DEF IsLoad, KeyExpr
<1> QED BY <1>1, <1>2, <1>3, <1>4 DEF PipelineStep

\* Step.Eval in a scope whose lists are sequences.
LEMMA EvalIsSound ==
  ASSUME NEW ps \in PipelineStep, ps.verb = "load" => compileLoad(ps),
         NEW outs, \A n \in DOMAIN outs : ListOK(outs[n])
  PROVE  Sound(Eval(ps, outs))
<1>1. CASE \E n \in Reads(ps) : n \notin DOMAIN outs
  BY <1>1, SoundResults DEF Eval, Kinds
<1>2. CASE ~\E n \in Reads(ps) : n \notin DOMAIN outs
  <2>1. CASE ps.verb = "load"
    BY <1>2, <2>1, Verbs, LoadIsSound DEF Eval
  <2>2. CASE ps.verb \in {"filter", "map", "group"}
    <3>1. ListOK(outs[ps.from])
      BY <1>2, <2>2 DEF Reads
    <3> QED BY <1>2, <2>2, <3>1, FilterIsSound, MapIsSound, GroupIsSound DEF Eval
  <2>3. CASE ps.verb = "merge"
    <3>1. Eval(ps, outs) = evalMerge(ps, outs)
      BY <1>2, <2>3 DEF Eval
    <3>2. CASE \E i \in DOMAIN ps.from : ~IsMap(outs[ps.from[i]])
      BY <3>1, <3>2, SoundResults DEF evalMerge, Kinds
    <3>3. CASE \A i \in DOMAIN ps.from : IsMap(outs[ps.from[i]])
      <4>1. \E g : merged(ps.from, outs) = Map(g)
        BY <2>3, <3>3, Verbs, MergedIsMap
      <4>2. Eval(ps, outs) = Ok(merged(ps.from, outs))
        BY <3>1, <3>3 DEF evalMerge
      <4> QED BY <4>1, <4>2, SoundResults
    <3> QED BY <3>2, <3>3
  <2> QED BY <2>1, <2>2, <2>3, Verbs
<1> QED BY <1>1, <1>2

\* A step reads nothing but the outputs it names.
LEMMA MergedIsStable ==
  ASSUME NEW from, NEW outs, NEW more, Len(from) \in Nat,
         \A i \in 1..Len(from) : more[from[i]] = outs[from[i]]
  PROVE  merged(from, more) = merged(from, outs)
<1> DEFINE n == Len(from)
<1>1. PICK f : /\ f[0] = Empty
               /\ \A i \in 1..n : f[i] = deepMerge(f[i - 1], outs[from[i]])
               /\ merged(from, outs) = f[n]
  BY MergedLoop
<1>2. PICK g : /\ g[0] = Empty
               /\ \A i \in 1..n : g[i] = deepMerge(g[i - 1], more[from[i]])
               /\ merged(from, more) = g[n]
  BY MergedLoop
<1> DEFINE K == {i \in Nat : i <= n => f[i] = g[i]}
<1>3. 0 \in K
  BY <1>1, <1>2
<1>4. ASSUME NEW i \in Nat, i \in K PROVE i + 1 \in K
  <2> SUFFICES ASSUME i + 1 <= n PROVE f[i + 1] = g[i + 1]
    OBVIOUS
  <2>1. i + 1 \in 1..n /\ (i + 1) - 1 = i
    OBVIOUS
  <2>2. f[i] = g[i]
    BY <1>4
  <2> QED BY <1>1, <1>2, <2>1, <2>2
<1>5. n \in K
  <2> HIDE DEF K, n
  <2> QED BY <1>3, <1>4, SetInduction, Zenon DEF n
<1> QED BY <1>1, <1>2, <1>5

LEMMA EvalIsStable ==
  ASSUME NEW ps \in PipelineStep, NEW outs, NEW more,
         DOMAIN outs \subseteq DOMAIN more,
         \A n \in DOMAIN outs : more[n] = outs[n],
         IsOk(Eval(ps, outs))
  PROVE  Eval(ps, more) = Eval(ps, outs)
<1>1. Reads(ps) \subseteq DOMAIN outs
  <2>1. CASE \E n \in Reads(ps) : n \notin DOMAIN outs
    <3>1. Eval(ps, outs) = Err("undefined")
      BY <2>1 DEF Eval
    <3> QED BY <3>1, Results
  <2> QED BY <2>1
<1>2. Reads(ps) \subseteq DOMAIN more
  BY <1>1
<1>3. CASE ps.verb = "load"
  BY <1>1, <1>2, <1>3 DEF Eval
<1>4. CASE ps.verb \in {"filter", "map", "group"}
  <2>1. more[ps.from] = outs[ps.from]
    BY <1>1, <1>4 DEF Reads
  <2> QED BY <1>1, <1>2, <1>4, <2>1 DEF Eval
<1>5. CASE ps.verb = "merge"
  <2>1. \A i \in DOMAIN ps.from : more[ps.from[i]] = outs[ps.from[i]]
    BY <1>1, <1>5 DEF Reads
  <2>2. merged(ps.from, more) = merged(ps.from, outs)
    BY <1>5, <2>1, Verbs, MergedIsStable
  <2>3. evalMerge(ps, more) = evalMerge(ps, outs)
    BY <2>1, <2>2 DEF evalMerge
  <2> QED BY <1>1, <1>2, <1>5, <2>3 DEF Eval
<1> QED BY <1>3, <1>4, <1>5, Verbs

-----------------------------------------------------------------------------
\* What group makes of a list.

\* The loop of group, i items in: the bucket of a key holds the items of that
\* key in their order.
Picked(key, i, k) == {p \in 1..i : key[p] = k}
Nth(key, i, k, p) == Cardinality({q \in Picked(key, i, k) : q <= p})

Grouped(out, list, key, i) ==
  /\ DOMAIN out = {key[p] : p \in 1..i}
  /\ \A k \in DOMAIN out :
       /\ ~IsMap(out[k]) /\ IsSequence(out[k].list)
       /\ Len(out[k].list) = Cardinality(Picked(key, i, k))
       /\ \A p \in Picked(key, i, k) : out[k].list[Nth(key, i, k, p)] = list[p]

\* How the items picked for a key grow with the next item.
LEMMA PickedFinite ==
  ASSUME NEW key, NEW i \in Nat, NEW k
  PROVE  IsFiniteSet(Picked(key, i, k)) /\ Cardinality(Picked(key, i, k)) \in Nat
<1>1. IsFiniteSet(1..i)
  BY FS_Interval
<1>2. Picked(key, i, k) \in SUBSET (1..i)
  BY DEF Picked
<1> QED BY <1>1, <1>2, FS_Subset, FS_CardinalityType

LEMMA PickedMine ==
  ASSUME NEW key, NEW i \in Nat
  PROVE  LET k == key[i + 1]
             P == Picked(key, i, k)
         IN  /\ Picked(key, i + 1, k) = P \union {i + 1}
             /\ Cardinality(Picked(key, i + 1, k)) = Cardinality(P) + 1
             /\ Nth(key, i + 1, k, i + 1) = Cardinality(P) + 1
<1> DEFINE k == key[i + 1]
           P == Picked(key, i, k)
           Q == Picked(key, i + 1, k)
<1>1. Q = P \union {i + 1} /\ i + 1 \notin P
  BY DEF Picked
<1>2. Cardinality(Q) = Cardinality(P) + 1
  <2>1. IsFiniteSet(P)
    BY PickedFinite
  <2> HIDE DEF P, Q
  <2> QED BY <1>1, <2>1, FS_AddElement
<1>3. {q \in Q : q <= i + 1} = Q
  BY DEF Picked
<1> QED BY <1>1, <1>2, <1>3 DEF Nth

LEMMA PickedEarlier ==
  ASSUME NEW key, NEW i \in Nat, NEW k, NEW p \in Picked(key, i, k)
  PROVE  /\ Nth(key, i, k, p) \in 1..Cardinality(Picked(key, i, k))
         /\ Nth(key, i + 1, k, p) = Nth(key, i, k, p)
<1> DEFINE P == Picked(key, i, k)
           L == {q \in P : q <= p}
<1>1. p \in 1..i
  BY DEF Picked
<1>2. {q \in Picked(key, i + 1, k) : q <= p} = L
  BY <1>1 DEF Picked
<1>3. L \in SUBSET P /\ p \in L
  BY <1>1
<1>4. Nth(key, i, k, p) = Cardinality(L) /\ Nth(key, i + 1, k, p) = Cardinality(L)
  BY <1>2 DEF Nth
<1>5. IsFiniteSet(P) /\ Cardinality(P) \in Nat
  BY PickedFinite
<1> HIDE DEF L, P
<1>6. IsFiniteSet(L) /\ Cardinality(L) \in Nat /\ Cardinality(L) <= Cardinality(P)
  BY <1>3, <1>5, FS_Subset, FS_CardinalityType
<1>7. Cardinality(L) # 0
  BY <1>3, <1>6, FS_EmptySet
<1> QED BY <1>4, <1>5, <1>6, <1>7 DEF P

LEMMA GroupedNext ==
  ASSUME NEW out, NEW list, NEW key, NEW i \in Nat, Grouped(out, list, key, i)
  PROVE  Grouped(AppendToBucket(out, key[i + 1], list[i + 1]), list, key, i + 1)
<1> DEFINE new == AppendToBucket(out, key[i + 1], list[i + 1])
           mine == key[i + 1]
<1>1. /\ DOMAIN new = DOMAIN out \union {mine}
      /\ \A k \in DOMAIN out : k # mine => new[k] = out[k]
      /\ mine \in DOMAIN out => new[mine] = List(Append(out[mine].list, list[i + 1]))
      /\ mine \notin DOMAIN out => new[mine] = List(<<list[i + 1]>>)
  BY DEF AppendToBucket
<1> HIDE DEF new
<1>2. DOMAIN new = {key[p] : p \in 1..i + 1}
  <2>1. DOMAIN out = {key[p] : p \in 1..i}
    BY DEF Grouped
  <2>2. 1..i + 1 = (1..i) \union {i + 1}
    OBVIOUS
  <2> QED BY <1>1, <2>1, <2>2
<1>3. ASSUME NEW k \in DOMAIN new
      PROVE  /\ IsSequence(new[k].list)
             /\ Len(new[k].list) = Cardinality(Picked(key, i + 1, k))
             /\ \A p \in Picked(key, i + 1, k) : new[k].list[Nth(key, i + 1, k, p)] = list[p]
  <2> DEFINE P == Picked(key, i, k)
  <2>1. CASE k # mine
    <3>1. k \in DOMAIN out /\ new[k] = out[k] /\ Picked(key, i + 1, k) = P
      BY <1>1, <2>1 DEF Picked
    <3>2. \A p \in P : Nth(key, i + 1, k, p) = Nth(key, i, k, p)
      BY PickedEarlier
    <3> HIDE DEF P
    <3> QED BY <3>1, <3>2 DEF Grouped, P
  <2>2. CASE k = mine /\ k \in DOMAIN out
    <3> DEFINE old == out[k].list
               s   == new[k].list
    <3>1. s = Append(old, list[i + 1])
      BY <1>1, <2>2, Shapes
    <3>2. /\ IsSequence(old) /\ Len(old) = Cardinality(P)
          /\ \A p \in P : old[Nth(key, i, k, p)] = list[p]
      BY <2>2 DEF Grouped
    <3> HIDE DEF old, s
    <3>3. /\ IsSequence(s) /\ Len(s) = Len(old) + 1
          /\ s[Len(s)] = list[i + 1]
          /\ \A j \in 1..Len(old) : s[j] = old[j]
      BY <3>1, <3>2, Appended
    <3>4. /\ Picked(key, i + 1, k) = P \union {i + 1}
          /\ Cardinality(Picked(key, i + 1, k)) = Cardinality(P) + 1
          /\ Nth(key, i + 1, k, i + 1) = Cardinality(P) + 1
      BY <2>2, PickedMine
    <3>5. \A p \in P : /\ Nth(key, i, k, p) \in 1..Cardinality(P)
                       /\ Nth(key, i + 1, k, p) = Nth(key, i, k, p)
      BY PickedEarlier
    <3> HIDE DEF P
    <3>6. \A p \in Picked(key, i + 1, k) : s[Nth(key, i + 1, k, p)] = list[p]
      BY <3>2, <3>3, <3>4, <3>5
    <3> QED BY <3>2, <3>3, <3>4, <3>6 DEF s
  <2>3. CASE k = mine /\ k \notin DOMAIN out
    <3> DEFINE s == new[k].list
    <3>1. s = <<list[i + 1]>>
      BY <1>1, <2>3, Shapes
    <3>2. P = {}
      BY <2>3 DEF Grouped, Picked
    <3>3. /\ Picked(key, i + 1, k) = P \union {i + 1}
          /\ Cardinality(Picked(key, i + 1, k)) = Cardinality(P) + 1
          /\ Nth(key, i + 1, k, i + 1) = Cardinality(P) + 1
      BY <2>3, PickedMine
    <3>4. Cardinality(P) = 0
      BY <3>2, FS_EmptySet
    <3>5. IsSequence(s) /\ Len(s) = 1 /\ s[1] = list[i + 1]
      <4>1. <<list[i + 1]>> \in Seq({list[i + 1]}) /\ Len(<<list[i + 1]>>) = 1 /\ <<list[i + 1]>>[1] = list[i + 1]
        OBVIOUS
      <4> QED BY <3>1, <4>1, Sequences
    <3> HIDE DEF s, P
    <3>6. Len(s) = Cardinality(Picked(key, i + 1, k))
      BY <3>3, <3>4, <3>5
    <3>7. \A p \in Picked(key, i + 1, k) : s[Nth(key, i + 1, k, p)] = list[p]
      BY <3>2, <3>3, <3>4, <3>5
    <3> QED BY <3>5, <3>6, <3>7 DEF s
  <2> QED BY <2>1, <2>2, <2>3
<1>4. ASSUME NEW k \in DOMAIN new PROVE ~IsMap(new[k])
  <2>1. CASE k # mine
    BY <1>1, <2>1 DEF Grouped
  <2>2. CASE k = mine
    BY <1>1, <2>2, Shapes
  <2> QED BY <2>1, <2>2
<1>5. Grouped(new, list, key, i + 1)
  BY <1>2, <1>3, <1>4, Zenon DEF Grouped
<1> QED BY <1>5 DEF new

LEMMA Buckets ==
  ASSUME NEW list, IsSequence(list), NEW key
  PROVE  Grouped(buckets(key, list), list, key, Len(list))
<1> DEFINE n == Len(list)
<1>1. n \in Nat
  BY Sequences
<1>2. PICK f : /\ f[0] = <<>>
               /\ \A i \in 1..n : f[i] = AppendToBucket(f[i - 1], key[i], list[i])
               /\ buckets(key, list) = f[n]
  BY <1>1, BucketsLoop
<1> DEFINE K == {i \in Nat : i <= n => Grouped(f[i], list, key, i)}
<1>3. 0 \in K
  <2>1. DOMAIN f[0] = {} /\ {key[p] : p \in 1..0} = {}
    BY <1>2
  <2> QED BY <2>1 DEF Grouped
<1>4. ASSUME NEW i \in Nat, i \in K PROVE i + 1 \in K
  <2> SUFFICES ASSUME i + 1 <= n PROVE Grouped(f[i + 1], list, key, i + 1)
    OBVIOUS
  <2>1. i + 1 \in 1..n /\ (i + 1) - 1 = i /\ Grouped(f[i], list, key, i)
    BY <1>1, <1>4
  <2>2. f[i + 1] = AppendToBucket(f[i], key[i + 1], list[i + 1])
    BY <1>2, <2>1
  <2> QED BY <2>1, <2>2, GroupedNext
<1>5. n \in K
  <2> HIDE DEF K, n
  <2> QED BY <1>1, <1>3, <1>4, SetInduction, Zenon
<1> QED BY <1>2, <1>5

-----------------------------------------------------------------------------
\* How deep the outputs are.

\* A map of Key.
LEMMA MapFits ==
  ASSUME NEW f, DOMAIN f \subseteq Key,
         NEW d \in Nat, \A k \in DOMAIN f : IsTreeOf(f[k], d)
  PROVE  Fits(Map(f), d + 1)
<1>1. Map(f).map = f /\ ~IsList(Map(f))
  BY Shapes
<1>2. IsTreeOf(Map(f), d + 1)
  <2> DEFINE t == Map(f)
  <2>1. t.map = f
    BY <1>1
  <2> HIDE DEF t
  <2>2. IsTreeOf(t, d + 1)
    BY <2>1, MapOf
  <2> QED BY <2>2 DEF t
<1> QED BY <1>1, <1>2 DEF Fits

LEMMA ListFits ==
  ASSUME NEW s, Len(s) <= Len(FileOrder), NEW d
  PROVE  Fits(List(s), d)
<1>1. ~IsMap(List(s)) /\ List(s).list = s
  BY Shapes
<1>2. IsTreeOf(List(s), d)
  BY <1>1, NoMap, Zenon
<1> QED BY <1>1, <1>2 DEF Fits

LEMMA FitsDeeper ==
  ASSUME NEW v, NEW d \in Nat, NEW e \in Nat, d <= e, Fits(v, d)
  PROVE  Fits(v, e)
  BY Deeper DEF Fits

\* The names keys are made of.
LEMMA Names ==
  /\ Base \in Nat /\ Base + MaxSteps = MaxDepth
  /\ DOMAIN FileOrder = 1..Len(FileOrder) /\ Len(FileOrder) \in Nat /\ Len(FileOrder) >= 1
  /\ \A i \in 1..Len(FileOrder) : FileOrder[i] \in Key
<1>1. Base \in Nat /\ Base + MaxSteps = MaxDepth
  BY StepsAssumption, DepthAssumption DEF Base
<1>2. IsSequence(FileOrder) /\ FileOrder # <<>> /\ Range(FileOrder) \subseteq Key
  BY FilesAssumption
<1>3. DOMAIN FileOrder = 1..Len(FileOrder) /\ Len(FileOrder) \in Nat
  BY <1>2, Sequences
<1>4. Len(FileOrder) >= 1
  BY <1>2, EmptySeq DEF IsSequence
<1>5. \A i \in 1..Len(FileOrder) : FileOrder[i] \in Key
  BY <1>2, <1>3 DEF Range
<1> QED BY <1>1, <1>3, <1>4, <1>5

\* A key a fragment renders is the name it is given, or one of FileOrder.
LEMMA RenderedKey ==
  ASSUME NEW e \in KeyExpr, NEW name \in Key, NEW value
  PROVE  IsOk(keyOf(e, name, value)) => keyOf(e, name, value).ok \in Key
<1>1. FileOrder[1] \in Key /\ FileOrder[Len(FileOrder)] \in Key
  BY Names
<1>2. keyOf(e, name, value) \in {Ok(name), Ok(FileOrder[1]), Ok(FileOrder[Len(FileOrder)]), Err("expr")}
  BY DEF KeyExpr, keyOf
<1> QED BY <1>1, <1>2, Results

\* The entries of a load `as: map`: keys of Key, values of files.
LEMMA EntriesFrom ==
  ASSUME NEW ls, NEW matches, NEW values, Len(matches) \in Nat, ls.expr \in KeyExpr,
         \A i \in 1..Len(matches) : matches[i] \in Key,
         NEW V, \A i \in 1..Len(matches) : values[i].ok \in V
  PROVE  LET r == entries(ls, matches, values)
         IN  IsOk(r) => DOMAIN r.ok \subseteq Key /\ \A k \in DOMAIN r.ok : r.ok[k] \in V
<1> DEFINE n == Len(matches)
           P(r) == IsOk(r) => DOMAIN r.ok \subseteq Key /\ \A k \in DOMAIN r.ok : r.ok[k] \in V
<1>1. PICK f : /\ f[0] = Ok(<<>>)
               /\ \A i \in 1..n : f[i] = AddEntry(f[i - 1], loadKeyOf(ls.expr, matches[i]), values[i].ok)
               /\ entries(ls, matches, values) = f[n]
  BY EntriesLoop
<1> DEFINE K == {i \in Nat : i <= n => P(f[i])}
<1>2. 0 \in K
  <2>1. DOMAIN <<>> = {} /\ f[0].ok = <<>>
    BY <1>1, Results
  <2> QED BY <2>1
<1>3. ASSUME NEW i \in Nat, i \in K PROVE i + 1 \in K
  <2> SUFFICES ASSUME i + 1 <= n PROVE P(f[i + 1])
    OBVIOUS
  <2>1. P(f[i]) /\ i + 1 \in 1..n /\ (i + 1) - 1 = i
    BY <1>3
  <2> DEFINE key == loadKeyOf(ls.expr, matches[i + 1])
             val == values[i + 1].ok
  <2>2. f[i + 1] = AddEntry(f[i], key, val)
    BY <1>1, <2>1
  <2>3. IsOk(key) => key.ok \in Key
    BY <2>1, RenderedKey, Results DEF loadKeyOf
  <2>4. val \in V
    BY <2>1
  <2> HIDE DEF key, val
  <2>5. CASE IsOk(f[i]) /\ IsOk(key) /\ key.ok \notin DOMAIN f[i].ok
    <3> DEFINE new == [k \in DOMAIN f[i].ok \union {key.ok} |-> IF k = key.ok THEN val ELSE f[i].ok[k]]
    <3>1. f[i + 1] = Ok(new)
      BY <2>2, <2>5 DEF AddEntry
    <3>2. DOMAIN new \subseteq Key /\ \A k \in DOMAIN new : new[k] \in V
      BY <2>1, <2>3, <2>4, <2>5
    <3> HIDE DEF new
    <3> QED BY <3>1, <3>2, Results
  <2>6. CASE ~(IsOk(f[i]) /\ IsOk(key) /\ key.ok \notin DOMAIN f[i].ok)
    <3>1. f[i + 1] = f[i] \/ f[i + 1] = Err("duplicate") \/ (f[i + 1] = key /\ ~IsOk(key))
      BY <2>2, <2>6 DEF AddEntry
    <3> QED BY <2>1, <3>1, Results
  <2> QED BY <2>5, <2>6
<1>4. n \in K
  <2> HIDE DEF K, n
  <2> QED BY <1>2, <1>3, SetInduction, Zenon DEF n
<1> QED BY <1>1, <1>4

LEMMA LoadFits ==
  ASSUME NEW ls, IsLoad(ls), compileLoad(ls), IsOk(evalLoad(ls))
  PROVE  Fits(evalLoad(ls).ok, Base + 1)
<1> DEFINE matches == expandGlob(ls)
           values  == [i \in DOMAIN matches |-> readDecode(ls.alias, matches[i])]
           r       == entries(ls, matches, values)
           files   == {t \in {Files[ls.alias][f] : f \in DOMAIN Files[ls.alias]} : Fits(t, Base)}
<1>1. ls.alias \in Alias
  BY DEF compileLoad
<1>2. /\ IsSequence(matches) /\ Len(matches) <= Len(FileOrder)
      /\ \A i \in DOMAIN matches : matches[i] \in DOMAIN Files[ls.alias]
  BY <1>1, Matches
<1>3. Len(matches) \in Nat /\ DOMAIN matches = 1..Len(matches)
  BY <1>2, Sequences
<1>4. evalLoad(ls) = IF ~ls.glob
                     THEN IF Len(matches) = 1 THEN values[1] ELSE Err("missing")
                     ELSE IF \E i \in DOMAIN values : ~IsOk(values[i]) THEN Err("decode")
                     ELSE IF ls.asMap THEN IF IsOk(r) THEN Ok(Map(r.ok)) ELSE r
                     ELSE Ok(List([i \in DOMAIN values |-> values[i].ok]))
  BY DEF evalLoad
<1> HIDE DEF matches
<1>5. \A i \in DOMAIN matches : matches[i] \in Key
  BY <1>1, <1>2, FilesAssumption
<1>6. \A f \in DOMAIN Files[ls.alias] : Fits(Files[ls.alias][f], Base)
  BY <1>1, FilesAssumption DEF Fits, Base
<1>7. \A i \in DOMAIN matches : IsOk(values[i]) => values[i].ok \in files
  <2> SUFFICES ASSUME NEW i \in DOMAIN matches, IsOk(values[i]) PROVE values[i].ok \in files
    OBVIOUS
  <2>1. values[i] = Err("decode") \/ values[i] = Ok(Files[ls.alias][matches[i]])
    BY DEF readDecode
  <2> HIDE DEF values
  <2>2. values[i].ok = Files[ls.alias][matches[i]]
    BY <2>1, Results
  <2> QED BY <1>2, <1>6, <2>2
<1>8. \A t \in files : Fits(t, Base)
  OBVIOUS
<1> HIDE DEF files
<1>9. CASE ~ls.glob
  <2>1. Len(matches) = 1 /\ evalLoad(ls) = values[1]
    BY <1>4, <1>9, Results
  <2>2. evalLoad(ls).ok \in files
    <3> HIDE DEF values
    <3> QED BY <1>3, <1>7, <2>1
  <2> QED BY <1>8, <2>2, FitsDeeper, Names
<1>10. CASE ls.glob
  <2>1. \A i \in DOMAIN matches : IsOk(values[i])
    <3>1. CASE \E i \in DOMAIN values : ~IsOk(values[i])
      <4>1. evalLoad(ls) = Err("decode")
        BY <1>4, <1>10, <3>1
      <4> QED BY <4>1, Results
    <3> QED BY <3>1
  <2>2. evalLoad(ls) = IF ls.asMap THEN IF IsOk(r) THEN Ok(Map(r.ok)) ELSE r
                       ELSE Ok(List([i \in DOMAIN values |-> values[i].ok]))
    <3>1. ~\E i \in DOMAIN values : ~IsOk(values[i])
      BY <2>1
    <3> HIDE DEF values, r
    <3> QED BY <1>4, <1>10, <3>1
  <2>3. DOMAIN values = DOMAIN matches
    OBVIOUS
  <2> HIDE DEF values
  <2>4. CASE ls.asMap
    <3>1. ls.expr \in KeyExpr
      BY <2>4 DEF IsLoad, compileLoad, newItemTemplate
    <3>2. IsOk(r) => DOMAIN r.ok \subseteq Key /\ \A k \in DOMAIN r.ok : r.ok[k] \in files
      BY <1>3, <1>5, <1>7, <2>1, <3>1, EntriesFrom
    <3> HIDE DEF r
    <3>3. IsOk(r) /\ evalLoad(ls) = Ok(Map(r.ok))
      BY <2>2, <2>4
    <3>4. \A k \in DOMAIN r.ok : IsTreeOf(r.ok[k], Base)
      BY <1>8, <3>2, <3>3 DEF Fits
    <3>5. Fits(Map(r.ok), Base + 1)
      BY <3>2, <3>3, <3>4, MapFits, Names
    <3> QED BY <3>3, <3>5, Results
  <2>5. CASE ~ls.asMap
    <3> DEFINE items == [i \in DOMAIN values |-> values[i].ok]
    <3>1. evalLoad(ls) = Ok(List(items))
      BY <2>2, <2>5
    <3>2. DOMAIN items = 1..Len(matches)
      BY <1>3, <2>3
    <3>3. items \in [1..Len(matches) -> Range(items)]
      BY <3>2 DEF Range
    <3> HIDE DEF items
    <3>4. Len(items) = Len(matches)
      BY <1>3, <3>3, FunctionIsSequence
    <3> QED BY <1>2, <3>1, <3>4, ListFits, Results
  <2> QED BY <2>4, <2>5
<1> QED BY <1>9, <1>10

LEMMA FilterFits ==
  ASSUME NEW ps, NEW v, ListOK(v), NEW d \in Nat, d <= MaxDepth, Fits(v, d),
         IsOk(evalFilter(ps, v))
  PROVE  Fits(evalFilter(ps, v).ok, d)
<1> DEFINE wanted == holds(ps, v)
           t      == selected(v, wanted)
<1>1. IsCollection(v) /\ evalFilter(ps, v) = Ok(t)
  BY Filtered, Results
<1>2. evalFilter(ps, v).ok = t
  BY <1>1, Results
<1> HIDE DEF wanted
<1>3. CASE IsList(v)
  <2> DEFINE list == kept(v.list, wanted)
  <2>1. t = List(list) /\ IsSequence(list) /\ Len(list) <= Len(v.list)
    BY <1>3, Selected DEF ListOK
  <2>2. Len(v.list) \in Nat /\ Len(v.list) <= Len(FileOrder)
    BY <1>3, Sequences DEF ListOK, Fits
  <2> HIDE DEF list
  <2>3. Len(list) <= Len(FileOrder)
    BY <2>1, <2>2, Names, Sequences
  <2> QED BY <1>2, <2>1, <2>3, ListFits
<1>4. CASE ~IsList(v) /\ IsMap(v)
  <2>1. PICK f : t = Map(f) /\ DOMAIN f \subseteq DOMAIN v.map /\ \A k \in DOMAIN f : f[k] = v.map[k]
    BY <1>4, Selected
  <2>2. /\ d # 0 /\ DOMAIN v.map \subseteq Key
        /\ \A k \in DOMAIN v.map : IsTreeOf(v.map[k], d - 1)
    BY <1>4, Below DEF Fits
  <2>3. d - 1 \in Nat /\ (d - 1) + 1 = d
    BY <2>2
  <2>4. Fits(Map(f), (d - 1) + 1)
    BY <2>1, <2>2, <2>3, MapFits
  <2> QED BY <1>2, <2>1, <2>3, <2>4
<1> QED BY <1>1, <1>3, <1>4 DEF IsCollection

\* The fragments of the steps that have one.
LEMMA Fragments ==
  ASSUME NEW ps \in PipelineStep, NEW seen, compileStep(ps, seen)
  PROVE  /\ ps.verb = "load" => IsLoad(ps) /\ compileLoad(ps)
         /\ ps.verb = "map" => ps.expr \in Expr
         /\ ps.verb = "group" => ps.expr \in KeyExpr
<1>1. ps.verb = "load" => IsLoad(ps) /\ compileLoad(ps)
  BY Verbs DEF compileStep
<1>2. /\ ps.verb = "map" => ps.expr \in Expr \union {"none", "unparsable"}
      /\ ps.verb = "group" => ps.expr \in KeyExpr \union {"none", "unparsable"}
  <2>1. CASE ps \in Loads \union Merges
    BY <2>1 DEF Loads, Merges
  <2>2. CASE ps \in Iterations
    BY <2>2 DEF Iterations
  <2>3. CASE ps \in Setters
    BY <2>3, Effects DEF Expr, KeyExpr
  <2> QED BY <2>1, <2>2, <2>3 DEF PipelineStep
<1>3. ps.verb \in {"map", "group"} => newItemTemplate(ps.expr)
  BY DEF compileStep, compileIteration
<1> QED BY <1>1, <1>2, <1>3 DEF newItemTemplate

\* What a map step renders of an item, wrapped or as it is.
LEMMA RenderedFits ==
  ASSUME NEW e \in Expr, NEW v, NEW d \in Nat, IsTreeOf(v, d), IsOk(renderItem(e, v))
  PROVE  IsTreeOf(renderItem(e, v).ok, d + 1)
<1> DEFINE wrap == [k \in {FileOrder[1]} |-> v]
<1>1. renderItem(e, v) \in {Ok(v), Ok(Map(wrap)), Err("expr")}
  BY DEF Expr, renderItem
<1>2. DOMAIN wrap \subseteq Key /\ \A k \in DOMAIN wrap : wrap[k] = v
  BY Names
<1> HIDE DEF wrap
<1>3. IsTreeOf(Map(wrap), d + 1)
  BY <1>2, MapFits DEF Fits
<1>4. IsTreeOf(v, d + 1)
  BY Deeper
<1> QED BY <1>1, <1>3, <1>4, Results

LEMMA MappedFits ==
  ASSUME NEW ps, ps.expr \in Expr,
         NEW v, ListOK(v), NEW d \in Nat, d <= MaxDepth, Fits(v, d),
         IsOk(evalMap(ps, v))
  PROVE  Fits(evalMap(ps, v).ok, d + 1)
<1> DEFINE new   == [i \in DOMAIN Items(v) |-> renderItem(ps.expr, Items(v)[i])]
           items == [i \in DOMAIN new |-> new[i].ok]
<1>1. \/ evalMap(ps, v) \in {Err("shape"), Err("expr")}
      \/ /\ \A i \in DOMAIN new : IsOk(new[i])
         /\ IsList(v) /\ evalMap(ps, v) = Ok(List(items))
      \/ /\ \A i \in DOMAIN new : IsOk(new[i])
         /\ IsMap(v) /\ ~IsList(v) /\ evalMap(ps, v) = Ok(Map(items))
  BY DEF evalMap, IsCollection
<1>2. CASE IsList(v) /\ evalMap(ps, v) = Ok(List(items))
  <2>1. /\ Len(v.list) \in Nat /\ DOMAIN v.list = 1..Len(v.list)
        /\ Len(v.list) <= Len(FileOrder)
    BY <1>2, Sequences DEF ListOK, Fits
  <2>2. DOMAIN items = 1..Len(v.list)
    BY <1>2, <2>1 DEF Items
  <2>3. items \in [1..Len(v.list) -> Range(items)]
    <3> HIDE DEF new
    <3> QED BY <2>2 DEF Range
  <2> HIDE DEF items
  <2>4. Len(items) = Len(v.list)
    BY <2>1, <2>3, FunctionIsSequence
  <2> QED BY <1>2, <2>1, <2>4, ListFits, Results
<1>3. CASE /\ \A i \in DOMAIN new : IsOk(new[i])
           /\ IsMap(v) /\ ~IsList(v) /\ evalMap(ps, v) = Ok(Map(items))
  <2>1. /\ d # 0 /\ DOMAIN v.map \subseteq Key
        /\ \A k \in DOMAIN v.map : IsTreeOf(v.map[k], d - 1)
    BY <1>3, Below DEF Fits
  <2>2. DOMAIN items = DOMAIN v.map
    BY <1>3 DEF Items
  <2>3. ASSUME NEW k \in DOMAIN v.map PROVE IsTreeOf(items[k], d)
    <3>1. items[k] = renderItem(ps.expr, v.map[k]).ok /\ IsOk(renderItem(ps.expr, v.map[k]))
      BY <1>3 DEF Items
    <3>2. d - 1 \in Nat /\ (d - 1) + 1 = d
      BY <2>1
    <3>3. IsTreeOf(renderItem(ps.expr, v.map[k]).ok, (d - 1) + 1)
      BY <2>1, <3>1, <3>2, RenderedFits
    <3> HIDE DEF items
    <3> QED BY <3>1, <3>2, <3>3
  <2> HIDE DEF items
  <2>4. Fits(Map(items), d + 1)
    BY <2>1, <2>2, <2>3, MapFits
  <2> QED BY <1>3, <2>4, Results
<1>4. CASE evalMap(ps, v) \in {Err("shape"), Err("expr")}
  BY <1>4, Results
<1> HIDE DEF new, items
<1> QED BY <1>1, <1>2, <1>3, <1>4

LEMMA GroupedFits ==
  ASSUME NEW ps, ps.expr \in KeyExpr,
         NEW v, ListOK(v), NEW d, Fits(v, d), IsOk(evalGroup(ps, v))
  PROVE  Fits(evalGroup(ps, v).ok, 1)
<1> DEFINE n   == Len(v.list)
           key == groupKeys(ps, v.list)
           out == buckets(key, v.list)
<1>1. /\ IsList(v) /\ \A i \in DOMAIN v.list : IsOk(groupKey(ps, v.list, i))
      /\ evalGroup(ps, v) = Ok(Map(out))
  <2>1. \/ evalGroup(ps, v) \in {Err("shape"), Err("expr")}
        \/ /\ IsList(v) /\ \A i \in DOMAIN v.list : IsOk(groupKey(ps, v.list, i))
           /\ evalGroup(ps, v) = Ok(Map(out))
    BY DEF evalGroup
  <2> HIDE DEF out
  <2> QED BY <2>1, Results
<1>2. IsSequence(v.list) /\ n \in Nat /\ DOMAIN v.list = 1..n /\ n <= Len(FileOrder)
  BY <1>1, Sequences DEF ListOK, Fits
<1>3. Grouped(out, v.list, key, n)
  BY <1>2, Buckets
<1>4. ASSUME NEW p \in 1..n PROVE key[p] \in Key
  <2>1. FileOrder[p] \in Key
    BY <1>2, Names
  <2>2. IsOk(groupKey(ps, v.list, p))
    BY <1>1, <1>2
  <2>3. groupKey(ps, v.list, p).ok \in Key
    BY <2>1, <2>2, RenderedKey DEF groupKey
  <2> QED BY <1>2, <2>3 DEF groupKeys
<1> HIDE DEF out, key
<1>5. DOMAIN out \subseteq Key /\ \A k \in DOMAIN out : ~IsMap(out[k])
  BY <1>3, <1>4 DEF Grouped
<1>6. Fits(Map(out), 0 + 1)
  BY <1>5, MapFits, NoMap
<1> QED BY <1>1, <1>6, Results

\* What a merge step publishes: as deep as the deepest source, and at every
\* path what the last source with something to say about it says.
LEMMA MergedFits ==
  ASSUME NEW from, NEW outs, Len(from) \in Nat, DOMAIN from = 1..Len(from),
         NEW d \in Nat, d # 0, d <= MaxDepth,
         \A i \in 1..Len(from) : IsTreeOf(outs[from[i]], d)
  PROVE  /\ IsTreeOf(merged(from, outs), d)
         /\ IsMergeOf(merged(from, outs), [j \in DOMAIN from |-> outs[from[j]]])
<1> DEFINE n == Len(from)
           first(i) == [j \in 1..i |-> outs[from[j]]]
<1>1. PICK f : /\ f[0] = Empty
               /\ \A i \in 1..n : f[i] = deepMerge(f[i - 1], outs[from[i]])
               /\ merged(from, outs) = f[n]
  BY MergedLoop
<1>2. \A t : IsTreeOf(t, d) => IsTree(t)
  BY Deeper, DepthAssumption DEF IsTree
<1> DEFINE K == {i \in Nat : i <= n => IsTreeOf(f[i], d) /\ IsMergeOf(f[i], first(i))}
<1>3. 0 \in K
  <2>1. first(0) = <<>>
    OBVIOUS
  <2> QED BY <1>1, <2>1, MergeOfNone
<1>4. ASSUME NEW i \in Nat, i \in K PROVE i + 1 \in K
  <2> SUFFICES ASSUME i + 1 <= n PROVE IsTreeOf(f[i + 1], d) /\ IsMergeOf(f[i + 1], first(i + 1))
    OBVIOUS
  <2>1. i + 1 \in 1..n /\ (i + 1) - 1 = i /\ IsTreeOf(f[i], d) /\ IsMergeOf(f[i], first(i))
    BY <1>4
  <2> DEFINE b == outs[from[i + 1]]
  <2>2. f[i + 1] = deepMerge(f[i], b) /\ IsTreeOf(b, d)
    BY <1>1, <2>1
  <2>3. IsTree(f[i]) /\ IsTree(b)
    BY <1>2, <2>1, <2>2
  <2>4. IsTreeOf(f[i + 1], d)
    BY <2>1, <2>2, <2>3, MergeKeepsDepth
  <2>5. /\ Len(first(i)) = i /\ Len(first(i + 1)) = i + 1
        /\ first(i + 1)[i + 1] = b
        /\ \A j \in 1..i : first(i + 1)[j] = first(i)[j]
    OBVIOUS
  <2> HIDE DEF first, b
  <2>6. IsMergeOf(f[i + 1], first(i + 1))
    BY <2>1, <2>2, <2>3, <2>5, MergeOfOneMore
  <2> QED BY <2>4, <2>6
<1>5. n \in K
  <2> HIDE DEF K, n
  <2> QED BY <1>3, <1>4, SetInduction, Zenon DEF n
<1>6. first(n) = [j \in DOMAIN from |-> outs[from[j]]]
  OBVIOUS
<1> QED BY <1>1, <1>5, <1>6

\* One step makes what it reads at most one deeper.
LEMMA EvalFits ==
  ASSUME NEW ps \in PipelineStep, NEW seen, compileStep(ps, seen),
         NEW outs, \A n \in DOMAIN outs : ListOK(outs[n]), IsOk(Eval(ps, outs)),
         NEW d \in Nat, Base <= d, d + 1 <= MaxDepth,
         \A n \in Reads(ps) : Fits(outs[n], d)
  PROVE  Fits(Eval(ps, outs).ok, d + 1)
<1>1. \A n \in Reads(ps) : n \in DOMAIN outs
  <2>1. CASE \E n \in Reads(ps) : n \notin DOMAIN outs
    <3>1. Eval(ps, outs) = Err("undefined")
      BY <2>1 DEF Eval
    <3> QED BY <3>1, Results
  <2> QED BY <2>1
<1>2. d \in Nat /\ d + 1 \in Nat /\ d <= MaxDepth /\ d <= d + 1 /\ 1 <= d + 1 /\ Base + 1 \in Nat /\ Base + 1 <= d + 1
  BY Names, DepthAssumption
<1>3. CASE ps.verb = "load"
  <2>1. IsLoad(ps) /\ compileLoad(ps)
    BY <1>3, Fragments
  <2>2. Eval(ps, outs) = evalLoad(ps)
    BY <1>1, <1>3 DEF Eval
  <2>3. Fits(evalLoad(ps).ok, Base + 1)
    BY <2>1, <2>2, LoadFits
  <2> QED BY <1>2, <2>2, <2>3, FitsDeeper
<1>4. CASE ps.verb \in {"filter", "map", "group"}
  <2> DEFINE v == outs[ps.from]
  <2>1. Fits(v, d) /\ ListOK(v)
    BY <1>1, <1>4 DEF Reads
  <2>2. /\ ps.verb = "filter" => Eval(ps, outs) = evalFilter(ps, v)
        /\ ps.verb = "map" => Eval(ps, outs) = evalMap(ps, v)
        /\ ps.verb = "group" => Eval(ps, outs) = evalGroup(ps, v)
    BY <1>1, <1>4 DEF Eval
  <2> HIDE DEF v
  <2>3. CASE ps.verb = "filter"
    <3>1. Fits(Eval(ps, outs).ok, d)
      BY <1>2, <2>1, <2>2, <2>3, FilterFits
    <3> QED BY <1>2, <3>1, FitsDeeper
  <2>4. CASE ps.verb = "map"
    BY <1>2, <2>1, <2>2, <2>4, Fragments, MappedFits
  <2>5. CASE ps.verb = "group"
    <3>1. Fits(Eval(ps, outs).ok, 1)
      BY <2>1, <2>2, <2>5, Fragments, GroupedFits
    <3> QED BY <1>2, <3>1, FitsDeeper
  <2> QED BY <1>4, <2>3, <2>4, <2>5
<1>5. CASE ps.verb = "merge"
  <2>1. Len(ps.from) \in Nat /\ DOMAIN ps.from = 1..Len(ps.from)
    BY <1>5, Verbs
  <2>2. \A i \in 1..Len(ps.from) : IsTreeOf(outs[ps.from[i]], d + 1)
    <3>1. \A i \in 1..Len(ps.from) : ps.from[i] \in Reads(ps)
      BY <1>5, <2>1 DEF Reads
    <3> QED BY <1>2, <3>1, Deeper DEF Fits
  <2>3. IsTreeOf(merged(ps.from, outs), d + 1)
    <3> DEFINE e == d + 1
    <3>1. e \in Nat /\ e # 0 /\ e <= MaxDepth
      BY <1>2
    <3> HIDE DEF e
    <3>2. \A i \in 1..Len(ps.from) : IsTreeOf(outs[ps.from[i]], e)
      BY <2>2 DEF e
    <3>3. IsTreeOf(merged(ps.from, outs), e)
      BY <2>1, <3>1, <3>2, MergedFits
    <3> QED BY <3>3 DEF e
  <2>4. /\ \A i \in 1..Len(ps.from) : IsMap(outs[ps.from[i]])
        /\ Eval(ps, outs) = Ok(merged(ps.from, outs))
    <3>1. Eval(ps, outs) = evalMerge(ps, outs)
      BY <1>1, <1>5 DEF Eval
    <3>2. CASE \E i \in DOMAIN ps.from : ~IsMap(outs[ps.from[i]])
      <4>1. Eval(ps, outs) = Err("shape")
        BY <3>1, <3>2 DEF evalMerge
      <4> QED BY <4>1, Results
    <3>3. CASE ~\E i \in DOMAIN ps.from : ~IsMap(outs[ps.from[i]])
      BY <2>1, <3>1, <3>3 DEF evalMerge
    <3> QED BY <3>2, <3>3
  <2>5. \E g : merged(ps.from, outs) = Map(g)
    BY <2>1, <2>4, MergedIsMap
  <2>6. ~IsList(merged(ps.from, outs))
    BY <2>5, Shapes
  <2> QED BY <2>3, <2>4, <2>6, Results DEF Fits
<1> QED BY <1>3, <1>4, <1>5, Verbs

-----------------------------------------------------------------------------
\* What the fragments of a step set.

\* Only a fragment that is rendered for items sets keys of items.
LEMMA Setting ==
  ASSUME NEW ps \in PipelineStep, ps.sets = "item"
  PROVE  ps.verb \notin {"load", "merge"}
<1>1. "item" \notin StepName
  BY NamesAssumption
<1>2. CASE ps \in Loads \union Iterations \union Merges
  BY <1>2 DEF Loads, Iterations, Merges
<1>3. CASE ps \in Setters
  BY <1>1, <1>3, Effects
<1> QED BY <1>2, <1>3 DEF PipelineStep

\* Setting a key nests nothing deeper and keeps lists lists and maps maps.
LEMMA SetFits ==
  ASSUME NEW v, IsMap(v), NEW d \in Nat, d <= MaxDepth, IsTreeOf(v, d)
  PROVE  IsTreeOf(set(v), d)
<1> DEFINE f == [k \in DOMAIN v.map \union {FileOrder[1]} |->
                   IF k = FileOrder[1] THEN Leaf("set") ELSE v.map[k]]
<1>1. d # 0 /\ DOMAIN v.map \subseteq Key /\ \A k \in DOMAIN v.map : IsTreeOf(v.map[k], d - 1)
  BY Below
<1>2. FileOrder[1] \in Key
  BY Names
<1>3. ~IsMap(Leaf("set"))
  BY DEF IsMap, Leaf
<1>4. /\ DOMAIN f \subseteq Key
      /\ \A k \in DOMAIN f : IsTreeOf(f[k], d - 1)
  BY <1>1, <1>2, <1>3, NoMap
<1>5. set(v) = Map(f)
  BY DEF set
<1> HIDE DEF f
<1>6. d - 1 \in Nat /\ (d - 1) + 1 = d
  BY <1>1
<1>7. Fits(Map(f), (d - 1) + 1)
  BY <1>4, <1>6, MapFits
<1> QED BY <1>5, <1>6, <1>7 DEF Fits

LEMMA ItemFits ==
  ASSUME NEW v, NEW o, NEW objs, NEW d \in Nat, d <= MaxDepth, IsTreeOf(v, d)
  PROVE  IsTreeOf(bucketAfter(v, o, objs), d)
<1>1. IsTreeOf(itemAfter(v, o, objs), d)
  BY SetFits DEF itemAfter
<1>2. \A s : IsTreeOf(List(s), d)
  BY Shapes, NoMap
<1> QED BY <1>1, <1>2, Zenon DEF bucketAfter

LEMMA OutputAfter ==
  ASSUME NEW v, ListOK(v), NEW o, NEW objs
  PROVE  LET w == outputAfter(v, o, objs)
         IN  /\ ListOK(w)
             /\ IsList(w) <=> IsList(v)
             /\ IsMap(w) <=> IsMap(v)
             /\ \A d \in Nat : d <= MaxDepth /\ Fits(v, d) => Fits(w, d)
<1> DEFINE w     == outputAfter(v, o, objs)
           items == [i \in DOMAIN Items(v) |-> bucketAfter(Items(v)[i], Items(o)[i], objs)]
           Alike(x) == /\ ListOK(x)
                       /\ IsList(x) <=> IsList(v)
                       /\ IsMap(x) <=> IsMap(v)
                       /\ \A d \in Nat : d <= MaxDepth /\ Fits(v, d) => Fits(x, d)
<1>1. \/ w = v
      \/ IsList(v) /\ w = List(items)
      \/ ~IsList(v) /\ IsMap(v) /\ w = Map(items)
  BY DEF outputAfter, IsCollection
<1>2. ASSUME w = v PROVE Alike(w)
  BY <1>2
<1>3. ASSUME IsList(v), w = List(items) PROVE Alike(w)
  <2>1. Len(v.list) \in Nat /\ DOMAIN v.list = 1..Len(v.list) /\ ~IsMap(v)
    BY <1>3, Sequences DEF ListOK
  <2>2. DOMAIN items = 1..Len(v.list)
    BY <1>3, <2>1 DEF Items
  <2>3. items \in [1..Len(v.list) -> Range(items)]
    <3>1. items = [i \in DOMAIN items |-> items[i]]
      OBVIOUS
    <3> HIDE DEF items
    <3> QED BY <2>2, <3>1 DEF Range
  <2> HIDE DEF items
  <2>4. IsSequence(items) /\ Len(items) = Len(v.list)
    BY <2>1, <2>3, FunctionIsSequence
  <2>5. ListOK(List(items)) /\ IsList(List(items)) /\ ~IsMap(List(items))
    BY <2>4, Shapes DEF ListOK
  <2>6. ASSUME NEW d, Fits(v, d) PROVE Fits(List(items), d)
    BY <1>3, <2>4, <2>6, ListFits DEF Fits
  <2> QED BY <1>3, <2>1, <2>5, <2>6
<1>4. ASSUME ~IsList(v), IsMap(v), w = Map(items) PROVE Alike(w)
  <2>1. DOMAIN items = DOMAIN v.map
    BY <1>4 DEF Items
  <2>2. ASSUME NEW d \in Nat, d <= MaxDepth, Fits(v, d) PROVE Fits(Map(items), d)
    <3>1. d # 0 /\ DOMAIN v.map \subseteq Key /\ \A k \in DOMAIN v.map : IsTreeOf(v.map[k], d - 1)
      BY <1>4, <2>2, Below DEF Fits
    <3>2. d - 1 \in Nat /\ d - 1 <= MaxDepth /\ (d - 1) + 1 = d
      BY <2>2, <3>1, DepthAssumption
    <3>3. ASSUME NEW k \in DOMAIN v.map PROVE IsTreeOf(items[k], d - 1)
      <4>1. items[k] = bucketAfter(v.map[k], Items(o)[k], objs)
        BY <1>4 DEF Items
      <4> HIDE DEF items
      <4> QED BY <3>1, <3>2, <4>1, ItemFits
    <3> HIDE DEF items
    <3>4. Fits(Map(items), (d - 1) + 1)
      BY <2>1, <3>1, <3>2, <3>3, MapFits
    <3> QED BY <3>2, <3>4
  <2> HIDE DEF items
  <2>3. ListOK(Map(items)) /\ ~IsList(Map(items)) /\ IsMap(Map(items))
    BY Shapes DEF ListOK
  <2> QED BY <1>4, <2>2, <2>3
<1>5. Alike(w)
  <2> HIDE DEF w, items, Alike
  <2> QED BY <1>1, <1>2, <1>3, <1>4
<1> QED BY <1>5

\* The outputs in scope once the fragments of a step have been rendered: the
\* same names, of the same shapes, as deep as before.
LEMMA AfterFits ==
  ASSUME NEW ps, \A n \in DOMAIN outputs : ListOK(outputs[n]), Sets(ps) => CanSet(ps)
  PROVE  LET outs == OutputsAfter(ps)
         IN  /\ DOMAIN outs = DOMAIN outputs
             /\ \A n \in DOMAIN outputs :
                  /\ ListOK(outs[n])
                  /\ IsList(outs[n]) <=> IsList(outputs[n])
                  /\ IsMap(outs[n]) <=> IsMap(outputs[n])
                  /\ \A d \in Nat : d <= MaxDepth /\ Fits(outputs[n], d) => Fits(outs[n], d)
<1> DEFINE outs == OutputsAfter(ps)
           OK(n) == /\ ListOK(outs[n])
                    /\ IsList(outs[n]) <=> IsList(outputs[n])
                    /\ IsMap(outs[n]) <=> IsMap(outputs[n])
                    /\ \A d \in Nat : d <= MaxDepth /\ Fits(outputs[n], d) => Fits(outs[n], d)
<1>1. DOMAIN outs = DOMAIN outputs
  BY DEF OutputsAfter
<1>2. ASSUME NEW n \in DOMAIN outputs PROVE OK(n)
  <2>1. CASE outs[n] = outputs[n]
    <3> HIDE DEF outs
    <3> QED BY <2>1
  <2>2. CASE Sets(ps) /\ ps.sets = "item"
    <3>1. outs[n] = outputAfter(outputs[n], objects[n], ObjectsIn(objects[ps.from]))
      BY <2>2 DEF OutputsAfter
    <3> HIDE DEF outs
    <3> QED BY <3>1, OutputAfter
  <2>3. CASE Sets(ps) /\ ps.sets # "item" /\ n = ps.sets
    <3>1. outs[n] = set(outputs[n]) /\ IsMap(outputs[n])
      BY <2>3 DEF OutputsAfter, CanSet
    <3>2. IsMap(set(outputs[n])) /\ ~IsList(set(outputs[n]))
      BY Shapes DEF set
    <3>3. ~IsList(outputs[n])
      BY <3>1 DEF ListOK
    <3>4. ASSUME NEW d \in Nat, d <= MaxDepth, Fits(outputs[n], d) PROVE Fits(set(outputs[n]), d)
      BY <3>1, <3>2, <3>4, SetFits DEF Fits
    <3> HIDE DEF outs
    <3> QED BY <3>1, <3>2, <3>3, <3>4 DEF ListOK
  <2>4. ~Sets(ps) \/ (ps.sets # "item" /\ n # ps.sets) => outs[n] = outputs[n]
    BY DEF OutputsAfter
  <2> QED BY <2>1, <2>2, <2>3, <2>4
<1> HIDE DEF outs
<1> QED BY <1>1, <1>2 DEF outs

\* A step that evaluates reads what is in scope, and its fragments set what
\* they can.
LEMMA Evaluates ==
  ASSUME NEW ps, IsOk(Result(ps))
  PROVE  /\ Reads(ps) \subseteq DOMAIN outputs
         /\ Sets(ps) => CanSet(ps)
         /\ Result(ps) = Eval(ps, OutputsAfter(ps))
<1>1. CASE \E n \in Reads(ps) : n \notin DOMAIN outputs
  <2>1. Result(ps) = Err("undefined")
    BY <1>1 DEF Result
  <2> QED BY <2>1, Results
<1>2. CASE Reads(ps) \subseteq DOMAIN outputs /\ Sets(ps) /\ ~CanSet(ps)
  <2>1. Result(ps) = Err("expr")
    BY <1>2 DEF Result
  <2> QED BY <2>1, Results
<1>3. CASE Reads(ps) \subseteq DOMAIN outputs /\ ~(Sets(ps) /\ ~CanSet(ps))
  BY <1>3 DEF Result
<1> QED BY <1>1, <1>2, <1>3

\* Or it fails with one of the errors of the verbs.
LEMMA ResultIsSound ==
  ASSUME NEW ps \in PipelineStep, ps.verb = "load" => compileLoad(ps),
         \A n \in DOMAIN outputs : ListOK(outputs[n])
  PROVE  Sound(Result(ps))
<1>1. CASE \E n \in Reads(ps) : n \notin DOMAIN outputs
  BY <1>1, SoundResults DEF Result, Kinds
<1>2. CASE Reads(ps) \subseteq DOMAIN outputs /\ Sets(ps) /\ ~CanSet(ps)
  BY <1>2, SoundResults DEF Result, Kinds
<1>3. CASE Reads(ps) \subseteq DOMAIN outputs /\ ~(Sets(ps) /\ ~CanSet(ps))
  <2>1. Result(ps) = Eval(ps, OutputsAfter(ps))
    BY <1>3 DEF Result
  <2>2. \A n \in DOMAIN OutputsAfter(ps) : ListOK(OutputsAfter(ps)[n])
    BY <1>3, AfterFits
  <2> QED BY <2>1, <2>2, EvalIsSound
<1> QED BY <1>1, <1>2, <1>3

-----------------------------------------------------------------------------
\* The objects of the outputs.

\* Fewer items, no other objects.
LEMMA FewerObjects ==
  ASSUME NEW o, NEW p, IsCollection(p), IsCollection(o) => Range(Items(o)) \subseteq Range(Items(p))
  PROVE  ObjectsIn(o) \subseteq ObjectsIn(p)
<1> DEFINE In(i) == {x \in i \union UNION {Range(b.list) : b \in {c \in i : IsList(c)}} : IsObject(x)}
           io == IF IsCollection(o) THEN Range(Items(o)) ELSE {}
           ip == Range(Items(p))
<1>1. ObjectsIn(o) = In(io) /\ ObjectsIn(p) = In(ip) /\ io \subseteq ip
  BY DEF ObjectsIn
<1> HIDE DEF io, ip
<1>2. In(io) \subseteq In(ip)
  BY <1>1
<1> QED BY <1>1, <1>2

LEMMA FreshObjects ==
  ASSUME NEW name, NEW v, NEW o \in ObjectsIn(Fresh(name, v))
  PROVE  o.object[1] = name
<1> DEFINE f == Fresh(name, v)
           items == IF IsCollection(f) THEN Range(Items(f)) ELSE {}
<1>1. \A x \in items : \E at : x = Object(name, at)
  <2>1. CASE IsList(v)
    <3> DEFINE s == [i \in DOMAIN v.list |-> Object(name, i)]
    <3>1. f = List(s)
      BY <2>1 DEF Fresh
    <3>2. Items(List(s)) = s
      BY Shapes DEF Items
    <3>3. \A x \in Range(s) : \E at : x = Object(name, at)
      BY DEF Range
    <3> HIDE DEF s, f
    <3> QED BY <3>1, <3>2, <3>3
  <2>2. CASE ~IsList(v) /\ IsMap(v)
    <3> DEFINE s == [i \in DOMAIN v.map |-> Object(name, i)]
    <3>1. f = Map(s)
      BY <2>2 DEF Fresh
    <3>2. Items(Map(s)) = s
      BY Shapes DEF Items
    <3>3. \A x \in Range(s) : \E at : x = Object(name, at)
      BY DEF Range
    <3> HIDE DEF s, f
    <3> QED BY <3>1, <3>2, <3>3
  <2>3. CASE ~IsList(v) /\ ~IsMap(v)
    <3>1. ~IsCollection(f)
      BY <2>3 DEF Fresh, IsCollection, IsList, IsMap, Null
    <3> QED BY <3>1
  <2> QED BY <2>1, <2>2, <2>3
<1>2. \A at : ~IsList(Object(name, at)) /\ Object(name, at).object[1] = name
  BY DEF IsList, Object
<1>3. ObjectsIn(f) = {x \in items \union UNION {Range(b.list) : b \in {c \in items : IsList(c)}} : IsObject(x)}
  BY DEF ObjectsIn
<1> HIDE DEF items, f
<1>4. {c \in items : IsList(c)} = {}
  BY <1>1, <1>2
<1>5. o \in items
  BY <1>3, <1>4 DEF f
<1> QED BY <1>1, <1>2, <1>5

\* The buckets of a group are lists of items of its input.
LEMMA BucketsHold ==
  ASSUME NEW list, IsSequence(list), NEW key
  PROVE  \A k \in DOMAIN buckets(key, list) :
           \E s : /\ buckets(key, list)[k] = List(s)
                  /\ IsSequence(s) /\ Range(s) \subseteq Range(list)
<1> DEFINE n == Len(list)
           Held(s) == IsSequence(s) /\ Range(s) \subseteq Range(list)
           P(x) == \A k \in DOMAIN x : \E s : x[k] = List(s) /\ Held(s)
<1>1. n \in Nat /\ DOMAIN list = 1..n
  BY Sequences
<1>2. PICK f : /\ f[0] = <<>>
               /\ \A i \in 1..n : f[i] = AppendToBucket(f[i - 1], key[i], list[i])
               /\ buckets(key, list) = f[n]
  BY <1>1, BucketsLoop
<1> DEFINE K == {i \in Nat : i <= n => P(f[i])}
<1>3. 0 \in K
  <2>1. DOMAIN f[0] = {}
    BY <1>2
  <2> QED BY <2>1
<1>4. ASSUME NEW i \in Nat, i \in K PROVE i + 1 \in K
  <2> SUFFICES ASSUME i + 1 <= n PROVE P(f[i + 1])
    OBVIOUS
  <2>1. i + 1 \in 1..n /\ (i + 1) - 1 = i /\ P(f[i])
    BY <1>1, <1>4
  <2> DEFINE x == f[i]
             item == list[i + 1]
             new == AppendToBucket(x, key[i + 1], item)
  <2>2. f[i + 1] = new /\ item \in Range(list)
    BY <1>1, <1>2, <2>1 DEF Range
  <2>3. /\ DOMAIN new = DOMAIN x \union {key[i + 1]}
        /\ \A k \in DOMAIN x : k # key[i + 1] => new[k] = x[k]
        /\ key[i + 1] \in DOMAIN x => new[key[i + 1]] = List(Append(x[key[i + 1]].list, item))
        /\ key[i + 1] \notin DOMAIN x => new[key[i + 1]] = List(<<item>>)
    BY DEF AppendToBucket
  <2>4. Held(<<item>>)
    <3>1. <<item>> \in Seq({item}) /\ Range(<<item>>) = {item}
      BY DEF Range
    <3> QED BY <2>2, <3>1, Sequences
  <2>5. ASSUME NEW s, Held(s) PROVE Held(Append(s, item))
    <3> DEFINE t == Append(s, item)
    <3>1. /\ IsSequence(t) /\ Len(t) = Len(s) + 1
          /\ t[Len(t)] = item
          /\ \A j \in 1..Len(s) : t[j] = s[j]
      BY <2>5, Appended
    <3>2. DOMAIN t = 1..Len(s) + 1 /\ DOMAIN s = 1..Len(s) /\ Len(s) \in Nat
      BY <2>5, <3>1, Sequences
    <3> HIDE DEF t
    <3>3. Range(t) \subseteq Range(s) \union {item}
      BY <3>1, <3>2 DEF Range
    <3> HIDE DEF item
    <3> QED BY <2>2, <2>5, <3>1, <3>3 DEF t
  <2> HIDE DEF item, new, Held
  <2>6. ASSUME NEW k \in DOMAIN new PROVE \E s : new[k] = List(s) /\ Held(s)
    <3>1. CASE k \in DOMAIN x /\ k # key[i + 1]
      BY <2>1, <2>3, <3>1
    <3>2. CASE k = key[i + 1] /\ k \in DOMAIN x
      <4>1. PICK s : x[k] = List(s) /\ Held(s)
        BY <2>1, <3>2
      <4>2. new[k] = List(Append(s, item))
        BY <2>3, <3>2, <4>1, Shapes
      <4> QED BY <2>5, <4>1, <4>2
    <3>3. CASE k = key[i + 1] /\ k \notin DOMAIN x
      BY <2>3, <2>4, <3>3
    <3> QED BY <2>3, <3>1, <3>2, <3>3
  <2> QED BY <2>2, <2>6
<1>5. n \in K
  <2> HIDE DEF K, n
  <2> QED BY <1>1, <1>3, <1>4, SetInduction, Zenon
<1> HIDE DEF Held
<1>6. P(buckets(key, list))
  BY <1>1, <1>2, <1>5
<1> QED BY <1>6 DEF Held

LEMMA GroupedObjects ==
  ASSUME NEW o, IsList(o), IsSequence(o.list), NEW key
  PROVE  ObjectsIn(Map(buckets(key, o.list))) \subseteq ObjectsIn(o)
<1> DEFINE out == buckets(key, o.list)
           all == Range(o.list)
<1>1. \A b \in Range(out) : IsList(b) /\ ~IsObject(b) /\ Range(b.list) \subseteq all
  <2>1. \A k \in DOMAIN out : \E s : out[k] = List(s) /\ Range(s) \subseteq all
    BY BucketsHold
  <2>2. \A s : IsList(List(s)) /\ ~IsObject(List(s)) /\ List(s).list = s
    BY Shapes DEF IsObject, List
  <2> HIDE DEF out
  <2> QED BY <2>1, <2>2 DEF Range
<1>2. Items(Map(out)) = out /\ IsCollection(Map(out)) /\ Items(o) = o.list /\ IsCollection(o)
  BY Shapes DEF Items, IsCollection
<1> HIDE DEF out
<1>3. ObjectsIn(Map(out)) = {x \in Range(out) \union UNION {Range(b.list) : b \in {c \in Range(out) : IsList(c)}} : IsObject(x)}
  BY <1>2, Zenon DEF ObjectsIn
<1>4. {x \in all : IsObject(x)} \subseteq ObjectsIn(o)
  BY <1>2 DEF ObjectsIn
<1> HIDE DEF all
<1>5. ASSUME NEW x \in ObjectsIn(Map(out)) PROVE x \in {y \in all : IsObject(y)}
  BY <1>1, <1>3
<1> QED BY <1>4, <1>5 DEF out

-----------------------------------------------------------------------------
\* Compile and Run keep the steps in order.

\* compileStep accepts a step only when everything it reads has been seen.
LEMMA CompiledReadsSeen ==
  ASSUME NEW ps, NEW S, compileStep(ps, S)
  PROVE  Reads(ps) \subseteq S
<1>1. CASE ps.verb = "load"
  BY <1>1 DEF Reads
<1>2. CASE ps.verb = "merge"
  BY <1>2 DEF Reads, compileStep, compileMerge
<1>3. CASE ps.verb \notin {"load", "merge"}
  BY <1>3 DEF Reads, compileStep, compileIteration
<1> QED
  BY <1>1, <1>2, <1>3

\* Nothing is compiled, nothing is in scope.
LEMMA InitPipeline == Init => InOrder
  BY DEF Init, InOrder

\* Compiling a step keeps names distinct and reads earlier.
LEMMA CompilePipeline ==
  ASSUME InOrder, NEW ps \in PipelineStep, Compile(ps)
  PROVE  InOrder'
<1> USE DEF InOrder
<1>1. /\ spec' = Append(spec, ps)
      /\ phase = "compile" /\ phase' = phase /\ pc' = pc /\ outputs' = outputs
      /\ ps.name \notin Seen(spec)
      /\ compileStep(ps, Seen(spec))
  BY DEF Compile, Compiles
<1>2. /\ spec' \in Seq(PipelineStep)
      /\ Len(spec') = Len(spec) + 1
      /\ Len(spec) \in Nat
      /\ spec'[Len(spec) + 1] = ps
      /\ \A i \in 1..Len(spec) : spec'[i] = spec[i]
  BY <1>1
<1>3. \A n : n \in Seen(spec) <=> \E j \in 1..Len(spec) : spec[j].name = n
  BY DEF Seen
<1>4. \A i, j \in 1..Len(spec') : spec'[i].name = spec'[j].name => i = j
  BY <1>1, <1>2, <1>3
<1>5. ASSUME NEW i \in 1..Len(spec'), NEW n \in Reads(spec'[i])
      PROVE  \E j \in 1..i - 1 : spec'[j].name = n
  <2>1. CASE i = Len(spec) + 1
    <3>1. n \in Seen(spec)
      BY <2>1, <1>1, <1>2, CompiledReadsSeen
    <3>2. PICK j \in 1..Len(spec) : spec[j].name = n
      BY <3>1, <1>3
    <3> QED
      BY <2>1, <3>2, <1>2
  <2>2. CASE i \in 1..Len(spec)
    <3>1. PICK j \in 1..i - 1 : spec[j].name = n
      BY <2>2, <1>2
    <3> QED
      BY <2>2, <3>1, <1>2
  <2> QED
    BY <2>1, <2>2, <1>2
<1>6. pc' = 1 /\ pc' <= Len(spec') + 1
  BY <1>1, <1>2
<1>7. \A n \in DOMAIN outputs' : FALSE
  BY <1>1
<1> QED
  BY <1>1, <1>2, <1>4, <1>5, <1>6, <1>7

\* Publishing an output adds the name of the step evaluated to the scope.
LEMMA EvalPipeline ==
  ASSUME InOrder, EvalStep
  PROVE  InOrder'
<1> USE DEF InOrder
<1>1. /\ phase = "run" /\ phase' = "run" /\ spec' = spec
      /\ pc <= Len(spec) /\ pc' = pc + 1
      /\ DOMAIN outputs' = DOMAIN outputs \union {spec[pc].name}
  BY DEF EvalStep, Put, OutputsAfter
<1>2. Len(spec) \in Nat /\ pc \in Nat \ {0}
  OBVIOUS
<1>3. \A j \in 1..pc' - 1 : spec'[j].name \in DOMAIN outputs'
  BY <1>1, <1>2
<1>4. \A n \in DOMAIN outputs' : \E j \in 1..pc' - 1 : spec'[j].name = n
  BY <1>1, <1>2
<1>5. pc' \in Nat \ {0} /\ pc' <= Len(spec') + 1
  BY <1>1, <1>2
<1> QED
  BY <1>1, <1>2, <1>3, <1>4, <1>5

\* Every step of a pipeline keeps the invariant.
LEMMA NextPipeline == InOrder /\ [Next]_vars => InOrder'
<1> SUFFICES ASSUME InOrder, [Next]_vars
             PROVE  InOrder'
  OBVIOUS
<1>1. CASE UNCHANGED vars
  <2>1. spec' = spec /\ pc' = pc /\ phase' = phase /\ outputs' = outputs
    BY <1>1 DEF vars
  <2> QED BY <2>1 DEF InOrder
<1>2. ASSUME NEW ps \in PipelineStep, Compile(ps)
      PROVE  InOrder'
  BY <1>2, CompilePipeline
<1>3. ASSUME NEW ps \in PipelineStep, Reject(ps)
      PROVE  InOrder'
  BY <1>3 DEF Reject, InOrder
<1>4. CASE StartRun
  BY <1>4 DEF StartRun, InOrder
<1>5. CASE EvalStep
  BY <1>5, EvalPipeline
<1>6. CASE EvalStepFails
  BY <1>6 DEF EvalStepFails, Abandon, InOrder
<1>7. CASE Cancelled
  BY <1>7 DEF Cancelled, Abandon, InOrder
<1>8. CASE ReturnOutputs
  BY <1>8 DEF ReturnOutputs, InOrder
<1> QED
  BY <1>1, <1>2, <1>3, <1>4, <1>5, <1>6, <1>7, <1>8 DEF Next

-----------------------------------------------------------------------------
\* Compile and Run keep the rest of the invariant.

TheRest == PipelineTypeOK /\ InShape /\ InDepth /\ AsEvaluated /\ InFamily

LEMMA InitShape == Init => TheRest
<1> SUFFICES ASSUME Init PROVE TheRest
  OBVIOUS
<1>1. /\ spec = <<>> /\ outputs = <<>> /\ objects = <<>>
      /\ phase = "compile" /\ pc = 1 /\ err = "none"
      /\ <<>> \in Seq(PipelineStep) /\ Len(<<>>) = 0 /\ DOMAIN <<>> = {}
  BY DEF Init
<1>2. PipelineTypeOK
  BY <1>1, StepsAssumption DEF PipelineTypeOK
<1>3. InShape /\ InDepth /\ InFamily
  BY <1>1 DEF InShape, InDepth, InFamily
<1>4. AsEvaluated
  BY <1>1 DEF AsEvaluated
<1> QED BY <1>2, <1>3, <1>4 DEF TheRest

\* While a spec is compiled nothing is in scope.
LEMMA NothingInScope ==
  ASSUME InOrder, phase = "compile"
  PROVE  DOMAIN outputs = {}
<1>1. pc = 1
  BY DEF InOrder
<1>2. \A n \in DOMAIN outputs : \E j \in 1..0 : spec[j].name = n
  BY <1>1 DEF InOrder
<1>3. \A n \in DOMAIN outputs : FALSE
  BY <1>2
<1> QED BY <1>3, Zenon

\* Compile accepts a load that compiles by itself; no output exists yet.
LEMMA CompileShape ==
  ASSUME PipelineInv, NEW ps \in PipelineStep, Compile(ps)
  PROVE  TheRest'
<1>1. /\ spec' = Append(spec, ps) /\ Len(spec) < MaxSteps
      /\ phase = "compile" /\ phase' = phase /\ outputs' = outputs /\ objects' = objects
      /\ pc' = pc /\ err' = err
      /\ compileStep(ps, Seen(spec))
  BY DEF Compile, Compiles
<1>2. spec \in Seq(PipelineStep)
  BY DEF PipelineInv, PipelineTypeOK
<1>3. /\ spec' \in Seq(PipelineStep)
      /\ Len(spec') = Len(spec) + 1 /\ Len(spec) \in Nat
      /\ spec'[Len(spec) + 1] = ps
      /\ \A i \in 1..Len(spec) : spec'[i] = spec[i]
  BY <1>1, <1>2
<1>4. DOMAIN outputs' = {} /\ DOMAIN objects' = {}
  BY <1>1, NothingInScope DEF PipelineInv, PipelineTypeOK
<1>5. PipelineTypeOK'
  BY <1>1, <1>3, <1>4, StepsAssumption DEF PipelineInv, PipelineTypeOK
<1>6. ASSUME NEW i \in 1..Len(spec')
      PROVE  compileStep(spec'[i], {spec'[j].name : j \in 1..i - 1})
  <2>1. CASE i = Len(spec) + 1
    <3>1. DOMAIN spec = 1..Len(spec) /\ i - 1 = Len(spec)
      BY <1>2, <1>3, <2>1
    <3>2. \A j \in 1..Len(spec) : spec'[j].name = spec[j].name
      BY <1>3
    <3>3. Seen(spec) = {spec'[j].name : j \in 1..i - 1}
      BY <3>1, <3>2 DEF Seen
    <3> QED BY <1>1, <1>3, <2>1, <3>3
  <2>2. CASE i \in 1..Len(spec)
    <3>1. \A j \in 1..i - 1 : spec'[j] = spec[j]
      BY <1>3, <2>2
    <3>2. {spec'[j].name : j \in 1..i - 1} = {spec[j].name : j \in 1..i - 1}
      BY <3>1
    <3>3. compileStep(spec[i], {spec[j].name : j \in 1..i - 1})
      BY <2>2 DEF PipelineInv, InShape
    <3>4. spec'[i] = spec[i]
      BY <1>3, <2>2
    <3> QED BY <3>2, <3>3, <3>4
  <2>3. i = Len(spec) + 1 \/ i \in 1..Len(spec)
    BY <1>3
  <2> QED BY <2>1, <2>2, <2>3, Zenon
<1>7. InShape'
  BY <1>4, <1>6 DEF InShape
<1>8. AsEvaluated' /\ InDepth' /\ InFamily'
  BY <1>4 DEF AsEvaluated, InDepth, InFamily
<1> QED BY <1>5, <1>7, <1>8 DEF TheRest

\* The step Run evaluates: its name is new to the scope, its result is sound.
LEMMA EvaluatedStep ==
  ASSUME PipelineInv, phase = "run", pc <= Len(spec)
  PROVE  /\ pc \in 1..Len(spec) /\ Len(spec) \in Nat
         /\ spec[pc] \in PipelineStep
         /\ spec[pc].name \notin DOMAIN outputs
         /\ Sound(Result(spec[pc]))
<1>1. spec \in Seq(PipelineStep) /\ pc \in Nat \ {0}
  BY DEF PipelineInv, InOrder
<1>2. pc \in 1..Len(spec) /\ Len(spec) \in Nat /\ spec[pc] \in PipelineStep
  BY <1>1
<1>3. spec[pc].name \notin DOMAIN outputs
  <2>1. ASSUME NEW n \in DOMAIN outputs PROVE n # spec[pc].name
    <3>1. PICK j \in 1..pc - 1 : spec[j].name = n
      BY DEF PipelineInv, InOrder
    <3>2. j \in 1..Len(spec) /\ j # pc
      BY <1>2, <3>1
    <3> QED BY <1>2, <3>1, <3>2 DEF PipelineInv, InOrder
  <2> QED BY <2>1
<1>4. spec[pc].verb = "load" => compileLoad(spec[pc])
  BY <1>2 DEF PipelineInv, InShape, compileStep
<1>5. \A n \in DOMAIN outputs : ListOK(outputs[n])
  BY DEF PipelineInv, InShape, ListOK
<1> QED BY <1>2, <1>3, <1>4, <1>5, ResultIsSound

\* Evaluating a step: what is added to the scope, and what becomes of the rest.
Evaluation(ps, outs, v) ==
  /\ phase = "run" /\ pc \in 1..Len(spec) /\ Len(spec) \in Nat
  /\ ps = spec[pc] /\ ps \in PipelineStep
  /\ compileStep(ps, {spec[j].name : j \in 1..pc - 1})
  /\ ps.name \notin DOMAIN outputs
  /\ outs = OutputsAfter(ps) /\ Reads(ps) \subseteq DOMAIN outputs
  /\ Sets(ps) => CanSet(ps)
  /\ IsOk(Eval(ps, outs)) /\ v = Eval(ps, outs).ok /\ ListOK(v)
  /\ DOMAIN outputs' = DOMAIN outputs \union {ps.name}
  /\ outputs'[ps.name] = v
  /\ \A n \in DOMAIN outputs : outputs'[n] = outs[n]
  /\ DOMAIN objects = DOMAIN outputs /\ DOMAIN objects' = DOMAIN outputs'
  /\ objects'[ps.name] = NewObjects(ps, outs, v)
  /\ \A n \in DOMAIN outputs : objects'[n] = ObjectsAfter(ps)[n]
  /\ pc' = pc + 1 /\ spec' = spec /\ phase' = phase /\ err' = err

\* A successful EvalStep, in these terms.
LEMMA StepEvaluates ==
  ASSUME PipelineInv, EvalStep
  PROVE  \E ps, outs, v : Evaluation(ps, outs, v)
<1> DEFINE ps   == spec[pc]
           outs == OutputsAfter(ps)
           objs == ObjectsAfter(ps)
           r    == Result(ps)
<1>1. /\ phase = "run" /\ pc <= Len(spec) /\ IsOk(r)
      /\ outputs' = Put(outs, ps.name, r.ok)
      /\ objects' = Put(objs, ps.name, NewObjects(ps, outs, r.ok))
      /\ pc' = pc + 1 /\ spec' = spec /\ phase' = phase /\ err' = err
  BY DEF EvalStep
<1>2. /\ pc \in 1..Len(spec) /\ Len(spec) \in Nat
      /\ ps \in PipelineStep /\ ps.name \notin DOMAIN outputs /\ Sound(r)
  BY <1>1, EvaluatedStep
<1>3. /\ Reads(ps) \subseteq DOMAIN outputs
      /\ Sets(ps) => CanSet(ps)
      /\ r = Eval(ps, outs)
  BY <1>1, Evaluates
<1>4. compileStep(ps, {spec[j].name : j \in 1..pc - 1})
  BY <1>2 DEF PipelineInv, InShape
<1>5. DOMAIN outs = DOMAIN outputs /\ DOMAIN objs = DOMAIN objects
  BY DEF OutputsAfter, ObjectsAfter
<1>6. DOMAIN objects = DOMAIN outputs
  BY DEF PipelineInv, PipelineTypeOK
<1> DEFINE name == ps.name
           v    == r.ok
           new  == NewObjects(ps, outs, v)
<1>7. ListOK(v)
  BY <1>1, <1>2 DEF Sound
<1>8. IsOk(Eval(ps, outs)) /\ v = Eval(ps, outs).ok
  BY <1>1, <1>3
<1> HIDE DEF outs, objs, new, name, v
<1>9. outputs' = Put(outs, name, v) /\ objects' = Put(objs, name, new) /\ name \notin DOMAIN outputs
  BY <1>1, <1>2 DEF name, v, new
<1>10. /\ DOMAIN outputs' = DOMAIN outputs \union {name}
       /\ outputs'[name] = v
       /\ \A n \in DOMAIN outputs : outputs'[n] = outs[n]
       /\ DOMAIN objects' = DOMAIN outputs \union {name}
       /\ objects'[name] = new
       /\ \A n \in DOMAIN outputs : objects'[n] = objs[n]
  <2>1. DOMAIN outs = DOMAIN outputs /\ DOMAIN objs = DOMAIN outputs /\ name \notin DOMAIN outputs
    BY <1>5, <1>6, <1>9
  <2>2. /\ DOMAIN outputs' = DOMAIN outputs \union {name}
        /\ outputs'[name] = v
        /\ \A n \in DOMAIN outputs : outputs'[n] = outs[n]
    BY <1>9, <2>1 DEF Put
  <2>3. /\ DOMAIN objects' = DOMAIN outputs \union {name}
        /\ objects'[name] = new
        /\ \A n \in DOMAIN outputs : objects'[n] = objs[n]
    BY <1>9, <2>1 DEF Put
  <2> QED BY <2>2, <2>3
<1> HIDE DEF ps, r
<1>11. ps = spec[pc]
  BY DEF ps
<1>12. Evaluation(ps, outs, v)
  BY <1>1, <1>2, <1>3, <1>4, <1>6, <1>7, <1>8, <1>10, <1>11 DEF Evaluation, outs, objs, new, name
<1> QED BY <1>12

LEMMA EvalTyped ==
  ASSUME PipelineInv, NEW ps, NEW outs, NEW v, Evaluation(ps, outs, v)
  PROVE  PipelineTypeOK'
<1>1. ps.name \in Seen(spec)
  BY DEF Evaluation, Seen, PipelineInv, PipelineTypeOK
<1>2. DOMAIN outputs' \subseteq Seen(spec')
  <2>1. DOMAIN outputs \subseteq Seen(spec) /\ Seen(spec') = Seen(spec)
    BY DEF Evaluation, PipelineInv, PipelineTypeOK, Seen
  <2> QED BY <1>1, <2>1 DEF Evaluation
<1>3. pc' \in 1..MaxSteps + 1
  BY StepsAssumption DEF Evaluation, PipelineInv, PipelineTypeOK
<1> QED BY <1>2, <1>3 DEF Evaluation, PipelineInv, PipelineTypeOK

\* The shapes of what is in scope while a step is evaluated.
LEMMA InScope ==
  ASSUME PipelineInv, NEW ps, NEW outs, NEW v, Evaluation(ps, outs, v)
  PROVE  /\ DOMAIN outs = DOMAIN outputs
         /\ \A n \in DOMAIN outputs :
              /\ ListOK(outputs[n]) /\ ListOK(outs[n])
              /\ IsList(outs[n]) <=> IsList(outputs[n])
              /\ IsMap(outs[n]) <=> IsMap(outputs[n])
              /\ \A d \in Nat : d <= MaxDepth /\ Fits(outputs[n], d) => Fits(outs[n], d)
              /\ IsList(outputs[n]) => IsList(objects[n]) /\ IsSequence(objects[n].list)
              /\ IsMap(outputs[n]) => IsMap(objects[n]) /\ ~IsList(objects[n])
<1>1. \A n \in DOMAIN outputs :
        /\ ListOK(outputs[n])
        /\ IsList(outputs[n]) => IsList(objects[n]) /\ IsSequence(objects[n].list)
        /\ IsMap(outputs[n]) => IsMap(objects[n]) /\ ~IsList(objects[n])
  BY DEF PipelineInv, InShape, ListOK
<1>2. outs = OutputsAfter(ps) /\ (Sets(ps) => CanSet(ps))
  BY DEF Evaluation
<1> QED BY <1>1, <1>2, AfterFits

\* What filter and group are given to work on.
LEMMA Works ==
  ASSUME NEW ps, NEW outs, NEW v, Evaluation(ps, outs, v), DOMAIN outs = DOMAIN outputs
  PROVE  LET w == outs[ps.from]
         IN  /\ ps.verb = "filter" => /\ ps.from \in DOMAIN outputs /\ IsCollection(w)
                                      /\ v = selected(w, holds(ps, w))
             /\ ps.verb = "group"  => /\ ps.from \in DOMAIN outputs /\ IsList(w)
                                      /\ v = Map(buckets(groupKeys(ps, w.list), w.list))
<1> DEFINE w == outs[ps.from]
<1>1. \A n \in Reads(ps) : n \in DOMAIN outs
  BY DEF Evaluation
<1>2. ASSUME ps.verb \in {"filter", "group"} PROVE ps.from \in DOMAIN outputs
  BY <1>1, <1>2 DEF Reads
<1>3. CASE ps.verb = "filter"
  <2>1. Eval(ps, outs) = evalFilter(ps, w)
    BY <1>1, <1>3 DEF Eval
  <2>2. \/ evalFilter(ps, w) \in {Err("shape"), Err("expr")}
        \/ IsCollection(w) /\ evalFilter(ps, w) = Ok(selected(w, holds(ps, w)))
    BY Filtered
  <2>3. IsOk(evalFilter(ps, w)) /\ v = evalFilter(ps, w).ok
    BY <2>1 DEF Evaluation
  <2> HIDE DEF w
  <2>4. IsCollection(w) /\ v = selected(w, holds(ps, w))
    BY <2>2, <2>3, Results
  <2> QED BY <1>2, <1>3, <2>4 DEF w
<1>4. CASE ps.verb = "group"
  <2>1. Eval(ps, outs) = evalGroup(ps, w)
    BY <1>1, <1>4 DEF Eval
  <2>2. \/ evalGroup(ps, w) \in {Err("shape"), Err("expr")}
        \/ IsList(w) /\ evalGroup(ps, w) = Ok(Map(buckets(groupKeys(ps, w.list), w.list)))
    BY DEF evalGroup
  <2>3. IsOk(evalGroup(ps, w)) /\ v = evalGroup(ps, w).ok
    BY <2>1 DEF Evaluation
  <2> HIDE DEF w
  <2>4. IsList(w) /\ v = Map(buckets(groupKeys(ps, w.list), w.list))
    BY <2>2, <2>3, Results
  <2> QED BY <1>2, <1>4, <2>4 DEF w
<1> QED BY <1>3, <1>4

LEMMA NewObjectsAlike ==
  ASSUME PipelineInv, NEW ps, NEW outs, NEW v, Evaluation(ps, outs, v)
  PROVE  LET o == NewObjects(ps, outs, v)
         IN  /\ IsList(v) => IsList(o) /\ IsSequence(o.list)
             /\ IsMap(v) => IsMap(o) /\ ~IsList(o)
<1> DEFINE o == NewObjects(ps, outs, v)
           w == outs[ps.from]
           p == objects[ps.from]
<1>1. ListOK(v) /\ DOMAIN outs = DOMAIN outputs
  BY InScope DEF Evaluation
<1>2. ps.from \in DOMAIN outputs =>
        /\ ListOK(w)
        /\ IsList(w) => IsList(p) /\ IsSequence(p.list)
        /\ IsMap(w) => IsMap(p) /\ ~IsList(p)
  BY InScope
<1>3. CASE ps.verb = "filter"
  <2> DEFINE wanted == holds(ps, w)
  <2>1. o = selected(p, wanted)
    BY <1>3 DEF NewObjects
  <2>2. ps.from \in DOMAIN outputs /\ IsCollection(w) /\ v = selected(w, wanted)
    BY <1>1, <1>3, Works
  <2> HIDE DEF o, w, p, wanted
  <2>3. CASE IsList(w)
    <3>1. ~IsMap(v)
      BY <1>2, <2>2, <2>3, Selected, Shapes DEF ListOK
    <3>2. o = List(kept(p.list, wanted)) /\ IsSequence(kept(p.list, wanted))
      BY <1>2, <2>1, <2>2, <2>3, Selected
    <3> QED BY <3>1, <3>2, Shapes DEF o
  <2>4. CASE ~IsList(w) /\ IsMap(w)
    <3>1. ~IsList(v)
      BY <1>2, <2>2, <2>4, Selected, Shapes
    <3>2. ~IsList(p)
      BY <1>2, <2>2, <2>4
    <3>3. IsMap(o) /\ ~IsList(o)
      BY <2>1, <3>2, Selected, Shapes
    <3> QED BY <3>1, <3>3 DEF o
  <2> QED BY <2>2, <2>3, <2>4 DEF IsCollection
<1>4. CASE ps.verb = "group"
  <2>1. IsMap(o) /\ ~IsList(o)
    BY <1>4, Shapes DEF NewObjects
  <2>2. ~IsList(v)
    BY <1>1, <1>4, Works, Shapes
  <2> QED BY <2>1, <2>2
<1>5. CASE ps.verb \notin {"filter", "group"}
  <2>1. o = Fresh(ps.name, v)
    BY <1>5 DEF NewObjects
  <2>2. CASE IsList(v)
    <3> DEFINE s == [i \in DOMAIN v.list |-> Object(ps.name, i)]
    <3>1. o = List(s)
      BY <2>1, <2>2 DEF Fresh
    <3>2. Len(v.list) \in Nat /\ DOMAIN s = 1..Len(v.list) /\ ~IsMap(v)
      BY <1>1, <2>2, Sequences DEF ListOK
    <3>3. s \in [1..Len(v.list) -> Range(s)]
      BY <3>2 DEF Range
    <3> HIDE DEF s, o
    <3>4. IsSequence(s)
      BY <3>2, <3>3, FunctionIsSequence
    <3> QED BY <3>1, <3>2, <3>4, Shapes DEF o
  <2>3. CASE ~IsList(v) /\ IsMap(v)
    BY <2>1, <2>3, Shapes DEF Fresh
  <2>4. CASE ~IsList(v) /\ ~IsMap(v)
    BY <2>4
  <2> QED BY <2>2, <2>3, <2>4
<1> QED BY <1>3, <1>4, <1>5

LEMMA EvalInShape ==
  ASSUME PipelineInv, NEW ps, NEW outs, NEW v, Evaluation(ps, outs, v)
  PROVE  InShape'
<1> DEFINE OK(x, o) == /\ IsList(x) => /\ ~IsMap(x) /\ IsSequence(x.list)
                                       /\ IsList(o) /\ IsSequence(o.list)
                       /\ IsMap(x) => IsMap(o) /\ ~IsList(o)
<1>1. \A i \in 1..Len(spec') : compileStep(spec'[i], {spec'[j].name : j \in 1..i - 1})
  <2>1. spec' = spec
    BY DEF Evaluation
  <2> QED BY <2>1 DEF PipelineInv, InShape
<1>2. OK(outputs'[ps.name], objects'[ps.name])
  BY NewObjectsAlike DEF Evaluation, ListOK
<1>3. ASSUME NEW n \in DOMAIN outputs PROVE OK(outputs'[n], objects'[n])
  <2>1. outputs'[n] = outs[n] /\ objects'[n] = ObjectsAfter(ps)[n] /\ DOMAIN objects = DOMAIN outputs
    BY DEF Evaluation
  <2>2. OK(outs[n], objects[n])
    BY InScope DEF ListOK
  <2>3. CASE objects'[n] = objects[n]
    <3> HIDE DEF OK
    <3> QED BY <2>1, <2>2, <2>3
  <2>4. CASE Sets(ps) /\ ps.sets # "item" /\ n = ps.sets
    <3>1. IsMap(outputs[n])
      BY <2>4 DEF Evaluation, CanSet
    <3>2. IsMap(outs[n]) /\ ~IsList(outs[n])
      BY <3>1, InScope DEF ListOK
    <3>3. \E g : ObjectsAfter(ps)[n] = Map(g)
      BY <2>1, <2>4 DEF ObjectsAfter
    <3>4. IsMap(objects'[n]) /\ ~IsList(objects'[n])
      BY <2>1, <3>3, Shapes
    <3> QED BY <2>1, <3>2, <3>4
  <2>5. ~Sets(ps) \/ ps.sets = "item" \/ n # ps.sets => ObjectsAfter(ps)[n] = objects[n]
    BY <2>1 DEF ObjectsAfter
  <2> QED BY <2>1, <2>3, <2>4, <2>5
<1>4. \A n \in DOMAIN outputs' : n \in DOMAIN outputs \/ n = ps.name
  BY DEF Evaluation
<1>5. \A n \in DOMAIN outputs' : OK(outputs'[n], objects'[n])
  <2> HIDE DEF OK
  <2> QED BY <1>2, <1>3, <1>4
<1> QED BY <1>1, <1>5 DEF InShape

LEMMA EvalInDepth ==
  ASSUME PipelineInv, NEW ps, NEW outs, NEW v, Evaluation(ps, outs, v)
  PROVE  InDepth'
<1>1. /\ spec' = spec /\ pc \in 1..Len(spec) /\ Len(spec) \in Nat /\ Len(spec) <= MaxSteps
      /\ ps = spec[pc] /\ ps \in PipelineStep
      /\ compileStep(ps, {spec[j].name : j \in 1..pc - 1})
      /\ DOMAIN outputs' = DOMAIN outputs \union {ps.name} /\ ps.name \notin DOMAIN outputs
      /\ outputs'[ps.name] = v /\ \A n \in DOMAIN outputs : outputs'[n] = outs[n]
  BY DEF Evaluation, PipelineInv, PipelineTypeOK
<1>2. \A i \in 1..Len(spec) : Base + i \in Nat /\ Base + i <= MaxDepth
  BY <1>1, Names, StepsAssumption, DepthAssumption
<1>3. \A i \in 1..Len(spec) : spec[i].name \in DOMAIN outputs => Fits(outs[spec[i].name], Base + i)
  BY <1>2, InScope DEF PipelineInv, InDepth
<1>4. Fits(v, Base + pc)
  <2> DEFINE d == Base + (pc - 1)
  <2>1. d \in Nat /\ Base <= d /\ d + 1 <= MaxDepth /\ d + 1 = Base + pc
    BY <1>1, <1>2, Names
  <2>2. ASSUME NEW n \in Reads(ps) PROVE Fits(outs[n], d)
    <3>1. n \in DOMAIN outputs
      BY DEF Evaluation
    <3>2. PICK j \in 1..pc - 1 : spec[j].name = n
      <4>1. n \in {spec[j].name : j \in 1..pc - 1}
        BY <1>1, CompiledReadsSeen
      <4> QED BY <4>1
    <3>3. j \in 1..Len(spec) /\ Base + j \in Nat /\ Base + j <= d
      BY <1>1, <1>2, <3>2, Names
    <3> QED BY <1>3, <2>1, <3>1, <3>2, <3>3, FitsDeeper
  <2>3. \A n \in DOMAIN outs : ListOK(outs[n])
    BY InScope
  <2>4. IsOk(Eval(ps, outs)) /\ v = Eval(ps, outs).ok
    BY DEF Evaluation
  <2> HIDE DEF d
  <2>5. Fits(Eval(ps, outs).ok, d + 1)
    BY <1>1, <2>1, <2>2, <2>3, <2>4, EvalFits
  <2> QED BY <2>1, <2>4, <2>5
<1>5. ASSUME NEW i \in 1..Len(spec), spec[i].name \in DOMAIN outputs'
      PROVE  Fits(outputs'[spec[i].name], Base + i)
  <2>1. CASE spec[i].name \in DOMAIN outputs
    BY <1>1, <1>3, <2>1
  <2>2. CASE spec[i].name = ps.name
    <3>1. i = pc
      BY <1>1, <2>2 DEF PipelineInv, InOrder
    <3> QED BY <1>1, <1>4, <2>2, <3>1
  <2> QED BY <1>1, <1>5, <2>1, <2>2
<1> QED BY <1>1, <1>5 DEF InDepth

\* An output evaluated before is left as it was, unless something is set now.
LEMMA EvalAsEvaluated ==
  ASSUME PipelineInv, NEW ps, NEW outs, NEW v, Evaluation(ps, outs, v)
  PROVE  AsEvaluated'
<1>1. /\ spec' = spec /\ pc' = pc + 1 /\ pc \in 1..Len(spec) /\ ps = spec[pc]
      /\ DOMAIN outputs' = DOMAIN outputs \union {ps.name}
      /\ outputs'[ps.name] = v /\ \A n \in DOMAIN outputs : outputs'[n] = outs[n]
      /\ IsOk(Eval(ps, outs)) /\ v = Eval(ps, outs).ok /\ ps \in PipelineStep
      /\ Len(spec) \in Nat
  BY DEF Evaluation
<1>2. DOMAIN outs = DOMAIN outputs
  BY InScope
<1> SUFFICES ASSUME NEW i \in 1..Len(spec), spec[i].name \in DOMAIN outputs', Untouched(i)'
             PROVE  /\ IsOk(Eval(spec[i], outputs'))
                    /\ Eval(spec[i], outputs').ok = outputs'[spec[i].name]
  BY <1>1 DEF AsEvaluated
<1>3. CASE spec[i].name = ps.name
  <2>1. i = pc
    BY <1>1, <1>3 DEF PipelineInv, InOrder
  <2>2. Eval(ps, outputs') = Eval(ps, outs)
    BY <1>1, <1>2, EvalIsStable
  <2> QED BY <1>1, <1>3, <2>1, <2>2
<1>4. CASE spec[i].name \in DOMAIN outputs
  <2>1. i < pc
    <3>1. PICK j \in 1..pc - 1 : spec[j].name = spec[i].name
      <4>1. phase = "run"
        BY DEF Evaluation
      <4> QED BY <1>4, <4>1 DEF PipelineInv, InOrder
    <3>2. j \in 1..Len(spec) /\ j < pc
      BY <1>1, <3>1
    <3>3. i = j
      BY <3>1, <3>2 DEF PipelineInv, InOrder
    <3> QED BY <3>2, <3>3
  <2>2. ps.sets = "nothing" /\ Untouched(i)
    <3>1. \A j \in i + 1..pc : spec[j].sets = "nothing"
      BY <1>1 DEF Untouched
    <3>2. pc \in i + 1..pc /\ \A j \in i + 1..pc - 1 : j \in i + 1..pc
      BY <1>1, <2>1
    <3> QED BY <1>1, <3>1, <3>2 DEF Untouched
  <2>3. outs = outputs
    BY <2>2 DEF Evaluation, OutputsAfter, Sets
  <2>4. IsOk(Eval(spec[i], outputs)) /\ Eval(spec[i], outputs).ok = outputs[spec[i].name]
    BY <1>4, <2>2 DEF PipelineInv, AsEvaluated
  <2>5. spec[i] \in PipelineStep
    BY DEF PipelineInv, PipelineTypeOK
  <2>6. Eval(spec[i], outputs') = Eval(spec[i], outputs)
    BY <1>1, <2>3, <2>4, <2>5, EvalIsStable
  <2> QED BY <1>1, <1>4, <2>3, <2>4, <2>6
<1> QED BY <1>1, <1>3, <1>4

LEMMA EvalInFamily ==
  ASSUME PipelineInv, NEW ps, NEW outs, NEW v, Evaluation(ps, outs, v)
  PROVE  InFamily'
<1>1. /\ spec' = spec /\ pc \in 1..Len(spec) /\ ps = spec[pc]
      /\ DOMAIN objects' = DOMAIN objects \union {ps.name} /\ DOMAIN objects = DOMAIN outputs
      /\ objects'[ps.name] = NewObjects(ps, outs, v)
      /\ \A n \in DOMAIN objects : objects'[n] = ObjectsAfter(ps)[n]
  BY DEF Evaluation
<1>2. DOMAIN spec = 1..Len(spec)
  BY DEF PipelineInv, PipelineTypeOK
<1> SUFFICES ASSUME NEW S \in SUBSET Seen(spec), Family(S),
                    NEW n \in DOMAIN objects', NEW o \in ObjectsIn(objects'[n])
             PROVE  o.object[1] \in S <=> n \in S
  BY <1>1 DEF InFamily, Family, Seen
<1>3. ASSUME NEW m \in DOMAIN objects, o \in ObjectsIn(objects[m])
      PROVE  o.object[1] \in S <=> m \in S
  BY <1>3 DEF PipelineInv, InFamily
<1>4. CASE n \in DOMAIN objects
  <2>1. ObjectsIn(objects'[n]) \subseteq ObjectsIn(objects[n])
    <3>1. CASE ObjectsAfter(ps)[n] = objects[n]
      BY <1>1, <1>4, <3>1
    <3>2. CASE Sets(ps) /\ ps.sets # "item" /\ n = ps.sets
      <4> DEFINE p == objects[n]
                 f == [k \in DOMAIN p.map \union {FileOrder[1]} |->
                         IF k = FileOrder[1] THEN Null ELSE p.map[k]]
      <4>1. objects'[n] = Map(f)
        BY <1>1, <1>4, <3>2 DEF ObjectsAfter
      <4>2. IsMap(outputs[n])
        BY <3>2 DEF Evaluation, CanSet
      <4>3. IsMap(p) /\ ~IsList(p)
        BY <1>1, <1>4, <4>2, InScope
      <4>4. IsCollection(p) /\ Items(p) = p.map
        BY <4>3 DEF IsCollection, Items
      <4>5. Items(Map(f)) = f /\ IsCollection(Map(f))
        BY Shapes DEF IsCollection, Items
      <4>6. Range(f) \subseteq Range(p.map) \union {Null}
        BY DEF Range
      <4>7. ~IsObject(Null) /\ ~IsList(Null)
        BY DEF IsObject, IsList, Null
      <4> HIDE DEF f, p
      <4>8. ASSUME NEW x \in ObjectsIn(Map(f)) PROVE x \in ObjectsIn(p)
        <5>1. /\ ObjectsIn(Map(f)) = {y \in Range(f) \union UNION {Range(b.list) : b \in {c \in Range(f) : IsList(c)}} : IsObject(y)}
              /\ ObjectsIn(p) = {y \in Range(p.map) \union UNION {Range(b.list) : b \in {c \in Range(p.map) : IsList(c)}} : IsObject(y)}
          BY <4>4, <4>5 DEF ObjectsIn
        <5>2. {c \in Range(f) : IsList(c)} \subseteq {c \in Range(p.map) : IsList(c)}
          BY <4>6, <4>7
        <5> QED BY <4>6, <4>7, <4>8, <5>1, <5>2
      <4> QED BY <4>1, <4>8 DEF p
    <3>3. ~Sets(ps) \/ ps.sets = "item" \/ n # ps.sets => ObjectsAfter(ps)[n] = objects[n]
      BY <1>4 DEF ObjectsAfter
    <3> QED BY <3>1, <3>2, <3>3
  <2> QED BY <1>3, <1>4, <2>1
<1>5. CASE n = ps.name /\ ps.verb \in {"filter", "group"}
  <2> DEFINE p == objects[ps.from]
             w == outs[ps.from]
  <2>1. ps.from \in DOMAIN outputs
    BY <1>5, InScope, Works
  <2>2. ps.name \in S <=> ps.from \in S
    BY <1>1, <1>2, <1>5 DEF Family
  <2>3. CASE ps.verb = "filter"
    <3> DEFINE wanted == holds(ps, w)
               s == selected(p, wanted)
    <3>1. objects'[n] = s
      BY <1>1, <1>5, <2>3 DEF NewObjects
    <3>2. /\ IsList(w) \/ IsMap(w)
          /\ IsList(w) => IsList(p) /\ IsSequence(p.list)
          /\ IsMap(w) => IsMap(p) /\ ~IsList(p)
      BY <2>1, <2>3, InScope, Works DEF IsCollection
    <3> HIDE DEF wanted, p, w
    <3>3. CASE IsList(p)
      <4>1. s = List(kept(p.list, wanted)) /\ Range(kept(p.list, wanted)) \subseteq Range(p.list)
        BY <3>2, <3>3, Selected
      <4>2. /\ Items(p) = p.list /\ IsCollection(p)
            /\ Items(s) = kept(p.list, wanted)
        BY <3>3, <4>1, Shapes DEF Items, IsCollection
      <4> HIDE DEF s
      <4>3. ObjectsIn(s) \subseteq ObjectsIn(p)
        BY <4>1, <4>2, FewerObjects
      <4> QED BY <1>1, <1>3, <1>5, <2>1, <2>2, <3>1, <4>3 DEF p
    <3>4. CASE ~IsList(p)
      <4>1. PICK f : s = Map(f) /\ DOMAIN f \subseteq DOMAIN p.map /\ \A k \in DOMAIN f : f[k] = p.map[k]
        BY <3>4, Selected
      <4>2. /\ Items(p) = p.map /\ IsCollection(p)
            /\ Items(s) = f
        BY <3>2, <3>4, <4>1, Shapes DEF Items, IsCollection
      <4> HIDE DEF s
      <4>3. Range(f) \subseteq Range(p.map)
        BY <4>1 DEF Range
      <4>4. ObjectsIn(s) \subseteq ObjectsIn(p)
        BY <4>2, <4>3, FewerObjects
      <4> QED BY <1>1, <1>3, <1>5, <2>1, <2>2, <3>1, <4>4 DEF p
    <3> QED BY <3>3, <3>4
  <2>4. CASE ps.verb = "group"
    <3> DEFINE key == groupKeys(ps, w.list)
    <3>1. objects'[n] = Map(buckets(key, p.list))
      BY <1>1, <1>5, <2>4 DEF NewObjects
    <3>2. IsList(p) /\ IsSequence(p.list)
      BY <2>1, <2>4, InScope, Works
    <3> HIDE DEF key, p
    <3>3. ObjectsIn(Map(buckets(key, p.list))) \subseteq ObjectsIn(p)
      BY <3>2, GroupedObjects
    <3> QED BY <1>1, <1>3, <1>5, <2>1, <2>2, <3>1, <3>3 DEF p
  <2> QED BY <1>5, <2>3, <2>4
<1>6. CASE n = ps.name /\ ps.verb \notin {"filter", "group"}
  <2>1. objects'[n] = Fresh(ps.name, v)
    BY <1>1, <1>6 DEF NewObjects
  <2> QED BY <1>6, <2>1, FreshObjects
<1> QED BY <1>1, <1>4, <1>5, <1>6

LEMMA EvalShape ==
  ASSUME PipelineInv, EvalStep
  PROVE  TheRest'
<1>1. PICK ps, outs, v : Evaluation(ps, outs, v)
  BY StepEvaluates
<1> QED BY <1>1, EvalTyped, EvalInShape, EvalInDepth, EvalAsEvaluated, EvalInFamily DEF TheRest

\* A failing step empties the scope and leaves the error it failed with.
LEMMA AbandonShape ==
  ASSUME PipelineInv, NEW kind \in Kinds \union {"cancelled"}, Abandon(kind)
  PROVE  TheRest'
<1>1. /\ spec' = spec /\ pc' = pc /\ outputs' = <<>> /\ objects' = <<>>
      /\ phase' = "failed" /\ err' = kind
  BY DEF Abandon
<1>2. DOMAIN outputs' = {} /\ DOMAIN objects' = {}
  BY <1>1
<1>3. PipelineTypeOK'
  BY <1>1, <1>2 DEF PipelineInv, PipelineTypeOK, Kinds
<1>4. InShape'
  BY <1>1, <1>2 DEF PipelineInv, InShape
<1>5. AsEvaluated' /\ InDepth' /\ InFamily'
  BY <1>2 DEF AsEvaluated, InDepth, InFamily
<1> QED BY <1>3, <1>4, <1>5 DEF TheRest

\* A step that leaves the spec, the scope, the error and pc alone.
LEMMA QuietShape ==
  ASSUME PipelineInv, spec' = spec, outputs' = outputs, objects' = objects,
         pc' = pc, err' = err,
         phase' \in {"compile", "rejected", "run", "failed", "done"}
  PROVE  TheRest'
<1>1. PipelineTypeOK'
  BY DEF PipelineInv, PipelineTypeOK, Seen
<1>2. InShape'
  BY DEF PipelineInv, InShape
<1>3. AsEvaluated'
  BY DEF PipelineInv, AsEvaluated, Untouched
<1>4. InDepth' /\ InFamily'
  BY DEF PipelineInv, InDepth, InFamily, Family, Seen
<1> QED BY <1>1, <1>2, <1>3, <1>4 DEF TheRest

LEMMA NextShape == PipelineInv /\ [Next]_vars => TheRest'
<1> SUFFICES ASSUME PipelineInv, [Next]_vars
             PROVE  TheRest'
  OBVIOUS
<1>1. CASE UNCHANGED vars
  BY <1>1, QuietShape DEF vars, PipelineInv, PipelineTypeOK
<1>2. ASSUME NEW ps \in PipelineStep, Compile(ps)
      PROVE  TheRest'
  BY <1>2, CompileShape
<1>3. ASSUME NEW ps \in PipelineStep, Reject(ps)
      PROVE  TheRest'
  <2>1. /\ spec' = spec /\ outputs' = outputs /\ objects' = objects
        /\ pc' = pc /\ err' = err /\ phase' = "rejected"
    BY <1>3 DEF Reject
  <2> QED BY <2>1, QuietShape
<1>4. CASE StartRun
  BY <1>4, QuietShape DEF StartRun
<1>5. CASE EvalStep
  BY <1>5, EvalShape
<1>6. CASE EvalStepFails
  <2> DEFINE r == Result(spec[pc])
  <2>1. phase = "run" /\ pc <= Len(spec) /\ ~IsOk(r) /\ Abandon(r.err)
    BY <1>6 DEF EvalStepFails
  <2>2. Sound(r)
    BY <2>1, EvaluatedStep
  <2>3. r.err \in Kinds
    BY <2>1, <2>2 DEF Sound
  <2> HIDE DEF r
  <2> QED BY <2>1, <2>3, AbandonShape
<1>7. CASE Cancelled
  BY <1>7, AbandonShape DEF Cancelled
<1>8. CASE ReturnOutputs
  BY <1>8, QuietShape DEF ReturnOutputs
<1> QED
  BY <1>1, <1>2, <1>3, <1>4, <1>5, <1>6, <1>7, <1>8 DEF Next

\* The steps compiled have distinct names and read only earlier steps, the
\* scope holds exactly the outputs of the steps evaluated, and each of them is
\* what its step evaluates to until a later fragment sets something; an object
\* is held only by the family of steps it was made in (Compile, Run, the verbs).
THEOREM PipelineInvariant == Spec => []PipelineInv
<1>1. Init => PipelineInv
  BY InitPipeline, InitShape DEF PipelineInv, TheRest
<1>2. PipelineInv /\ [Next]_vars => PipelineInv'
  BY NextPipeline, NextShape DEF PipelineInv, TheRest
<1> QED BY <1>1, <1>2, PTL DEF Spec

\* The specs, the scope and the errors of a pipeline have their types: an
\* evaluation that fails, fails with one of the errors of the verbs.
THEOREM PipelineIsTyped == Spec => []PipelineTypeOK
<1>1. PipelineInv => PipelineTypeOK
  BY DEF PipelineInv
<1> QED BY <1>1, PipelineInvariant, PTL

\* No compiled pipeline, of whatever length, runs into an undefined step.
THEOREM CompiledPipelineIsServed == Spec => []ReadsAreServed
<1>1. ASSUME PipelineInv
      PROVE  ReadsAreServed
  <2> SUFFICES ASSUME phase = "run", pc <= Len(spec), NEW n \in Reads(spec[pc])
               PROVE  n \in DOMAIN outputs
    BY DEF ReadsAreServed
  <2>1. pc \in 1..Len(spec)
    BY <1>1 DEF PipelineInv, InOrder
  <2>2. PICK j \in 1..pc - 1 : spec[j].name = n
    BY <1>1, <2>1 DEF PipelineInv, InOrder
  <2> QED
    BY <1>1, <2>1, <2>2 DEF PipelineInv, InOrder
<1> QED
  BY <1>1, PipelineInvariant, PTL

\* Whatever the fragments set, it reaches only outputs they name and outputs
\* whose items are items of the step they are evaluated for, passed on by filter
\* and group.
THEOREM OnlyRelativesAreChanged == Spec => OnlyRelativesChange
<1> DEFINE LeftAlone(S) ==
             \/ ~Family(S)
             \/ /\ phase = "run" /\ pc <= Len(spec)
                /\ \/ spec[pc].sets \in S
                   \/ spec[pc].sets = "item" /\ spec[pc].from \in S
             \/ \A n \in S \intersect DOMAIN outputs :
                  n \in DOMAIN outputs' /\ outputs'[n] = outputs[n]
           All == phase' # "failed" => \A S \in SUBSET Seen(spec) : LeftAlone(S)
<1>1. ASSUME PipelineInv, [Next]_vars
      PROVE  [All]_vars
  <2>1. CASE outputs' = outputs
    BY <2>1
  <2>2. CASE EvalStep
    <3>1. PICK ps, outs, v : Evaluation(ps, outs, v)
      BY <1>1, <2>2, StepEvaluates
    <3> SUFFICES ASSUME NEW S \in SUBSET Seen(spec), Family(S),
                        ps.sets \notin S, ps.sets = "item" => ps.from \notin S,
                        NEW n \in S, n \in DOMAIN outputs
                 PROVE  n \in DOMAIN outputs' /\ outputs'[n] = outputs[n]
      BY <3>1 DEF Evaluation
    <3>2. /\ n \in DOMAIN outputs' /\ outputs'[n] = outs[n] /\ outs = OutputsAfter(ps)
          /\ DOMAIN objects = DOMAIN outputs /\ ps \in PipelineStep
          /\ Reads(ps) \subseteq DOMAIN outputs
      BY <3>1 DEF Evaluation
    <3>3. CASE ~Sets(ps) \/ ps.sets # "item"
      <4>1. OutputsAfter(ps)[n] = outputs[n]
        BY <3>3 DEF OutputsAfter
      <4> QED BY <3>2, <4>1
    <3>4. CASE Sets(ps) /\ ps.sets = "item"
      <4> DEFINE p == ObjectsIn(objects[ps.from])
                 o == ObjectsIn(objects[n])
      <4>1. ps.from \in DOMAIN objects
        <5>1. ps.verb \notin {"load", "merge"}
          BY <3>2, <3>4, Setting
        <5> QED BY <3>2, <5>1 DEF Reads
      <4>2. \A x \in o : x \notin p
        BY <1>1, <3>2, <3>4, <4>1 DEF PipelineInv, InFamily
      <4>3. OutputsAfter(ps)[n] = outputAfter(outputs[n], objects[n], p)
        BY <3>4 DEF OutputsAfter
      <4>4. o \intersect p = {}
        BY <4>2
      <4>5. outputAfter(outputs[n], objects[n], p) = outputs[n]
        BY <4>4 DEF outputAfter
      <4> QED BY <3>2, <4>3, <4>5
    <3> QED BY <3>3, <3>4
  <2>3. CASE EvalStepFails \/ Cancelled
    BY <2>3 DEF EvalStepFails, Cancelled, Abandon
  <2>4. CASE \E ps \in PipelineStep : Compile(ps) \/ Reject(ps)
    BY <2>1, <2>4 DEF Compile, Reject
  <2>5. CASE StartRun \/ ReturnOutputs
    BY <2>1, <2>5 DEF StartRun, ReturnOutputs
  <2>6. CASE UNCHANGED vars
    BY <2>1, <2>6 DEF vars
  <2> QED
    BY <1>1, <2>2, <2>3, <2>4, <2>5, <2>6 DEF Next
<1>2. PipelineInv /\ [Next]_vars => [All]_vars
  BY <1>1
<1> QED
  BY <1>2, PipelineInvariant, PTL DEF Spec, OnlyRelativesChange

-----------------------------------------------------------------------------
\* What load and group publish.

\* A sequence without repetition is as long as its range is large.
LEMMA InjectiveRange ==
  ASSUME NEW s, IsSequence(s), IsInjective(s)
  PROVE  IsFiniteSet(Range(s)) /\ Cardinality(Range(s)) = Len(s)
<1>1. Len(s) \in Nat /\ DOMAIN s = 1..Len(s)
  BY Sequences
<1>2. IsFiniteSet(1..Len(s)) /\ Cardinality(1..Len(s)) = Len(s)
  <2> DEFINE n == Len(s)
  <2>1. n \in Int /\ 1 \in Int /\ n - 1 + 1 = n /\ (1 > n => n = 0)
    BY <1>1
  <2> HIDE DEF n
  <2>2. IsFiniteSet(1..n) /\ Cardinality(1..n) = IF 1 > n THEN 0 ELSE n - 1 + 1
    BY <2>1, FS_Interval, Zenon
  <2> QED BY <2>1, <2>2 DEF n
<1>3. s \in [1..Len(s) -> Range(s)]
  BY <1>1 DEF IsSequence, Range
<1>4. s \in Bijection(1..Len(s), Range(s))
  BY <1>1, <1>3 DEF Bijection, Injection, Surjection, IsInjective, Range
<1>5. ExistsBijection(1..Len(s), Range(s))
  BY <1>4 DEF ExistsBijection
<1> QED BY <1>2, <1>5, FS_Bijection

\* A load `as: map` that succeeds has one entry for each file of the alias.
LEMMA LoadedMap ==
  ASSUME NEW ls, IsLoad(ls), compileLoad(ls), ls.glob, ls.asMap, IsOk(evalLoad(ls))
  PROVE  /\ Cardinality(DOMAIN evalLoad(ls).ok.map) = Cardinality(DOMAIN Files[ls.alias])
         /\ \A f \in DOMAIN Files[ls.alias] :
              \E k \in DOMAIN evalLoad(ls).ok.map : evalLoad(ls).ok.map[k] = Files[ls.alias][f]
<1> DEFINE matches == expandGlob(ls)
           values  == [i \in DOMAIN matches |-> readDecode(ls.alias, matches[i])]
           r       == entries(ls, matches, values)
<1>1. ls.alias \in Alias /\ ls.expr \in KeyExpr
  BY DEF IsLoad, compileLoad, newItemTemplate
<1>2. /\ IsSequence(matches) /\ IsInjective(matches)
      /\ Range(matches) = DOMAIN Files[ls.alias]
  BY <1>1, Matches
<1>3. Len(matches) \in Nat /\ DOMAIN matches = 1..Len(matches)
  BY <1>2, Sequences
<1>4. evalLoad(ls) = IF \E i \in DOMAIN values : ~IsOk(values[i]) THEN Err("decode")
                     ELSE IF IsOk(r) THEN Ok(Map(r.ok)) ELSE r
  BY DEF evalLoad
<1> HIDE DEF matches
<1>5. \A i \in DOMAIN matches : IsOk(values[i])
  <2> HIDE DEF r
  <2>1. CASE \E i \in DOMAIN values : ~IsOk(values[i])
    BY <1>4, <2>1, Results
  <2> QED BY <2>1
<1>6. \A i \in DOMAIN matches : values[i].ok = Files[ls.alias][matches[i]]
  <2> SUFFICES ASSUME NEW i \in DOMAIN matches PROVE values[i].ok = Files[ls.alias][matches[i]]
    OBVIOUS
  <2>1. values[i] = Err("decode") \/ values[i] = Ok(Files[ls.alias][matches[i]])
    BY DEF readDecode
  <2>2. IsOk(values[i])
    BY <1>5
  <2> HIDE DEF values
  <2> QED BY <2>1, <2>2, Results
<1>7. evalLoad(ls) = IF IsOk(r) THEN Ok(Map(r.ok)) ELSE r
  <2>1. ~\E i \in DOMAIN values : ~IsOk(values[i])
    BY <1>5
  <2> HIDE DEF values, r
  <2> QED BY <1>4, <2>1
<1> HIDE DEF values
<1>8. IF IsOk(r)
      THEN /\ Cardinality(DOMAIN r.ok) = Len(matches)
           /\ \A j \in 1..Len(matches) : \E k \in DOMAIN r.ok : r.ok[k] = values[j].ok
      ELSE r.err \in {"expr", "duplicate"}
  BY <1>1, <1>3, Entries
<1> HIDE DEF r
<1>9. IsOk(r) /\ evalLoad(ls).ok.map = r.ok
  BY <1>7, Results, Shapes
<1>10. Cardinality(DOMAIN Files[ls.alias]) = Len(matches)
  BY <1>2, InjectiveRange
<1>11. ASSUME NEW f \in DOMAIN Files[ls.alias]
       PROVE  \E k \in DOMAIN r.ok : r.ok[k] = Files[ls.alias][f]
  <2>1. PICK j \in DOMAIN matches : matches[j] = f
    BY <1>2 DEF Range
  <2>2. PICK k \in DOMAIN r.ok : r.ok[k] = values[j].ok
    BY <1>3, <1>8, <1>9, <2>1
  <2> QED BY <1>6, <2>1, <2>2
<1> QED BY <1>8, <1>9, <1>10, <1>11

\* Two files of one key never share an entry: a glob loaded `as: map` has all
\* its files in the scope, for every set of files and aliases.
THEOREM LoadedMapsKeepFiles == Spec => []LoadMapKeepsFiles
<1>1. ASSUME PipelineInv
      PROVE  LoadMapKeepsFiles
  <2> SUFFICES ASSUME NEW i \in Published("load"), spec[i].glob, spec[i].asMap
               PROVE  /\ Cardinality(DOMAIN outputs[spec[i].name].map)
                           = Cardinality(DOMAIN Files[spec[i].alias])
                      /\ \A f \in DOMAIN Files[spec[i].alias] :
                           \E k \in DOMAIN outputs[spec[i].name].map :
                             outputs[spec[i].name].map[k] = Files[spec[i].alias][f]
    BY DEF LoadMapKeepsFiles
  <2>1. /\ i \in 1..Len(spec) /\ spec[i] \in PipelineStep
        /\ spec[i].verb = "load" /\ spec[i].name \in DOMAIN outputs /\ Untouched(i)
    BY <1>1 DEF Published, PipelineInv, PipelineTypeOK
  <2>2. IsLoad(spec[i]) /\ compileLoad(spec[i])
    BY <1>1, <2>1, Verbs DEF PipelineInv, InShape, compileStep
  <2>3. IsOk(Eval(spec[i], outputs)) /\ Eval(spec[i], outputs).ok = outputs[spec[i].name]
    BY <1>1, <2>1 DEF PipelineInv, AsEvaluated
  <2>4. Eval(spec[i], outputs) = evalLoad(spec[i])
    BY <2>1 DEF Eval, Reads
  <2> QED BY <2>2, <2>3, <2>4, LoadedMap
<1> QED BY <1>1, PipelineInvariant, PTL

\* group loses, repeats and reorders nothing, for lists of any length.
THEOREM GroupsArePartitions == Spec => []GroupPartitions
<1>1. ASSUME PipelineInv
      PROVE  GroupPartitions
  <2> SUFFICES ASSUME NEW i \in Published("group")
               PROVE  LET in  == outputs[spec[i].from].list
                          out == outputs[spec[i].name].map
                          key == [p \in DOMAIN in |-> groupKey(spec[i], in, p).ok]
                      IN  /\ DOMAIN out = {key[p] : p \in DOMAIN in}
                          /\ \A k \in DOMAIN out :
                               LET picked == {p \in DOMAIN in : key[p] = k}
                                   nth(p) == Cardinality({q \in picked : q <= p})
                               IN  /\ Len(out[k].list) = Cardinality(picked)
                                   /\ \A p \in picked : out[k].list[nth(p)] = in[p]
    BY DEF GroupPartitions
  <2> DEFINE v   == outputs[spec[i].from]
             in  == v.list
             out == outputs[spec[i].name].map
             key == [p \in DOMAIN in |-> groupKey(spec[i], in, p).ok]
  <2>1. /\ i \in 1..Len(spec) /\ spec[i] \in PipelineStep
        /\ spec[i].verb = "group" /\ spec[i].name \in DOMAIN outputs /\ Untouched(i)
    BY <1>1 DEF Published, PipelineInv, PipelineTypeOK
  <2>2. IsOk(Eval(spec[i], outputs)) /\ Eval(spec[i], outputs).ok = outputs[spec[i].name]
    BY <1>1, <2>1 DEF PipelineInv, AsEvaluated
  <2>3. spec[i].from \in DOMAIN outputs /\ Eval(spec[i], outputs) = evalGroup(spec[i], v)
    <3>1. CASE \E n \in Reads(spec[i]) : n \notin DOMAIN outputs
      <4>1. Eval(spec[i], outputs) = Err("undefined")
        BY <3>1 DEF Eval
      <4> QED BY <2>2, <4>1, Results
    <3>2. CASE ~\E n \in Reads(spec[i]) : n \notin DOMAIN outputs
      BY <2>1, <3>2 DEF Eval, Reads
    <3> QED BY <3>1, <3>2
  <2>4. IsList(v) /\ evalGroup(spec[i], v) = Ok(Map(buckets(key, in)))
    <3>1. evalGroup(spec[i], v) \in {Err("shape"), Err("expr")}
          \/ (IsList(v) /\ evalGroup(spec[i], v) = Ok(Map(buckets(key, in))))
      BY DEF evalGroup, groupKeys
    <3> QED BY <2>2, <2>3, <3>1, Results
  <2>5. out = buckets(key, in)
    BY <2>2, <2>3, <2>4, Results, Shapes
  <2>6. IsSequence(in)
    BY <1>1, <2>3, <2>4 DEF PipelineInv, InShape
  <2>7. DOMAIN in = 1..Len(in)
    BY <2>6, Sequences
  <2> HIDE DEF v, out, key
  <2>9. Grouped(out, in, key, Len(in))
    BY <2>5, <2>6, Buckets
  <2>10. /\ DOMAIN out = {key[p] : p \in DOMAIN in}
         /\ \A k \in DOMAIN out :
              LET picked == {p \in DOMAIN in : key[p] = k}
                  nth(p) == Cardinality({q \in picked : q <= p})
              IN  /\ Len(out[k].list) = Cardinality(picked)
                  /\ \A p \in picked : out[k].list[nth(p)] = in[p]
    BY <2>7, <2>9 DEF Grouped, Picked, Nth
  <2> QED BY <2>10 DEF v, out, key
<1> QED BY <1>1, PipelineInvariant, PTL

\* merge is the Helm merge at every path, for every number of sources and
\* steps and every depth of the files.
THEOREM MergesObeyTheLast == Spec => []MergeLastWins
<1>1. ASSUME PipelineInv
      PROVE  MergeLastWins
  <2> SUFFICES ASSUME NEW i \in Published("merge")
               PROVE  IsMergeOf(outputs[spec[i].name],
                                [j \in DOMAIN spec[i].from |-> outputs[spec[i].from[j]]])
    BY DEF MergeLastWins
  <2> DEFINE ps == spec[i]
  <2>1. /\ i \in 1..Len(spec) /\ ps \in PipelineStep /\ Len(spec) \in Nat /\ Len(spec) <= MaxSteps
        /\ ps.verb = "merge" /\ ps.name \in DOMAIN outputs /\ Untouched(i)
    BY <1>1 DEF Published, PipelineInv, PipelineTypeOK
  <2>2. IsOk(Eval(ps, outputs)) /\ Eval(ps, outputs).ok = outputs[ps.name]
    BY <1>1, <2>1 DEF PipelineInv, AsEvaluated
  <2>3. \A n \in Reads(ps) : n \in DOMAIN outputs /\ \E j \in 1..Len(spec) : spec[j].name = n
    <3>1. CASE \E n \in Reads(ps) : n \notin DOMAIN outputs
      <4>1. Eval(ps, outputs) = Err("undefined")
        BY <3>1 DEF Eval
      <4> QED BY <2>2, <4>1, Results
    <3>2. \A n \in Reads(ps) : \E j \in 1..i - 1 : spec[j].name = n
      BY <1>1, <2>1 DEF PipelineInv, InOrder
    <3>3. \A j \in 1..i - 1 : j \in 1..Len(spec)
      BY <2>1
    <3> QED BY <3>1, <3>2, <3>3
  <2>4. Eval(ps, outputs) = Ok(merged(ps.from, outputs))
    <3>1. Eval(ps, outputs) = evalMerge(ps, outputs)
      BY <2>1, <2>3 DEF Eval
    <3>2. evalMerge(ps, outputs) \in {Err("shape"), Ok(merged(ps.from, outputs))}
      BY DEF evalMerge
    <3> QED BY <2>2, <3>1, <3>2, Results
  <2>5. Len(ps.from) \in Nat /\ DOMAIN ps.from = 1..Len(ps.from)
    BY <2>1, Verbs
  <2>6. ASSUME NEW j \in 1..Len(ps.from) PROVE IsTreeOf(outputs[ps.from[j]], MaxDepth)
    <3>1. ps.from[j] \in Reads(ps)
      BY <2>1, <2>5 DEF Reads
    <3>2. PICK m \in 1..Len(spec) : spec[m].name = ps.from[j]
      BY <2>3, <3>1
    <3>3. Fits(outputs[ps.from[j]], Base + m)
      BY <1>1, <2>3, <3>1, <3>2 DEF PipelineInv, InDepth
    <3>4. Base + m \in Nat /\ Base + m <= MaxDepth /\ MaxDepth \in Nat
      BY <2>1, Names, DepthAssumption, StepsAssumption
    <3> QED BY <3>3, <3>4, Deeper DEF Fits
  <2>7. IsMergeOf(merged(ps.from, outputs), [j \in DOMAIN ps.from |-> outputs[ps.from[j]]])
    BY <2>5, <2>6, MergedFits, DepthAssumption
  <2>8. outputs[ps.name] = merged(ps.from, outputs)
    BY <2>2, <2>4, Results
  <2> HIDE DEF ps
  <2>9. IsMergeOf(outputs[ps.name], [j \in DOMAIN ps.from |-> outputs[ps.from[j]]])
    BY <2>7, <2>8
  <2> QED BY <2>9 DEF ps
<1> QED BY <1>1, PipelineInvariant, PTL
=============================================================================
