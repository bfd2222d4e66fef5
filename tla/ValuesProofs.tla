---------------------------- MODULE ValuesProofs ----------------------------
(***************************************************************************)
(* What the values of a pass are made from, for every set of ConfigMaps,   *)
(* texts and target paths and every length of valuesFrom.                  *)
(***************************************************************************)
EXTENDS Values, TreesProofs

\* What the log can hold: a reference with its answer, or the inline values.
Reads   == {Entry(ref, answer) : ref \in ValuesReference, answer \in Answer}
Inlined == {[inline |-> t] : t \in Inline}

\* The last read failed, with the error kind k.
LastFailed(k) ==
  \E ref \in ValuesReference, answer \in Answer :
    /\ Len(log) > 0
    /\ log[Len(log)] = Entry(ref, answer)
    /\ IsFailure(resolveOne(ref, answer))
    /\ k = resolveOne(ref, answer).fails

\* The log is faithful to what was asked and answered, every failure in it
\* ended the pass, and the error of the pass is that of its last read, before
\* and after handleValuesError.
ResolveInv ==
  /\ log \in Seq(Reads \union Inlined)
  /\ \A i \in 1..Len(log) : \A ref \in ValuesReference, answer \in Answer :
       log[i] = Entry(ref, answer) /\ IsFailure(resolveOne(ref, answer)) =>
         phase \in {"failed", "handled"}
  /\ phase = "failed" => LastFailed(err)
  /\ phase = "handled" => \E k : LastFailed(k) /\ err = Handles(k)

-----------------------------------------------------------------------------
\* What resolveOne gives is a failure exactly when it is made by Fails.
LEMMA Kinds ==
  /\ \A k : IsFailure(Fails(k)) /\ Fails(k).fails = k /\ "tree" \notin DOMAIN Fails(k)
  /\ \A t : ~IsFailure(Gives(t)) /\ Gives(t).tree = t
  /\ ~IsFailure(Nothing) /\ "tree" \notin DOMAIN Nothing
  BY DEF IsFailure, Fails, Gives, Nothing

\* A reference that may not be followed fails whatever the answer, and
\* nothing else fails with an access error.
LEMMA AccessDenied ==
  ASSUME NEW ref, NEW answer
  PROVE  /\ ~Allows(ref) => resolveOne(ref, answer) = Fails("access")
         /\ Allows(ref) /\ IsFailure(resolveOne(ref, answer)) =>
              resolveOne(ref, answer).fails # "access"
<1>1. ~Allows(ref) => resolveOne(ref, answer) = Fails("access")
  BY DEF resolveOne
<1>2. ASSUME Allows(ref), IsFailure(resolveOne(ref, answer))
      PROVE  resolveOne(ref, answer).fails # "access"
  <2>1. CASE "err" \in DOMAIN answer
    BY <1>2, <2>1, Kinds DEF resolveOne
  <2>2. CASE "err" \notin DOMAIN answer
    <3> DEFINE injected == selectContent(answer.data, ref)
    <3>1. IsFailure(injected) => injected.fails # "access"
      <4>1. CASE ref.valuesKey = ""
        BY <4>1, Kinds, Zenon DEF selectContent
      <4>2. CASE ref.valuesKey # ""
        <5>1. \/ injected = Fails("fetch") \/ injected = Fails("decode")
              \/ injected = Gives(Decoded[answer.data[ref.valuesKey]])
          BY <4>2 DEF selectContent
        <5> QED
          BY <5>1, Kinds
      <4> QED
        BY <4>1, <4>2
    <3>2. ASSUME NEW t PROVE IsFailure(placeAtPath(ref.targetPath, t)) =>
                                placeAtPath(ref.targetPath, t).fails # "access"
      BY Kinds DEF placeAtPath
    <3>3. resolveOne(ref, answer) =
            IF IsFailure(injected) THEN IF ref.optional THEN Nothing ELSE injected
            ELSE IF injected.tree = Null /\ ref.targetPath = <<>> THEN Nothing
            ELSE placeAtPath(ref.targetPath, injected.tree)
      BY <1>2, <2>2, Zenon DEF resolveOne
    <3> HIDE DEF injected
    <3> QED
      BY <1>2, <3>1, <3>2, <3>3, Kinds
  <2> QED
    BY <2>1, <2>2
<1> QED
  BY <1>1, <1>2

\* The API server not answering is a failure for every reference.
LEMMA UnavailableFails ==
  ASSUME NEW ref
  PROVE  IsFailure(resolveOne(ref, [err |-> "unavailable"]))
<1>1. "err" \in DOMAIN [err |-> "unavailable"]
  OBVIOUS
<1>2. ~Forgives(ref, [err |-> "unavailable"])
  BY DEF Forgives
<1> QED
  BY <1>1, <1>2, Kinds DEF resolveOne

\* A reference that may be followed has an answer it resolves with.
LEMMA SomeAnswerResolves ==
  ASSUME NEW ref \in ValuesReference, Allows(ref)
  PROVE  \E answer \in Answer : ~IsFailure(resolveOne(ref, answer))
<1>1. PICK t \in Text : IsMap(Decoded[t])
  BY TextAssumption
<1>2. Decoded[t] # Undecodable
  BY <1>1 DEF Undecodable, IsMap
<1> DEFINE ks == IF ref.valuesKey = "" THEN {} ELSE {ref.valuesKey}
           data == [k \in ks |-> t]
           answer == [data |-> data]
<1>3. ref.valuesKey \in DataKey \union {""}
  BY DEF ValuesReference
<1>4. data \in Data
  <2>1. ks \in SUBSET DataKey
    BY <1>3
  <2>2. data \in [ks -> Text]
    OBVIOUS
  <2> QED
    BY <2>1, <2>2 DEF Data
<1>5. answer \in Answer
  BY <1>4 DEF Answer
<1>6. "err" \notin DOMAIN answer /\ answer.data = data
  OBVIOUS
<1>7. \E m : selectContent(data, ref) = Gives(m) /\ IsMap(m)
  <2>1. CASE ref.valuesKey = ""
    <3> DEFINE m == Map([k \in DOMAIN data |-> Leaf(data[k])])
    <3>1. selectContent(data, ref) = Gives(m)
      BY <2>1, Zenon DEF selectContent
    <3>2. IsMap(m)
      BY DEF IsMap, Map
    <3> QED
      BY <3>1, <3>2, Zenon
  <2>2. CASE ref.valuesKey # ""
    <3>1. ref.valuesKey \in DOMAIN data /\ data[ref.valuesKey] = t
      BY <2>2
    <3> QED
      BY <2>2, <3>1, <1>1, <1>2 DEF selectContent
  <2> QED
    BY <2>1, <2>2
<1>8. PICK m : selectContent(data, ref) = Gives(m) /\ IsMap(m)
  BY <1>7
<1>9. ~IsFailure(placeAtPath(ref.targetPath, m))
  BY <1>8, Kinds DEF placeAtPath
<1> HIDE DEF answer, data
<1>10. resolveOne(ref, answer) \in {Nothing, placeAtPath(ref.targetPath, m)}
  BY <1>6, <1>8, Kinds DEF resolveOne
<1> QED
  BY <1>5, <1>9, <1>10, Kinds

\* An entry tells its reference, its answer and what it gave.
LEMMA EntryFields ==
  ASSUME NEW ref, NEW answer
  PROVE  /\ Entry(ref, answer).ref = ref /\ Entry(ref, answer).answer = answer
         /\ Entry(ref, answer).gave = resolveOne(ref, answer)
         /\ "ref" \in DOMAIN Entry(ref, answer)
         /\ "inline" \notin DOMAIN Entry(ref, answer)
  BY DEF Entry

\* An entry with a reference is a read.
LEMMA ReadOfEntry ==
  ASSUME NEW e \in Reads \union Inlined, "ref" \in DOMAIN e
  PROVE  \E ref \in ValuesReference, answer \in Answer : e = Entry(ref, answer)
<1>1. e \notin Inlined
  BY DEF Inlined
<1> QED
  BY <1>1 DEF Reads
-----------------------------------------------------------------------------
\* Nothing read, nothing failed.
LEMMA InitResolve == Init => ResolveInv
  BY DEF Init, ResolveInv

\* A log that grew by one entry.
LEMMA LogGrows ==
  ASSUME ResolveInv, NEW e \in Reads \union Inlined, log' = Append(log, e)
  PROVE  /\ log' \in Seq(Reads \union Inlined)
         /\ Len(log') = Len(log) + 1 /\ Len(log) \in Nat
         /\ log'[Len(log')] = e
         /\ \A i \in 1..Len(log') : i = Len(log') \/ (i \in 1..Len(log) /\ log'[i] = log[i])
<1>1. log \in Seq(Reads \union Inlined)
  BY DEF ResolveInv
<1> QED
  BY <1>1, AppendProperties

\* A reference that contributes or is skipped is logged with its answer.
LEMMA ResolveRefStep ==
  ASSUME ResolveInv, NEW ref \in ValuesReference, NEW answer \in Answer,
         ResolveRef(ref, answer)
  PROVE  ResolveInv'
<1> DEFINE e == Entry(ref, answer)
<1>1. /\ log' = Append(log, e) /\ ~IsFailure(resolveOne(ref, answer))
      /\ phase = "from" /\ phase' = "from"
  BY Zenon DEF ResolveRef
<1>2. e \in Reads \union Inlined
  BY DEF Reads
<1> HIDE DEF e
<1>3. /\ log' \in Seq(Reads \union Inlined) /\ log'[Len(log')] = e
      /\ \A i \in 1..Len(log') : i = Len(log') \/ (i \in 1..Len(log) /\ log'[i] = log[i])
  BY <1>1, <1>2, LogGrows
<1>4. ASSUME NEW i \in 1..Len(log'), NEW r \in ValuesReference, NEW a \in Answer,
             log'[i] = Entry(r, a), IsFailure(resolveOne(r, a))
      PROVE  FALSE
  <2>1. CASE i = Len(log')
    BY <2>1, <1>1, <1>3, <1>4, EntryFields DEF e
  <2>2. CASE i \in 1..Len(log) /\ log'[i] = log[i]
    BY <2>2, <1>1, <1>4 DEF ResolveInv
  <2> QED
    BY <1>3, <2>1, <2>2
<1> QED
  BY <1>1, <1>3, <1>4 DEF ResolveInv

\* A reference that fails is the last one, and its error is the pass's.
LEMMA ResolveRefFailsStep ==
  ASSUME ResolveInv, NEW ref \in ValuesReference, NEW answer \in Answer,
         ResolveRefFails(ref, answer)
  PROVE  ResolveInv'
<1> DEFINE e == Entry(ref, answer)
<1>1. /\ log' = Append(log, e) /\ IsFailure(resolveOne(ref, answer))
      /\ phase' = "failed" /\ err' = resolveOne(ref, answer).fails
  BY Zenon DEF ResolveRefFails
<1>2. e \in Reads \union Inlined
  BY DEF Reads
<1> HIDE DEF e
<1>3. /\ log' \in Seq(Reads \union Inlined) /\ log'[Len(log')] = e /\ Len(log') > 0
  BY <1>1, <1>2, LogGrows
<1>4. LastFailed(err)'
  BY <1>1, <1>3 DEF LastFailed, e
<1> QED
  BY <1>1, <1>3, <1>4 DEF ResolveInv

\* The inline values close the log of a pass that did not fail.
LEMMA ResolveInlineStep ==
  ASSUME ResolveInv, NEW t \in Inline, ResolveInline(t)
  PROVE  ResolveInv'
<1> DEFINE e == [inline |-> t]
<1>1. log' = Append(log, e) /\ phase = "inline" /\ phase' = "done"
  BY Zenon DEF ResolveInline
<1>2. e \in Reads \union Inlined /\ "ref" \notin DOMAIN e
  BY DEF Inlined
<1> HIDE DEF e
<1>3. /\ log' \in Seq(Reads \union Inlined) /\ log'[Len(log')] = e
      /\ \A i \in 1..Len(log') : i = Len(log') \/ (i \in 1..Len(log) /\ log'[i] = log[i])
  BY <1>1, <1>2, LogGrows
<1>4. ASSUME NEW i \in 1..Len(log'), NEW r \in ValuesReference, NEW a \in Answer,
             log'[i] = Entry(r, a), IsFailure(resolveOne(r, a))
      PROVE  FALSE
  <2>1. CASE i = Len(log')
    BY <2>1, <1>2, <1>3, <1>4, EntryFields
  <2>2. CASE i \in 1..Len(log) /\ log'[i] = log[i]
    BY <2>2, <1>1, <1>4 DEF ResolveInv
  <2> QED
    BY <1>3, <2>1, <2>2
<1> QED
  BY <1>1, <1>3, <1>4 DEF ResolveInv

\* handleValuesError looks at the error alone.
LEMMA HandleStep ==
  ASSUME ResolveInv, HandleValuesError
  PROVE  ResolveInv'
<1>1. /\ phase = "failed" /\ phase' = "handled" /\ log' = log /\ err' = Handles(err)
  BY DEF HandleValuesError
<1>2. LastFailed(err)
  BY <1>1 DEF ResolveInv
<1>3. PICK k : k = err
  OBVIOUS
<1>4. LastFailed(k)' /\ err' = Handles(k)
  BY <1>1, <1>2, <1>3 DEF LastFailed
<1> QED
  BY <1>1, <1>4 DEF ResolveInv

\* Resolver.Resolve and handleValuesError: every failure ends the pass with
\* its own error, and the log is what happened.
THEOREM ResolveInvariant == Spec => []ResolveInv
<1>1. ResolveInv /\ [Next]_vars => ResolveInv'
  <2> SUFFICES ASSUME ResolveInv, [Next]_vars PROVE ResolveInv'
    OBVIOUS
  <2>1. CASE \E ref \in ValuesReference, answer \in Answer :
               ResolveRef(ref, answer) \/ ResolveRefFails(ref, answer)
    BY <2>1, ResolveRefStep, ResolveRefFailsStep
  <2>2. CASE EndOfValuesFrom
    BY <2>2 DEF EndOfValuesFrom, ResolveInv
  <2>3. CASE \E t \in Inline : ResolveInline(t)
    BY <2>3, ResolveInlineStep
  <2>4. CASE HandleValuesError
    BY <2>4, HandleStep
  <2>5. CASE UNCHANGED vars
    BY <2>5 DEF vars, ResolveInv, LastFailed
  <2> QED
    BY <2>1, <2>2, <2>3, <2>4, <2>5 DEF Next
<1> QED
  BY InitResolve, <1>1, PTL DEF Spec

\* A pass that ends with values skipped no reference for want of an answer:
\* only "not found" is forgiven, and only to an optional reference.
THEOREM NothingSkipped == Spec => []UnavailableNeverSkipped
<1>1. ResolveInv => UnavailableNeverSkipped
  <2> SUFFICES ASSUME ResolveInv, phase = "done", NEW i \in DOMAIN log, "ref" \in DOMAIN log[i]
               PROVE  log[i].answer # [err |-> "unavailable"]
    BY DEF UnavailableNeverSkipped
  <2>1. i \in 1..Len(log) /\ log[i] \in Reads \union Inlined
    BY DEF ResolveInv
  <2>2. PICK ref \in ValuesReference, answer \in Answer : log[i] = Entry(ref, answer)
    BY <2>1, ReadOfEntry
  <2>3. ~IsFailure(resolveOne(ref, answer))
    BY <2>1, <2>2 DEF ResolveInv
  <2> QED
    BY <2>2, <2>3, UnavailableFails, EntryFields
<1> QED
  BY ResolveInvariant, <1>1, PTL

\* No data of another namespace is merged where that is forbidden: the check
\* comes before the read in resolveOne, whatever the ConfigMap holds.
THEOREM ForeignNeverUsed == Spec => []NoForeignValues
<1>1. ResolveInv => NoForeignValues
  <2> SUFFICES ASSUME ResolveInv, NoCrossNamespaceRefs, NEW i \in DOMAIN log,
                      "ref" \in DOMAIN log[i], log[i].ref.foreign
               PROVE  "tree" \notin DOMAIN log[i].gave
    BY DEF NoForeignValues
  <2>1. i \in 1..Len(log) /\ log[i] \in Reads \union Inlined
    BY DEF ResolveInv
  <2>2. PICK ref \in ValuesReference, answer \in Answer : log[i] = Entry(ref, answer)
    BY <2>1, ReadOfEntry
  <2>3. ~Allows(ref)
    BY <2>2, EntryFields DEF Allows
  <2> QED
    BY <2>2, <2>3, AccessDenied, EntryFields, Kinds
<1> QED
  BY ResolveInvariant, <1>1, PTL

\* handleValuesError parks a generator exactly when no answer of the API
\* server could have saved the pass.
THEOREM StallsWhenHopeless == Spec => []StallsOnlyOnSpec
<1>1. ResolveInv => StallsOnlyOnSpec
  <2> SUFFICES ASSUME ResolveInv, phase = "handled" PROVE StallsOnlyOnSpec
    BY DEF StallsOnlyOnSpec
  <2>1. PICK k : LastFailed(k) /\ err = Handles(k)
    BY DEF ResolveInv
  <2>2. PICK ref \in ValuesReference, answer \in Answer :
               /\ log[Len(log)] = Entry(ref, answer)
               /\ IsFailure(resolveOne(ref, answer)) /\ k = resolveOne(ref, answer).fails
    BY <2>1 DEF LastFailed
  <2> DEFINE hopeless == \A a \in Answer : IsFailure(resolveOne(ref, a))
  <2>3. err = "stalled" <=> k = "access"
    BY <2>1 DEF Handles
  <2>4. k = "access" <=> ~Allows(ref)
    BY <2>2, AccessDenied, Kinds
  <2>5. ~Allows(ref) <=> hopeless
    BY AccessDenied, SomeAnswerResolves, Kinds
  <2>6. log[Len(log)].ref = ref
    BY <2>2, EntryFields
  <2>7. err = "stalled" <=> hopeless
    BY <2>3, <2>4, <2>5
  <2> QED
    BY <2>6, <2>7, Zenon DEF StallsOnlyOnSpec
<1> QED
  BY ResolveInvariant, <1>1, PTL

-----------------------------------------------------------------------------
\* What the values are made of.

\* The trees of a log are the recursion they read like.
LEMMA TreesLoop ==
  ASSUME NEW entries, Len(entries) \in Nat
  PROVE  \E f : /\ f[0] = <<>>
                /\ \A i \in 1..Len(entries) :
                     f[i] = IF Contributes(entries[i]) THEN Append(f[i - 1], TreeOf(entries[i])) ELSE f[i - 1]
                /\ TreesOf(entries) = f[Len(entries)]
<1> DEFINE n == Len(entries)
           step(x, i) == IF Contributes(entries[i]) THEN Append(x, TreeOf(entries[i])) ELSE x
           H(f, m) == [i \in 0..m |-> IF i = 0 THEN <<>> ELSE step(f[i - 1], i)]
           K == {m \in Nat : \E f : f = H(f, m)}
           c == CHOOSE f : f = H(f, n)
<1>1. TreesOf(entries) = c[n]
  BY Zenon DEF TreesOf
<1> HIDE DEF step, n
<1>2. 0 \in K
  <2>1. [i \in 0..0 |-> <<>>] = H([i \in 0..0 |-> <<>>], 0)
    OBVIOUS
  <2> QED BY <2>1
<1>3. ASSUME NEW m \in Nat, m \in K PROVE m + 1 \in K
  <2>1. PICK f : f = H(f, m)
    BY <1>3
  <2>2. PICK g : g = [i \in 0..m + 1 |-> IF i = 0 THEN <<>> ELSE step(f[i - 1], i)]
    OBVIOUS
  <2>3. \A i \in 0..m : g[i] = f[i]
    BY <2>1, <2>2
  <2>4. \A i \in 1..m + 1 : i - 1 \in 0..m
    OBVIOUS
  <2>5. \A i \in 1..m + 1 : step(f[i - 1], i) = step(g[i - 1], i)
    BY <2>3, <2>4
  <2>6. g = H(g, m + 1)
    BY <2>2, <2>5
  <2> QED BY <2>6
<1>4. n \in K
  <2> HIDE DEF K
  <2> QED BY <1>2, <1>3, SetInduction, Zenon DEF n
<1>5. c = H(c, n)
  <2>1. \E f : f = H(f, n)
    BY <1>4
  <2> HIDE DEF H
  <2> QED BY <2>1
<1> HIDE DEF c
<1>6. c[0] = <<>> /\ \A i \in 1..n : c[i] = step(c[i - 1], i)
  <2>1. \A i \in 0..n : c[i] = H(c, n)[i]
    <3> HIDE DEF H
    <3> QED BY <1>5
  <2>2. n \in Nat
    BY DEF n
  <2> QED BY <2>1, <2>2
<1> QED BY <1>1, <1>6 DEF n, step

\* One more entry contributes its tree last, or nothing.
LEMMA TreesGrow ==
  ASSUME NEW entries, Len(entries) \in Nat,
         NEW more, Len(more) = Len(entries) + 1,
         \A i \in 1..Len(entries) : more[i] = entries[i]
  PROVE  LET e == more[Len(entries) + 1]
         IN  TreesOf(more) = IF Contributes(e) THEN Append(TreesOf(entries), TreeOf(e))
                             ELSE TreesOf(entries)
<1> DEFINE n == Len(entries)
<1>1. PICK f : /\ f[0] = <<>>
               /\ \A i \in 1..n : f[i] = IF Contributes(entries[i]) THEN Append(f[i - 1], TreeOf(entries[i])) ELSE f[i - 1]
               /\ TreesOf(entries) = f[n]
  BY TreesLoop
<1>2. PICK g : /\ g[0] = <<>>
               /\ \A i \in 1..Len(more) : g[i] = IF Contributes(more[i]) THEN Append(g[i - 1], TreeOf(more[i])) ELSE g[i - 1]
               /\ TreesOf(more) = g[Len(more)]
  BY TreesLoop
<1> DEFINE K == {i \in Nat : i <= n => f[i] = g[i]}
<1>3. 0 \in K
  BY <1>1, <1>2
<1>4. ASSUME NEW i \in Nat, i \in K PROVE i + 1 \in K
  <2> SUFFICES ASSUME i + 1 <= n PROVE f[i + 1] = g[i + 1]
    OBVIOUS
  <2>1. i + 1 \in 1..n /\ i + 1 \in 1..Len(more) /\ (i + 1) - 1 = i /\ f[i] = g[i]
    BY <1>4
  <2> QED BY <1>1, <1>2, <2>1
<1>5. n \in K
  <2> HIDE DEF K, n
  <2> QED BY <1>3, <1>4, SetInduction, Zenon DEF n
<1>6. n + 1 \in 1..Len(more) /\ (n + 1) - 1 = n /\ f[n] = g[n]
  BY <1>5
<1> QED BY <1>1, <1>2, <1>6

\* The trees of a log are a sequence.
LEMMA TreesAreSeq ==
  ASSUME NEW entries, Len(entries) \in Nat
  PROVE  \E S : TreesOf(entries) \in Seq(S)
<1> DEFINE n == Len(entries)
           S == {TreeOf(entries[i]) : i \in 1..n}
<1>1. PICK f : /\ f[0] = <<>>
               /\ \A i \in 1..n : f[i] = IF Contributes(entries[i]) THEN Append(f[i - 1], TreeOf(entries[i])) ELSE f[i - 1]
               /\ TreesOf(entries) = f[n]
  BY TreesLoop
<1> DEFINE K == {i \in Nat : i <= n => f[i] \in Seq(S)}
<1>2. 0 \in K
  <2>1. <<>> \in Seq(S)
    BY EmptySeq
  <2> HIDE DEF S
  <2> QED BY <1>1, <2>1
<1>3. ASSUME NEW i \in Nat, i \in K PROVE i + 1 \in K
  <2> SUFFICES ASSUME i + 1 <= n PROVE f[i + 1] \in Seq(S)
    OBVIOUS
  <2>1. i + 1 \in 1..n /\ (i + 1) - 1 = i /\ f[i] \in Seq(S)
    BY <1>3
  <2>2. TreeOf(entries[i + 1]) \in S
    BY <2>1
  <2>3. f[i + 1] \in {f[i], Append(f[i], TreeOf(entries[i + 1]))}
    BY <1>1, <2>1
  <2> HIDE DEF S
  <2>4. Append(f[i], TreeOf(entries[i + 1])) \in Seq(S)
    BY <2>1, <2>2, AppendProperties, Zenon
  <2> QED BY <2>1, <2>3, <2>4, Zenon
<1>4. n \in K
  <2> HIDE DEF K, n
  <2> QED BY <1>2, <1>3, SetInduction, Zenon DEF n
<1> QED BY <1>1, <1>4

\* resolveOne gives a tree, nothing or a failure.
LEMMA ResolveGives ==
  ASSUME NEW ref \in ValuesReference, NEW answer \in Answer
  PROVE  LET c == resolveOne(ref, answer)
         IN  c = Nothing \/ IsFailure(c) \/ "tree" \in DOMAIN c
<1>1. ASSUME NEW path, NEW t PROVE IsFailure(placeAtPath(path, t)) \/ "tree" \in DOMAIN placeAtPath(path, t)
  BY Kinds DEF placeAtPath, Gives
<1> DEFINE injected == selectContent(answer.data, ref)
<1>2. resolveOne(ref, answer) \in {Fails("access"), Nothing, Fails("fetch"), placeAtPath(ref.targetPath, injected.tree)}
      \/ (IsFailure(injected) /\ resolveOne(ref, answer) = injected)
  BY Zenon DEF resolveOne
<1> HIDE DEF injected
<1> QED BY <1>1, <1>2, Kinds

\* The values so far are the merge of what the log contributed.
MergedInv == IsTree(out) /\ ValuesLastWins

\* An entry that contributes nothing changes nothing.
LEMMA NothingMerged ==
  ASSUME ResolveInv, MergedInv, NEW e \in Reads \union Inlined, ~Contributes(e),
         log' = Append(log, e), out' = out
  PROVE  MergedInv'
<1>1. /\ Len(log) \in Nat /\ Len(log') = Len(log) + 1 /\ log'[Len(log) + 1] = e
      /\ \A i \in 1..Len(log) : log'[i] = log[i]
  <2>1. log \in Seq(Reads \union Inlined)
    BY DEF ResolveInv
  <2> QED BY <2>1, AppendProperties
<1>2. TreesOf(log') = TreesOf(log)
  BY <1>1, TreesGrow
<1> QED BY <1>2 DEF MergedInv, ValuesLastWins, Contributions

\* An entry that contributes is merged on top.
LEMMA TreeMerged ==
  ASSUME ResolveInv, MergedInv, NEW e \in Reads \union Inlined, Contributes(e),
         IsTree(TreeOf(e)), log' = Append(log, e), out' = deepMerge(out, TreeOf(e))
  PROVE  MergedInv'
<1> DEFINE ts == TreesOf(log)
           b  == TreeOf(e)
           more == TreesOf(log')
<1>1. /\ Len(log) \in Nat /\ Len(log') = Len(log) + 1 /\ log'[Len(log) + 1] = e
      /\ \A i \in 1..Len(log) : log'[i] = log[i]
  <2>1. log \in Seq(Reads \union Inlined)
    BY DEF ResolveInv
  <2> QED BY <2>1, AppendProperties
<1>2. more = Append(ts, b)
  BY <1>1, TreesGrow
<1>3. PICK S : ts \in Seq(S)
  BY <1>1, TreesAreSeq
<1> HIDE DEF ts, b, more
<1>4. /\ Len(ts) \in Nat /\ Len(more) = Len(ts) + 1 /\ more[Len(ts) + 1] = b
      /\ \A i \in 1..Len(ts) : more[i] = ts[i]
  <2>1. ts \in Seq(S \union {b}) /\ b \in S \union {b}
    BY <1>3, SeqMonotonic
  <2> QED BY <1>2, <2>1, AppendProperties
<1>5. IsTree(out) /\ IsMergeOf(out, ts)
  BY DEF MergedInv, ValuesLastWins, Contributions, ts
<1>6. IsTree(deepMerge(out, b)) /\ IsMergeOf(deepMerge(out, b), more)
  BY <1>4, <1>5, MergeOfOneMore DEF b
<1> QED BY <1>6 DEF MergedInv, ValuesLastWins, Contributions, b, more

\* At every path `.values` is what the last contribution that says something
\* about it says, for any number of references and any trees up to MaxDepth
\* (Resolve, deepMerge).
THEOREM LastWins == Spec => []ValuesLastWins
<1>1. Init => MergedInv
  <2> SUFFICES ASSUME Init PROVE MergedInv
    OBVIOUS
  <2>1. log = <<>> /\ out = Empty /\ Len(<<>>) = 0
    BY DEF Init
  <2>2. TreesOf(<<>>) = <<>>
    BY <2>1, TreesLoop
  <2> QED BY <2>1, <2>2, MergeOfNone DEF MergedInv, ValuesLastWins, Contributions
<1>2. ResolveInv /\ MergedInv /\ [Next]_vars => MergedInv'
  <2> SUFFICES ASSUME ResolveInv, MergedInv, [Next]_vars PROVE MergedInv'
    OBVIOUS
  <2>1. ASSUME NEW ref \in ValuesReference, NEW answer \in Answer, ResolveRef(ref, answer)
        PROVE  MergedInv'
    <3> DEFINE e == Entry(ref, answer)
               c == resolveOne(ref, answer)
    <3>1. /\ log' = Append(log, e) /\ ~IsFailure(c)
          /\ out' = IF c = Nothing THEN out ELSE Merged(out, c.tree)
      BY <2>1, Zenon DEF ResolveRef
    <3>2. /\ e \in Reads \union Inlined
          /\ Contributes(e) <=> "tree" \in DOMAIN c
          /\ TreeOf(e) = c.tree
      BY EntryFields DEF Reads, Contributes, TreeOf
    <3>3. "tree" \in DOMAIN c => IsTree(c.tree)
      BY ContributionsAssumption
    <3>4. c = Nothing \/ "tree" \in DOMAIN c
      BY <3>1, ResolveGives
    <3>5. c = Nothing => "tree" \notin DOMAIN c
      BY Kinds
    <3> HIDE DEF c, e
    <3>6. CASE c = Nothing
      BY <3>1, <3>2, <3>5, <3>6, NothingMerged
    <3>7. CASE c # Nothing
      BY <3>1, <3>2, <3>3, <3>4, <3>7, TreeMerged DEF Merged
    <3> QED BY <3>6, <3>7
  <2>2. ASSUME NEW ref \in ValuesReference, NEW answer \in Answer, ResolveRefFails(ref, answer)
        PROVE  MergedInv'
    <3> DEFINE e == Entry(ref, answer)
               c == resolveOne(ref, answer)
    <3>1. log' = Append(log, e) /\ IsFailure(c) /\ out' = out
      BY <2>2, Zenon DEF ResolveRefFails
    <3>2. "tree" \notin DOMAIN c
      <4>1. ASSUME NEW path, NEW t PROVE placeAtPath(path, t) = Fails("shape") \/ \E s : placeAtPath(path, t) = Gives(s)
        BY DEF placeAtPath
      <4>2. ASSUME NEW data PROVE selectContent(data, ref) \in {Fails("fetch"), Fails("decode")} \/ \E s : selectContent(data, ref) = Gives(s)
        BY DEF selectContent
      <4> DEFINE injected == selectContent(answer.data, ref)
      <4>3. c \in {Fails("access"), Nothing, Fails("fetch"), placeAtPath(ref.targetPath, injected.tree)}
            \/ (IsFailure(injected) /\ c = injected)
        BY Zenon DEF resolveOne
      <4> HIDE DEF injected, c
      <4>4. injected \in {Fails("fetch"), Fails("decode")} \/ \E s : injected = Gives(s)
        BY <4>2 DEF injected
      <4> QED BY <3>1, <4>1, <4>3, <4>4, Kinds
    <3>3. e \in Reads \union Inlined /\ ~Contributes(e)
      BY <3>2, EntryFields DEF Reads, Contributes
    <3> HIDE DEF c, e
    <3> QED BY <3>1, <3>3, NothingMerged
  <2>3. ASSUME NEW t \in Inline, ResolveInline(t) PROVE MergedInv'
    <3> DEFINE e == [inline |-> t]
    <3>1. log' = Append(log, e) /\ out' = IF t = Null THEN out ELSE Merged(out, t)
      BY <2>3, Zenon DEF ResolveInline
    <3>2. /\ e \in Reads \union Inlined
          /\ Contributes(e) <=> t # Null
          /\ TreeOf(e) = t
      BY DEF Inlined, Contributes, TreeOf
    <3>3. IsTree(t)
      BY ContributionsAssumption
    <3> HIDE DEF e
    <3>4. CASE t = Null
      BY <3>1, <3>2, <3>4, NothingMerged
    <3>5. CASE t # Null
      BY <3>1, <3>2, <3>3, <3>5, TreeMerged DEF Merged
    <3> QED BY <3>4, <3>5
  <2>4. CASE EndOfValuesFrom \/ HandleValuesError \/ UNCHANGED vars
    <3>1. log' = log /\ out' = out
      BY <2>4 DEF EndOfValuesFrom, HandleValuesError, vars
    <3> QED BY <3>1 DEF MergedInv, ValuesLastWins, Contributions
  <2> QED BY <2>1, <2>2, <2>3, <2>4 DEF Next
<1>3. MergedInv => ValuesLastWins
  BY DEF MergedInv
<1> QED BY ResolveInvariant, <1>1, <1>2, <1>3, PTL DEF Spec
=============================================================================
