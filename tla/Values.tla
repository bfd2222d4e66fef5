------------------------------- MODULE Values -------------------------------
(***************************************************************************)
(* Resolver.Resolve: the `.values` tree of one pass, from spec.valuesFrom  *)
(* in spec order and then the inline spec.values, and handleValuesError,   *)
(* which decides what a failure does to the pass.                          *)
(*                                                                         *)
(* ConfigMaps are read straight from the API server, one after the other,  *)
(* while anybody may write them: every read gets an answer of its own from *)
(* Answer, whatever an earlier read saw.  References are revealed as they  *)
(* are resolved, which enumerates every valuesFrom up to MaxRefs.          *)
(***************************************************************************)
EXTENDS Trees, FiniteSets

CONSTANTS Text,         \* the texts a ConfigMap entry can hold
          Decoded,      \* [Text -> tree or Undecodable]: yaml.Unmarshal
          DataKey,      \* the keys of ConfigMap data
          TargetPath,   \* the target paths in use, <<>> for none
          Inline,       \* the trees spec.values can hold
          NoCrossNamespaceRefs,
          MaxRefs       \* bound on the length of valuesFrom

ASSUME ResolverAssumption == NoCrossNamespaceRefs \in BOOLEAN /\ MaxRefs \in Nat

\* A ConfigMap can hold a map.
ASSUME TextAssumption == \E t \in Text : IsMap(Decoded[t])

VARIABLES log,    \* what has been asked, answered and contributed so far
          out,    \* the tree merged so far
          phase,  \* "from", "inline", "done", "failed"
          err     \* the kind of error Resolve returned, then what became of it

vars == <<log, out, phase, err>>

Undecodable == [undecodable |-> TRUE]

\* A values reference; a key of "" is an absent valuesKey.
ValuesReference == [foreign : BOOLEAN, valuesKey : DataKey \union {""},
                    targetPath : TargetPath, optional : BOOLEAN]

\* What the API server answers: an error, or the data of the ConfigMap.
Data   == UNION {[ks -> Text] : ks \in SUBSET DataKey}
Answer == [err : {"notfound", "unavailable"}] \union [data : Data]

-----------------------------------------------------------------------------
\* A contribution: a tree to merge, nothing, or an error.
Gives(t) == [tree |-> t]
Nothing  == [nothing |-> TRUE]
Fails(k) == [fails |-> k]
IsFailure(c) == "fails" \in DOMAIN c

\* selectContent: one key decoded, or every entry as a string.
selectContent(data, ref) ==
  IF ref.valuesKey = "" THEN Gives(Map([k \in DOMAIN data |-> Leaf(data[k])]))
  ELSE IF ref.valuesKey \notin DOMAIN data THEN Fails("fetch")
  ELSE IF Decoded[data[ref.valuesKey]] = Undecodable THEN Fails("decode")
  ELSE Gives(Decoded[data[ref.valuesKey]])

\* The tree wrapped in one map per segment of the path.
Wrapped(path, t) == FoldRight(LAMBDA k, acc : Map([x \in {k} |-> acc]), path, t)

\* placeAtPath: at the root only a map can be merged.
placeAtPath(path, t) ==
  IF path # <<>> THEN Gives(Wrapped(path, t))
  ELSE IF IsMap(t) THEN Gives(t) ELSE Fails("shape")

\* Mutant: an optional reference forgives every failed read.
ForgivesAll(ref, answer) == ref.optional

\* `if apierrors.IsNotFound(err) && ref.Optional`
Forgives(ref, answer) == answer.err = "notfound" /\ ref.optional

\* Mutant: the namespace is not compared.
AllowsAny(ref) == TRUE

\* `if r.NoCrossNamespaceRefs && ns != mgNamespace`
Allows(ref) == ~(NoCrossNamespaceRefs /\ ref.foreign)

\* resolveOne.  A null at the root contributes nothing, a null at a target
\* path is placed there and clears what it finds.
resolveOne(ref, answer) ==
  IF ~Allows(ref) THEN Fails("access")
  ELSE IF "err" \in DOMAIN answer
  THEN IF Forgives(ref, answer) THEN Nothing ELSE Fails("fetch")
  ELSE LET injected == selectContent(answer.data, ref)
       IN  IF IsFailure(injected)
           THEN IF ref.optional THEN Nothing ELSE injected
           ELSE IF injected.tree = Null /\ ref.targetPath = <<>> THEN Nothing
           ELSE placeAtPath(ref.targetPath, injected.tree)

\* MaxDepth bounds what is merged.
ASSUME ContributionsAssumption ==
  /\ \A ref \in ValuesReference, answer \in Answer :
       LET c == resolveOne(ref, answer) IN "tree" \in DOMAIN c => IsTree(c.tree)
  /\ \A t \in Inline : IsTree(t)

-----------------------------------------------------------------------------
Init == log = <<>> /\ out = Empty /\ phase = "from" /\ err = "none"

Entry(ref, answer) ==
  [ref |-> ref, answer |-> answer, gave |-> resolveOne(ref, answer)]

\* Mutant: what is already in the tree wins.
MergedKeepingFirst(acc, contrib) == deepMerge(contrib, acc)

\* `out = deepMerge(out, contrib)`
Merged(acc, contrib) == deepMerge(acc, contrib)

\* One reference of valuesFrom, contributing or skipped.
ResolveRef(ref, answer) ==
  /\ phase = "from"
  /\ Len(log) < MaxRefs
  /\ LET c == resolveOne(ref, answer)
     IN  /\ ~IsFailure(c)
         /\ out' = IF c = Nothing THEN out ELSE Merged(out, c.tree)
  /\ log' = Append(log, Entry(ref, answer))
  /\ UNCHANGED <<phase, err>>

ResolveRefFails(ref, answer) ==
  /\ phase = "from"
  /\ Len(log) < MaxRefs
  /\ IsFailure(resolveOne(ref, answer))
  /\ log' = Append(log, Entry(ref, answer))
  /\ phase' = "failed"
  /\ err' = resolveOne(ref, answer).fails
  /\ UNCHANGED out

EndOfValuesFrom == /\ phase = "from"
                   /\ phase' = "inline"
                   /\ UNCHANGED <<log, out, err>>

\* decodeInline: an object is merged last, null is nothing, validateSpec
\* rejects the rest before a pass gets here.
ResolveInline(t) ==
  /\ phase = "inline"
  /\ t = Null \/ IsMap(t)
  /\ out' = IF t = Null THEN out ELSE Merged(out, t)
  /\ log' = Append(log, [inline |-> t])
  /\ phase' = "done"
  /\ UNCHANGED err

\* Mutant: what only a spec change can fix is retried, and the reverse.
HandlesAsFetchError(kind) == IF kind = "fetch" THEN "requeued" ELSE "stalled"

\* handleValuesError: an access error stalls, every other one is retried.
Handles(kind) == IF kind = "access" THEN "stalled" ELSE "requeued"

HandleValuesError == /\ phase = "failed"
                     /\ err' = Handles(err)
                     /\ phase' = "handled"
                     /\ UNCHANGED <<log, out>>

Next == \/ \E ref \in ValuesReference, answer \in Answer :
             ResolveRef(ref, answer) \/ ResolveRefFails(ref, answer)
        \/ EndOfValuesFrom
        \/ \E t \in Inline : ResolveInline(t)
        \/ HandleValuesError

Spec == Init /\ [][Next]_vars

-----------------------------------------------------------------------------
(***************************************************************************)
(* Properties.                                                             *)
(***************************************************************************)
\* Whether an entry of the log contributed a tree, and which.
Contributes(e) == IF "inline" \in DOMAIN e THEN e.inline # Null ELSE "tree" \in DOMAIN e.gave
TreeOf(e)      == IF "inline" \in DOMAIN e THEN e.inline ELSE e.gave.tree

\* What contributed, in the order of precedence: references in spec order,
\* the inline values last.
TreesOf(entries) ==
  LET upTo[n \in 0..Len(entries)] ==
        IF n = 0 THEN <<>>
        ELSE IF Contributes(entries[n]) THEN Append(upTo[n - 1], TreeOf(entries[n]))
        ELSE upTo[n - 1]
  IN  upTo[Len(entries)]

Contributions == TreesOf(log)

\* At every path `.values` holds what the last contribution that decides it
\* says: later references override earlier ones, the inline values override
\* all of them, and a null placed at a path clears what was below it.
ValuesLastWins == IsMergeOf(out, Contributions)

\* `.values` is never built as if a ConfigMap were absent when the API server
\* only failed to answer: a pass that ends with values has read every
\* ConfigMap it names or been told that it does not exist.
UnavailableNeverSkipped ==
  phase = "done" =>
    \A i \in DOMAIN log : "ref" \in DOMAIN log[i] =>
      log[i].answer # [err |-> "unavailable"]

\* With NoCrossNamespaceRefs no data of another namespace reaches `.values`.
NoForeignValues ==
  NoCrossNamespaceRefs =>
    \A i \in DOMAIN log : "ref" \in DOMAIN log[i] /\ log[i].ref.foreign =>
      "tree" \notin DOMAIN log[i].gave

\* A pass is parked until its spec changes only when nothing but its spec can
\* change the outcome; where another answer of the API server would do, it is
\* tried again.
StallsOnlyOnSpec ==
  phase = "handled" =>
    LET last == log[Len(log)]
        hopeless == \A a \in Answer : IsFailure(resolveOne(last.ref, a))
    IN  err = "stalled" <=> hopeless
=============================================================================
