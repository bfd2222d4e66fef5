------------------------------ MODULE Pipeline ------------------------------
(***************************************************************************)
(* spec.pipeline: Compile validates the steps in spec order and Run        *)
(* evaluates them in the same order, each step reading the outputs of the  *)
(* steps before it.  The spec is revealed one step at a time as it is      *)
(* compiled, which enumerates every spec up to MaxSteps; a spec is fixed   *)
(* before Compile starts, and Compile never looks ahead, so nothing else   *)
(* differs.                                                                *)
(*                                                                         *)
(* Template fragments (keyExpr, where, expr) are named by what they render *)
(* to; the fragment "unparsable" is one text/template rejects, "none" an   *)
(* empty field.  A fragment is handed the items and the outputs in scope   *)
(* themselves, not copies, and Sprig's `set` is among its functions: what  *)
(* it sets a key of is the `sets` of its step.                             *)
(***************************************************************************)
EXTENDS Trees, FiniteSets

CONSTANTS StepName,   \* the step names a spec author chooses from
          ValuesKey,  \* the reserved name
          Alias,      \* the declared source aliases
          Undeclared, \* an alias spec.sources does not declare
          FileOrder,  \* the files a glob can match, in sorted order
          Files,      \* [Alias -> [file -> tree or Undecodable]]
          MaxSteps    \* bound on the length of a spec

ASSUME NamesAssumption == /\ StepName \cap {ValuesKey, "nothing", "item"} = {}
                          /\ Undeclared \notin Alias
ASSUME StepsAssumption == MaxSteps \in Nat /\ MaxSteps <= MaxDepth

\* FileOrder names every file once, and names the positions of lists too.  A
\* step nests its input at most one map deeper, so that what MaxSteps steps
\* make of a file stays within MaxDepth.
IsSequence(s) == s \in Seq(Range(s))

ASSUME FilesAssumption ==
  /\ IsSequence(FileOrder) /\ IsInjective(FileOrder)
  /\ FileOrder # <<>> /\ Range(FileOrder) \subseteq Key
  /\ \A a \in Alias :
       /\ DOMAIN Files[a] \subseteq Range(FileOrder)
       /\ \A f \in DOMAIN Files[a] :
            /\ IsTreeOf(Files[a][f], MaxDepth - MaxSteps)
            /\ IsList(Files[a][f]) =>
                 /\ ~IsMap(Files[a][f])
                 /\ IsSequence(Files[a][f].list)
                 /\ Len(Files[a][f].list) <= Len(FileOrder)

VARIABLES spec,     \* the steps compiled so far, then the compiled evaluator
          phase,    \* "compile", "rejected", "run", "failed", "done"
          outputs,  \* scope.Outputs
          objects,  \* for each output, which object each of its items is
          pc,       \* the step Run is about to evaluate
          err       \* why Run stopped: "none" or the kind of error

vars == <<spec, phase, outputs, objects, pc, err>>

-----------------------------------------------------------------------------
(***************************************************************************)
(* The steps a spec can hold.  load reads the files of one alias: the      *)
(* first one by its literal path, or all of them through a glob.           *)
(***************************************************************************)
KeyExpr == {"distinct", "constant", "blank", "shape"}
Where   == {"isMap", "blank", "word"}
Expr    == {"self", "wrap", "undecodable"}

Loads == [verb : {"load"}, name : StepName \union {ValuesKey},
          alias : Alias \union {Undeclared}, glob : BOOLEAN, asMap : BOOLEAN,
          expr : KeyExpr \union {"none", "unparsable"}, sets : {"nothing"}]

\* filter, map and group read one earlier step through one fragment.
Iterations ==
  UNION {[verb : {v[1]}, name : StepName \union {ValuesKey}, from : StepName,
          expr : v[2] \union {"none", "unparsable"}, sets : {"nothing"}]
           : v \in {<<"filter", Where>>, <<"map", Expr>>, <<"group", KeyExpr>>}}

Merges == [verb : {"merge"}, name : StepName \union {ValuesKey},
           from : SeqOf(StepName, 2) \ {<<>>}, sets : {"nothing"}]

\* Steps whose fragment also sets a key, of each item it is rendered for or of
\* the output of a step it names, whether that step is an earlier one or not.
\* (Setting keys of the very map that is being iterated over is left out.)
Setters ==
  [verb : {"load"}, name : StepName, alias : Alias, glob : {TRUE}, asMap : {TRUE},
   expr : {"distinct"}, sets : StepName]
  \union
  {ps \in UNION {[verb : {v[1]}, name : StepName, from : StepName,
                  expr : {v[2]}, sets : StepName \union {"item"}]
                   : v \in {<<"filter", "isMap">>, <<"map", "self">>, <<"group", "distinct">>}}
     : ps.sets # ps.from}

PipelineStep == Loads \union Iterations \union Merges \union Setters

\* The names of earlier steps a step reads.
Reads(ps) == CASE ps.verb = "load"  -> {}
               [] ps.verb = "merge" -> {ps.from[i] : i \in DOMAIN ps.from}
               [] OTHER             -> {ps.from}

-----------------------------------------------------------------------------
(***************************************************************************)
(* Compile.                                                                *)
(***************************************************************************)
\* newItemTemplate / newKeyExprEvaluator: an empty or malformed fragment is
\* refused when the step is compiled.
newItemTemplate(e) == e \notin {"none", "unparsable"}

compileLoad(ls) ==
  /\ ls.alias \in Alias
  /\ IF ls.asMap THEN newItemTemplate(ls.expr) ELSE ls.expr = "none"

\* compileFilter, compileMap, compileGroup: one earlier step, one fragment.
compileIteration(ps, seen) == ps.from \in seen /\ newItemTemplate(ps.expr)

\* Every source is an earlier step and none is named twice.
compileMerge(ms, seen) ==
  /\ \A i \in DOMAIN ms.from : ms.from[i] \in seen
  /\ IsInjective(ms.from)

compileStep(ps, seen) ==
  CASE ps.verb = "load"  -> compileLoad(ps)
    [] ps.verb = "merge" -> compileMerge(ps, seen)
    [] OTHER             -> compileIteration(ps, seen)

Seen(steps) == {steps[i].name : i \in DOMAIN steps}

\* Mutant: the name is recorded before the step is compiled.
CompilesEagerly(ps) ==
  /\ ps.name \notin Seen(spec)
  /\ ps.name # ValuesKey
  /\ compileStep(ps, Seen(spec) \union {ps.name})

\* Mutant: a second step of the same name is accepted.
CompilesDuplicates(ps) ==
  ps.name # ValuesKey /\ compileStep(ps, Seen(spec))

\* The loop body of Compile for one step of the spec.
Compiles(ps) ==
  /\ ps.name \notin Seen(spec)
  /\ ps.name # ValuesKey
  /\ compileStep(ps, Seen(spec))

Compile(ps) ==
  /\ phase = "compile"
  /\ Len(spec) < MaxSteps
  /\ Compiles(ps)
  /\ spec' = Append(spec, ps)
  /\ UNCHANGED <<phase, outputs, objects, pc, err>>

Reject(ps) ==
  /\ phase = "compile"
  /\ Len(spec) < MaxSteps
  /\ ~Compiles(ps)
  /\ phase' = "rejected"
  /\ UNCHANGED <<spec, outputs, objects, pc, err>>

-----------------------------------------------------------------------------
(***************************************************************************)
(* Evaluating one step: a result is [ok |-> value] or [err |-> kind].      *)
(***************************************************************************)
Ok(v)   == [ok |-> v]
Err(k)  == [err |-> k]
IsOk(r) == "ok" \in DOMAIN r

\* keyExprEvaluator.eval: the rendered key, trimmed; an empty one is an
\* error.  Files and list positions are told apart by name, so "distinct"
\* (the path, the index) never repeats; "shape" keys by the kind of value.
keyOf(e, name, value) ==
  CASE e = "distinct" -> Ok(name)
    [] e = "constant" -> Ok(FileOrder[1])
    [] e = "shape"    -> Ok(FileOrder[IF IsMap(value) THEN 1 ELSE Len(FileOrder)])
    [] e = "blank"    -> Err("expr")

\* A keyExpr of a load sees only the path: `.value` is a missing key there.
loadKeyOf(e, file) ==
  IF e = "shape" THEN Err("expr") ELSE keyOf(e, file, Null)

\* evalPredicate and truthyString: blank is false, a word is an error.
evalPredicate(e, value) ==
  CASE e = "isMap" -> Ok(IsMap(value))
    [] e = "blank" -> Ok(FALSE)
    [] e = "word"  -> Err("expr")

\* renderItem: the rendered text is decoded as YAML again.
renderItem(e, value) ==
  CASE e = "self"        -> Ok(value)
    [] e = "wrap"        -> Ok(Map([k \in {FileOrder[1]} |-> value]))
    [] e = "undecodable" -> Err("expr")

\* readDecode: a file the decoder rejects, or one above the size limit, fails.
Undecodable == [undecodable |-> TRUE]

readDecode(alias, file) ==
  IF Files[alias][file] = Undecodable THEN Err("decode") ELSE Ok(Files[alias][file])

\* The items of a list that are wanted, in their order.
kept(list, wanted) ==
  LET after[i \in 0..Len(list)] ==
        IF i = 0 THEN <<>>
        ELSE IF wanted[i] THEN Append(after[i - 1], list[i]) ELSE after[i - 1]
  IN  after[Len(list)]

\* expandGlob: the matching files that exist, sorted.
expandGlob(ls) ==
  IF ls.glob
  THEN kept(FileOrder, [i \in DOMAIN FileOrder |-> FileOrder[i] \in DOMAIN Files[ls.alias]])
  ELSE IF FileOrder[1] \in DOMAIN Files[ls.alias] THEN <<FileOrder[1]>> ELSE <<>>

\* Mutant: a key that is already there is overwritten.
OverwriteEntry(acc, key, value) ==
  IF ~IsOk(acc) \/ ~IsOk(key) THEN (IF IsOk(acc) THEN key ELSE acc)
  ELSE Ok([k \in DOMAIN acc.ok \union {key.ok} |->
             IF k = key.ok THEN value ELSE acc.ok[k]])

\* One entry of the map a load builds: a key that is taken is an error.
AddEntry(acc, key, value) ==
  IF ~IsOk(acc) THEN acc
  ELSE IF ~IsOk(key) THEN key
  ELSE IF key.ok \in DOMAIN acc.ok THEN Err("duplicate")
  ELSE Ok([k \in DOMAIN acc.ok \union {key.ok} |->
             IF k = key.ok THEN value ELSE acc.ok[k]])

\* The loop over the matches that builds a map.
entries(ls, matches, values) ==
  LET after[i \in 0..Len(matches)] ==
        IF i = 0 THEN Ok(<<>>)
        ELSE AddEntry(after[i - 1], loadKeyOf(ls.expr, matches[i]), values[i].ok)
  IN  after[Len(matches)]

\* loadStep.Eval.  `as` and keyExpr are ignored for a literal path.
evalLoad(ls) ==
  LET matches == expandGlob(ls)
      values  == [i \in DOMAIN matches |-> readDecode(ls.alias, matches[i])]
  IN  IF ~ls.glob
      THEN IF Len(matches) = 1 THEN values[1] ELSE Err("missing")
      ELSE IF \E i \in DOMAIN values : ~IsOk(values[i]) THEN Err("decode")
      ELSE IF ls.asMap
      THEN LET r == entries(ls, matches, values)
           IN  IF IsOk(r) THEN Ok(Map(r.ok)) ELSE r
      ELSE Ok(List([i \in DOMAIN values |-> values[i].ok]))

\* The items of a list or of a map, as a function of index or key.
Items(v) == IF IsList(v) THEN v.list ELSE v.map
IsCollection(v) == IsList(v) \/ IsMap(v)

\* The wanted items of a collection: list in, list out; map in, map out.
selected(v, wanted) ==
  IF IsList(v) THEN List(kept(v.list, wanted))
  ELSE Map([k \in {j \in DOMAIN v.map : wanted[j]} |-> v.map[k]])

predicates(ps, v) == [i \in DOMAIN Items(v) |-> evalPredicate(ps.expr, Items(v)[i])]
holds(ps, v)      == [i \in DOMAIN Items(v) |-> predicates(ps, v)[i].ok]

\* filterStep.Eval
evalFilter(ps, v) ==
  IF ~IsCollection(v) THEN Err("shape")
  ELSE IF \E i \in DOMAIN Items(v) : ~IsOk(predicates(ps, v)[i]) THEN Err("expr")
  ELSE Ok(selected(v, holds(ps, v)))

\* mapStep.Eval
evalMap(ps, v) ==
  IF ~IsCollection(v) THEN Err("shape")
  ELSE LET new == [i \in DOMAIN Items(v) |-> renderItem(ps.expr, Items(v)[i])]
       IN  IF \E i \in DOMAIN new : ~IsOk(new[i]) THEN Err("expr")
           ELSE LET items == [i \in DOMAIN new |-> new[i].ok]
                IN  Ok(IF IsList(v) THEN List(items) ELSE Map(items))

\* Mutant: a bucket holds only the item added last.
ReplaceBucket(result, key, item) ==
  [k \in DOMAIN result \union {key} |->
     IF k = key THEN List(<<item>>) ELSE result[k]]

\* `bucket, _ := result[key].([]any); result[key] = append(bucket, item)`
AppendToBucket(result, key, item) ==
  [k \in DOMAIN result \union {key} |->
     IF k # key THEN result[k]
     ELSE IF key \in DOMAIN result THEN List(Append(result[key].list, item))
     ELSE List(<<item>>)]

\* The items of a list, each in the bucket of its key.
buckets(key, list) ==
  LET after[i \in 0..Len(list)] ==
        IF i = 0 THEN <<>> ELSE AppendToBucket(after[i - 1], key[i], list[i])
  IN  after[Len(list)]

\* groupStep.Eval: lists only.  Positions are named by the files' names.
groupKey(ps, list, i) == keyOf(ps.expr, FileOrder[i], list[i])
groupKeys(ps, list)   == [i \in DOMAIN list |-> groupKey(ps, list, i).ok]

evalGroup(ps, v) ==
  IF ~IsList(v) THEN Err("shape")
  ELSE IF \E i \in DOMAIN v.list : ~IsOk(groupKey(ps, v.list, i)) THEN Err("expr")
  ELSE Ok(Map(buckets(groupKeys(ps, v.list), v.list)))

\* mergeStep.Eval: maps only, left to right.
merged(from, outs) ==
  LET after[i \in 0..Len(from)] ==
        IF i = 0 THEN Empty ELSE deepMerge(after[i - 1], outs[from[i]])
  IN  after[Len(from)]

evalMerge(ps, outs) ==
  IF \E i \in DOMAIN ps.from : ~IsMap(outs[ps.from[i]]) THEN Err("shape")
  ELSE Ok(merged(ps.from, outs))

\* Step.Eval: a name that is not in scope is "not defined".
Eval(ps, outs) ==
  IF \E n \in Reads(ps) : n \notin DOMAIN outs THEN Err("undefined")
  ELSE CASE ps.verb = "load"   -> evalLoad(ps)
         [] ps.verb = "filter" -> evalFilter(ps, outs[ps.from])
         [] ps.verb = "map"    -> evalMap(ps, outs[ps.from])
         [] ps.verb = "group"  -> evalGroup(ps, outs[ps.from])
         [] ps.verb = "merge"  -> evalMerge(ps, outs)

-----------------------------------------------------------------------------
(***************************************************************************)
(* Which outputs share their items, and what setting a key does to them.   *)
(* objects[n] has an object where outputs[n] has an item: filter and group *)
(* pass the items of their input on, the other verbs make new ones.        *)
(***************************************************************************)
Object(name, at) == [object |-> <<name, at>>]
IsObject(o)      == "object" \in DOMAIN o

\* The objects among the items of an output, and in the buckets of a group.
ObjectsIn(o) ==
  LET items   == IF IsCollection(o) THEN Range(Items(o)) ELSE {}
      nested == UNION {Range(b.list) : b \in {c \in items : IsList(c)}}
  IN  {x \in items \union nested : IsObject(x)}

Fresh(name, v) ==
  IF IsList(v) THEN List([i \in DOMAIN v.list |-> Object(name, i)])
  ELSE IF IsMap(v) THEN Map([k \in DOMAIN v.map |-> Object(name, k)])
  ELSE Null

\* Mutant: merge passes on what the last source holds instead of cloning it.
SharesMerged(ps, outs, v) ==
  IF ps.verb = "merge" THEN objects[ps.from[Len(ps.from)]] ELSE Fresh(ps.name, v)

\* The objects of the output v that step ps makes of the outputs outs.
NewObjects(ps, outs, v) ==
  CASE ps.verb = "filter" -> selected(objects[ps.from], holds(ps, outs[ps.from]))
    [] ps.verb = "group"  -> Map(buckets(groupKeys(ps, outs[ps.from].list),
                                         objects[ps.from].list))
    [] OTHER              -> Fresh(ps.name, v)

\* Sprig's `set` on a map: the key is added or replaced in place.
set(v) == Map([k \in DOMAIN v.map \union {FileOrder[1]} |->
                 IF k = FileOrder[1] THEN Leaf("set") ELSE v.map[k]])

\* The output v, its objects o, once a key of each object in objs was set.
itemAfter(v, o, objs) == IF o \in objs /\ IsMap(v) THEN set(v) ELSE v

bucketAfter(v, o, objs) ==
  IF IsList(v) /\ IsList(o)
  THEN List([j \in DOMAIN v.list |-> itemAfter(v.list[j], o.list[j], objs)])
  ELSE itemAfter(v, o, objs)

outputAfter(v, o, objs) ==
  LET items == [i \in DOMAIN Items(v) |-> bucketAfter(Items(v)[i], Items(o)[i], objs)]
  IN  IF ~IsCollection(v) \/ ObjectsIn(o) \intersect objs = {} THEN v
      ELSE IF IsList(v) THEN List(items) ELSE Map(items)

\* A fragment is rendered once for each item, or for each file of a load
\* `as: map`: not at all when there is none.
Renders(ps) ==
  CASE ps.verb = "load"  -> /\ ps.glob /\ ps.asMap
                            /\ DOMAIN Files[ps.alias] # {}
                            /\ Undecodable \notin Range(Files[ps.alias])
    [] ps.verb = "merge" -> FALSE
    [] OTHER             -> LET v == outputs[ps.from]
                            IN  /\ IF ps.verb = "group" THEN IsList(v) ELSE IsCollection(v)
                                /\ DOMAIN Items(v) # {}

Sets(ps) == ps.sets # "nothing" /\ Renders(ps)

\* `set` takes a map, and naming an output that is not in scope is an error
\* (missingkey=error).
CanSet(ps) ==
  IF ps.sets = "item"
  THEN \A i \in DOMAIN Items(outputs[ps.from]) : IsMap(Items(outputs[ps.from])[i])
  ELSE ps.sets \in DOMAIN outputs /\ IsMap(outputs[ps.sets])

\* The outputs in scope, and their objects, once the fragments of step ps have
\* been rendered.
OutputsAfter(ps) ==
  IF ~Sets(ps) THEN outputs
  ELSE IF ps.sets = "item"
  THEN [n \in DOMAIN outputs |->
          outputAfter(outputs[n], objects[n], ObjectsIn(objects[ps.from]))]
  ELSE [outputs EXCEPT ![ps.sets] = set(@)]

ObjectsAfter(ps) ==
  IF ~Sets(ps) \/ ps.sets = "item" THEN objects
  ELSE [objects EXCEPT ![ps.sets] =
          Map([k \in DOMAIN @.map \union {FileOrder[1]} |->
                 IF k = FileOrder[1] THEN Null ELSE @.map[k]])]

\* What step ps evaluates to; its fragments are rendered on the way.
Result(ps) ==
  IF \A n \in Reads(ps) : n \in DOMAIN outputs
  THEN IF Sets(ps) /\ ~CanSet(ps) THEN Err("expr") ELSE Eval(ps, OutputsAfter(ps))
  ELSE Err("undefined")

-----------------------------------------------------------------------------
(***************************************************************************)
(* Run.                                                                    *)
(***************************************************************************)
Init == /\ spec = <<>>
        /\ phase = "compile"
        /\ outputs = <<>>
        /\ objects = <<>>
        /\ pc = 1
        /\ err = "none"

\* Mutant: the loop of Run starts one step early.
StartRunFromZero == /\ phase = "compile"
                    /\ spec # <<>>
                    /\ phase' = "run"
                    /\ pc' = 0
                    /\ UNCHANGED <<spec, outputs, objects, err>>

\* runPipeline hands the compiled steps to Run (an empty pipeline is not run).
StartRun == /\ phase = "compile"
            /\ spec # <<>>
            /\ phase' = "run"
            /\ UNCHANGED <<spec, outputs, objects, pc, err>>

\* scope.Outputs[step.Name()] = val
Put(f, name, val) ==
  [n \in DOMAIN f \union {name} |-> IF n = name THEN val ELSE f[n]]

EvalStep ==
  /\ phase = "run"
  /\ pc <= Len(spec)
  /\ LET ps   == spec[pc]
         outs == OutputsAfter(ps)
         r    == Result(ps)
     IN  /\ IsOk(r)
         /\ outputs' = Put(outs, ps.name, r.ok)
         /\ objects' = Put(ObjectsAfter(ps), ps.name, NewObjects(ps, outs, r.ok))
  /\ pc' = pc + 1
  /\ UNCHANGED <<spec, phase, err>>

\* Every error makes Run return nil outputs.
Abandon(kind) == /\ phase' = "failed"
                 /\ outputs' = <<>>
                 /\ objects' = <<>>
                 /\ err' = kind
                 /\ UNCHANGED <<spec, pc>>

EvalStepFails ==
  /\ phase = "run"
  /\ pc <= Len(spec)
  /\ LET r == Result(spec[pc]) IN ~IsOk(r) /\ Abandon(r.err)

\* ctx.Err(), looked at between steps and between the items of a step.
Cancelled == /\ phase = "run"
             /\ pc <= Len(spec)
             /\ Abandon("cancelled")

ReturnOutputs == /\ phase = "run"
                 /\ pc > Len(spec)
                 /\ phase' = "done"
                 /\ UNCHANGED <<spec, outputs, objects, pc, err>>

Next == \/ \E ps \in PipelineStep : Compile(ps) \/ Reject(ps)
        \/ StartRun
        \/ EvalStep
        \/ EvalStepFails
        \/ Cancelled
        \/ ReturnOutputs

Spec == Init /\ [][Next]_vars

-----------------------------------------------------------------------------
(***************************************************************************)
(* Properties.                                                             *)
(***************************************************************************)
\* The variables have their shapes.
PipelineTypeOK ==
  /\ spec \in Seq(PipelineStep) /\ Len(spec) <= MaxSteps
  /\ phase \in {"compile", "rejected", "run", "failed", "done"}
  /\ DOMAIN outputs \subseteq Seen(spec) /\ DOMAIN objects = DOMAIN outputs
  /\ pc \in 1..MaxSteps + 1
  /\ err \in {"none", "undefined", "missing", "decode", "shape", "expr",
              "duplicate", "cancelled"}

\* Step names are distinct, every read of a step is served by a strictly
\* earlier one, and the outputs in scope are those of the steps evaluated so
\* far: what Compile establishes and Run preserves.
InOrder ==
  /\ spec \in Seq(PipelineStep)
  /\ pc \in Nat \ {0}
  /\ \A i, j \in 1..Len(spec) : spec[i].name = spec[j].name => i = j
  /\ \A i \in 1..Len(spec) : \A n \in Reads(spec[i]) :
       \E j \in 1..i - 1 : spec[j].name = n
  /\ phase \in {"compile", "run", "done"} =>
       /\ pc <= Len(spec) + 1
       /\ \A j \in 1..pc - 1 : spec[j].name \in DOMAIN outputs
       /\ \A n \in DOMAIN outputs : \E j \in 1..pc - 1 : spec[j].name = n
       /\ phase = "compile" => pc = 1

\* Every step compiles after the steps before it, every list in scope is a
\* sequence, and the objects of an output are arranged like its items: what the
\* verbs rely on when they are evaluated.
InShape ==
  /\ \A i \in 1..Len(spec) :
       compileStep(spec[i], {spec[j].name : j \in 1..i - 1})
  /\ \A n \in DOMAIN outputs :
       /\ IsList(outputs[n]) =>
            /\ ~IsMap(outputs[n]) /\ IsSequence(outputs[n].list)
            /\ IsList(objects[n]) /\ IsSequence(objects[n].list)
       /\ IsMap(outputs[n]) => IsMap(objects[n]) /\ ~IsList(objects[n])

\* The output of the i-th step nests files at most i maps deeper, and a list is
\* no longer than there are names for positions.
Base == MaxDepth - MaxSteps

Fits(v, d) == IsTreeOf(v, d) /\ (IsList(v) => Len(v.list) <= Len(FileOrder))

InDepth == \A i \in 1..Len(spec) :
             spec[i].name \in DOMAIN outputs => Fits(outputs[spec[i].name], Base + i)

\* No fragment evaluated since step i sets anything.
Untouched(i) == \A j \in i + 1..pc - 1 : spec[j].sets = "nothing"

\* The scope explains itself: as long as no later fragment sets anything, an
\* output is what its step evaluates to in that scope, however many steps have
\* been evaluated since.
AsEvaluated ==
  \A i \in 1..Len(spec) : spec[i].name \in DOMAIN outputs /\ Untouched(i) =>
    LET r == Eval(spec[i], outputs)
    IN  IsOk(r) /\ r.ok = outputs[spec[i].name]

\* A set of steps closed under filter and group, in both directions.
Family(S) ==
  \A i \in DOMAIN spec :
    spec[i].verb \in {"filter", "group"} => (spec[i].name \in S <=> spec[i].from \in S)

\* An object is held only by outputs of the family it was made in.
InFamily ==
  \A S \in SUBSET Seen(spec) : Family(S) =>
    \A n \in DOMAIN objects : \A o \in ObjectsIn(objects[n]) :
      o.object[1] \in S <=> n \in S

\* The inductive invariant the properties below rest on.
PipelineInv ==
  PipelineTypeOK /\ InOrder /\ InShape /\ InDepth /\ AsEvaluated /\ InFamily

\* A pipeline that compiled never finds, when it is run, that a step it reads
\* "is not defined": the run-time guards of the verbs are unreachable
\* (Compile's forward-reference rule and its late recording of names).
ReadsAreServed ==
  phase = "run" /\ pc <= Len(spec) => Reads(spec[pc]) \subseteq DOMAIN outputs

\* A published output changes only when a fragment evaluated now sets a key of
\* it by its name, or of the items of a step it shares its items with; filter
\* and group share, every other verb makes its own.  So no step writes over the
\* output of another (Compile's duplicate check), and nothing done to what a
\* merge made reaches its sources (deepClone).
OnlyRelativesChange ==
  [][phase' # "failed" =>
       \A S \in SUBSET Seen(spec) :
         \/ ~Family(S)
         \/ /\ phase = "run" /\ pc <= Len(spec)
            /\ \/ spec[pc].sets \in S
               \/ spec[pc].sets = "item" /\ spec[pc].from \in S
         \/ \A n \in S \intersect DOMAIN outputs :
              n \in DOMAIN outputs' /\ outputs'[n] = outputs[n]]_vars

\* Steps whose output is published and has not been touched since.
Published(verb) ==
  {i \in DOMAIN spec :
     spec[i].verb = verb /\ spec[i].name \in DOMAIN outputs /\ Untouched(i)}

\* group loses, repeats and reorders nothing: the bucket of a key is exactly
\* the subsequence of the input list whose items have that key.
GroupPartitions ==
  \A i \in Published("group") :
    LET in  == outputs[spec[i].from].list
        out == outputs[spec[i].name].map
        key == [p \in DOMAIN in |-> groupKey(spec[i], in, p).ok]
    IN  /\ DOMAIN out = {key[p] : p \in DOMAIN in}
        /\ \A k \in DOMAIN out :
             LET picked == {p \in DOMAIN in : key[p] = k}
                 nth(p) == Cardinality({q \in picked : q <= p})
             IN  /\ Len(out[k].list) = Cardinality(picked)
                 /\ \A p \in picked : out[k].list[nth(p)] = in[p]

\* load `as: map` over a glob publishes one entry for every matched file: two
\* files with one key fail the step, neither is silently dropped.
LoadMapKeepsFiles ==
  \A i \in Published("load") :
    spec[i].glob /\ spec[i].asMap =>
      /\ Cardinality(DOMAIN outputs[spec[i].name].map)
           = Cardinality(DOMAIN Files[spec[i].alias])
      /\ \A f \in DOMAIN Files[spec[i].alias] :
           \E k \in DOMAIN outputs[spec[i].name].map :
             outputs[spec[i].name].map[k] = Files[spec[i].alias][f]

\* merge obeys, at every path, the last source that has something to say
\* about it (later wins, nested maps recurse, everything else is replaced).
MergeLastWins ==
  \A i \in Published("merge") :
    IsMergeOf(outputs[spec[i].name],
              [j \in DOMAIN spec[i].from |-> outputs[spec[i].from[j]]])
=============================================================================
