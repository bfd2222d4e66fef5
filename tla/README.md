# TLA+ verification of the manifest generator

The program is a Kubernetes controller. A `ManifestGenerator` names Flux
sources, values, a data pipeline and a list of artifacts; the controller renders
the artifacts from the sources, stores them as tarballs and publishes one
`ExternalArtifact` object per tarball for other Flux controllers to consume.
This directory holds TLA+ modules for its core, TLC configurations that
model-check them on small instances, and proofs checked by TLAPS. Paths below
are relative to `src/`.

## 1. Inventory

| Part | Code | State | Operations | What makes it correct |
|---|---|---|---|---|
| Reconcile loop | `internal/controller/manifestgenerator_{controller,finalize,status}.go` | the object being reconciled and the copy its patcher compares it with, `eaRefs`, a temporary workspace | `Reconcile`, `reconcile`, `addFinalizer`, `finalize`, `summarizeStatus` | nothing is published that will not be cleaned up; status, conditions, published objects and storage agree; it converges after failures; deletions end |
| Watches and work queue | `manifestgenerator_manager.go` (and controller-runtime) | informer caches, field indices, queued keys, delayed keys | predicates, source and ConfigMap mappers, re-queue | a change somebody waits for leads to a pass |
| Values resolver | `internal/values/values.go`, `manifestgenerator_values.go` | the tree merged so far | `Resolve`, `resolveOne`, `deepMerge`, `handleValuesError` | precedence at every path; absence and unavailability are told apart; no foreign data; it stalls only where retrying is useless |
| Pipeline | `internal/pipeline/*.go`, `manifestgenerator_pipeline.go` | compiled steps, `scope.Outputs` | `Compile`, `Run`, five verbs | what compiles never meets an undefined step; an output changes only where a fragment can reach it; nothing is lost in load, group or merge |
| Artifact builder | `internal/builder/*.go`, `internal/render/gotemplate.go` | the workspace: fetched sources and staged files; `writtenPaths` | `fetchSources`, `Build`, `applyTemplate`, `discoverPartials`, archive | a tarball holds exactly the renders the spec asks for |
| Spec validation | `manifestgenerator_validation.go` | none | `validateSpec` | an invalid spec stalls without side effects; what it accepts is not refused later for what the spec alone shows |
| Template helpers | `internal/render/helpers.go`, `internal/template/funcmap.go` | none | `include`, `lookupFile`, `required`; Sprig's string functions and its `set` | an include finds the closest definition; a lookup stays in its source; `set` changes the map it is given (string functions are not modelled) |
| Artifact storage | library, wired in `cmd/main.go` | tarballs per artifact | `Archive`, `RemoveAll`, `GarbageCollect` | external; a set of tarballs per name |
| Process wiring | `cmd/main.go` | none | flags, manager and server construction | its options shape a pass: timeout, recovered panics, ten workers, ConfigMaps read live |

How they interact: an informer event or a timer puts a key in the queue; a
worker runs one `Reconcile` for it on the *cached* object. A pass validates the
spec, patches `Reconciling`, reads the sources, fetches them, resolves values
(reading ConfigMaps straight from the API server), runs the pipeline, then
builds and publishes the artifacts one after the other, removes orphans,
collects garbage and finally, in a deferred call, patches the status. Every
pass leaves its marks in four places that no transaction spans: storage, the
`ExternalArtifact`s, the object's inventory, the object's conditions.

What is hard about it: passes read stale objects; every call may fail and some
failures are only logged; a status patch is three writes that can succeed in
part, made with the context whose timeout ended the pass; the process may die
anywhere and the storage volume does not outlive the pod; sources and generators
are read from caches and ConfigMaps are not; two generators may claim one
artifact name; what nobody re-queues is never looked at again. `PROJECT.json` lists these hazards at their lines with the
properties that watch them.

## 2. Modules

| Module | Models | Extended by |
|---|---|---|
| `Reconciler` | reconcile loop, queue, API objects, storage | `ReconcilerContract`; `ReconcilerProofs` and, each on top of the one before, `LifecycleProofs` and `ContractProofs` |
| `Publication` | abstract: what the controller promises about `ExternalArtifact`s | instantiated by `ReconcilerContract` |
| `ReconcilerContract` | the refinement mapping from `Reconciler` to `Publication` | `MCReconciler` (runs) |
| `Watches` | watches, indices and predicates over several sources, ConfigMaps and generators | `MCWatches`, `WatchesProofs` |
| `Trees` | decoded YAML values and `deepMerge`, with a path-wise reference definition | `Values`, `Pipeline`, `TreesProofs` |
| `Values` | `Resolver.Resolve` and `handleValuesError` | `MCValues`, `ValuesProofs` (with `TreesProofs`) |
| `Pipeline` | `Compile` and `Evaluator.Run` | `MCPipeline`, `PipelineProofs` (with `TreesProofs`) |
| `Builder` | `validateSpec`, then workspace, staging, rendering and archive of one pass | `MCBuilder`, `BuilderProofs` |

`Reconciler` composes the whole controller; the others open up what is a single
action in it. `StartInvalid` and `Build` there are `Builder` here, `Prepare` is
`Values` and `Pipeline`: what these hand over is an outcome only, the step
succeeds, fails and is retried, or stalls. `DeliverSource`, for one combined
source there, is `Watches` here, which in turn takes a whole build and publish
as one step.

Each module keeps, next to a definition, the plausible mistakes in it
("Mutant: ..."); each property is known to be violated when one of them takes
the definition's place.

### Reconciler

A pass of one object is `pass[m]`, with a program counter cut at each call that
leaves the process:

| `pc` | Next action | Code |
|---|---|---|
| `idle` | `StartGone`, `StartFinalize`, `StartAddFinalizer`, `StartDisabled`, `StartInvalid`, `StartReconcile`, `StartTmpDirFails` | `Reconcile` up to the first call out |
| `progress` | `PatchProgress` | the `Reconciling` patch |
| `observe` | `ObserveSources`, `SourcesNotReady` | `observeSources` |
| `prepare` | `Prepare` | `fetchSources`, `resolveValues`, `runPipeline` |
| `build` | `Build` | `Builder.Build` |
| `apply`, `eastatus` | `ApplyExternalArtifact`, `PatchExternalArtifactStatus`, `ExternalArtifactChanged` | `reconcileExternalArtifact` |
| `clean`, `cleanea` | `CleanStorage`, `CleanExternalArtifact`, then `Complete` or `RemoveFinalizer` | `finalizeExternalArtifacts`, the tail of `reconcile`, `finalize` |
| `summarize` | `Summarize`, `SummarizeGone` | the deferred `summarizeStatus` and the return to the queue |

Every one that calls out has a `...Fails` action. `TimeoutExpires` cancels the
context of a pass: from then on every call made with it fails, the deferred
status patch included, while local work (storage, cached reads) goes on. `Panic`
jumps to the deferred patch with the object as far as the pass got.
`BuildCollides` archives over another content of the same artifact, and
`CompleteSlowly` is a pass that outlasts the retention time of the storage.
`pass[m].obj` is the object in memory and `before` what the patcher diffs it with, so that a patch (`Patched`)
writes only what the pass changed, in up to three parts. `mg` is the API server
and `cache` the informer's copy; `Deliver...` moves one to the other and applies
the predicates. `Requeue` is what controller-runtime does with the result.

Abstractions:

* Sources are one combined revision; 0 means no artifact yet. What a pass
  renders is a function of the object, its generation and the revision, so a
  digest is that triple.
* `validateSpec` is a verdict drawn with the spec.
* The status patch of an `ExternalArtifact` carries the resourceVersion that its
  apply returned. Between the two calls only another generator's apply or a
  deletion changes the object, and either changes its label, so the patch goes
  through as long as the label is this generator's; else the pass fails
  (`ExternalArtifactChanged`).
* The annotation `reconcile` is set to enabled or disabled and never removed:
  removing it does what enabling does.
* Artifacts are built, and orphans cleaned, in any order. The code follows the
  spec's order; the model allows more behaviours.
* Watch events of one object are coalesced: the informer jumps to the latest
  state. Keys are processed by one worker at a time, as the queue guarantees.
* Without `"stale"` in `Env` a pass begins only when the informer has caught up.
  With it, it reads any state the informer had.
* The interval, back-off and dependency delays are two kinds of timer,
  `interval` and `retry`; of two delays for one key the earlier wins.
* `GarbageCollect` removes any tarballs of the artifacts just built except the
  ones of this pass; in a pass longer than the retention time, those too (the
  code passes a path that ends in `*`, which names no tarball to keep).

`Env` says which behaviours of the environment a run allows: `edit`, `suspend`,
`invalid`, `annotate`, `request`, `delete`, `unready` (the sources have no
artifact at first), `source` (they change), `stale`, the failures `io` (storage,
files, downloads), `api` (ExternalArtifact calls), `status` (status patches),
`timeout`, `panic`, `slow` and `collide`, and the restarts `crash` (container)
and `podloss` (container and volume). `MaxFaults` bounds failures and restarts
together.

### Publication and the refinement

`Publication` knows nothing of passes, caches, queues and storage. A generator
is absent, unguarded, guarded (by the finalizer) or gone; a name has an owner
(the label) and a served content; a generator has acknowledged a generation.
`Spec` is what remains whatever fails: only a guarded generator claims a name,
publishes or acknowledges; it never replaces its own content by one of an older
spec or older sources; a generation is acknowledged once, in order, and never
one older than what is served. `StrictSpec` is what the controller keeps while
nothing fails: a generator leaves only when it owns nothing, publishes only under
its own label, and acknowledges a generation when all it owns is at it.

`ReconcilerContract` maps them to what the API server holds: `life` to existence,
deletion timestamp and finalizer, `owner` to the label, `served` to the artifact
in the `ExternalArtifact`'s status, `acked` to `status.observedGeneration`.
Every other step of `Reconciler` is a stutter. `Withdraw` is weak on purpose: the
cleanup goes by the inventory and looks at no label, so a generator may withdraw
a name that another one owns by now.

### Watches

Several sources, ConfigMaps and generators; the `ExternalArtifact` of a
generator is a source like the others, so generators can be chained. Sources and
generators have an API copy and an informer copy; a ConfigMap's informer copy is
metadata only, and `ReadConfigMap` reads the API copy. A revision and a body
change independently, as for a source published again under its revision. A
pass is cut at every read, so any of them may be older than another; building and
publishing is one step. A deleted ConfigMap keeps the resource version of its
deletion, so that the informer can still deliver it.

### Values, Pipeline, Builder

The three are sequential; their specs are *revealed* as they are processed (the
next reference, step or artifact is chosen when its turn comes), which
enumerates every spec up to the bound without a huge set of initial states.

In `Values` every `Get` of a ConfigMap is answered independently, as ConfigMaps
may change between two reads. In `Pipeline` template fragments are named by what
they render to: a key distinct per item, a constant key, a blank, a value that
fails on some items, and so on; "unparsable" is one the template parser refuses.
A glob matches all files of its alias.

A fragment is given the items and the outputs in scope themselves, and Sprig's
`set` is among its functions, so a step also has a field `sets`: `"nothing"`, a
step whose output gets a key set, or `"item"`, each item it is rendered for.
`objects` has, for every output, which object each of its items is: `filter` and
`group` pass on the objects of their input, `load`, `map` and `merge` make new
ones. `OutputsAfter` sets the key wherever the object is held, `Result` fails if
the fragment sets a key of something that is no map, or names an output that is
not there yet, and then evaluates the verb. The fragments that set something
(`Setters`) are one for each verb that has fragments, combined with every target;
they set one key. In `Builder` a spec is drawn whole, and a
pass begins with `validateSpec`. The workspace is a function from subdirectories
to trees, a rendered body records the template and iteration it came from and
the answer of every helper it called, and destinations are sequences of
segments, cleaned exactly as `filepath.Clean` does. A file of a source is the
names it defines, the helpers it calls, and whether it parses and is within the
size limit. An error is `malformed` when the spec alone shows it, `build` or
`render` by the reason the code reports, else the call that failed.

## 3. Runs

| Run | Checks | Shows | Bounds |
|---|---|---|---|
| `lifecycle` | `FinalizerGuardsArtifacts`, `InventoryIsOwned`, `ConditionsConsistent`, `ReadyIsServed`, `ParkedIsAccounted`, `LifecycleInv`, `KeepsStrictContract` | one generator through creation, edits, pausing, invalid specs, source changes and deletion, nothing failing; `Reconciler` implements the strict contract | 3 generations, 2 names, 2 revisions |
| `faults` | `TypeOK`, `PublishedUnderFinalizer`, `PublishedIsStored`, `ObservedIsPublished`, `HistoryInv`, `PublishingInv`, `KeepsContract` | what survives stale reads, a failure of any call, a partial status patch, a timeout, a panic, a checksum collision, a crash, a lost volume; the contract that is kept then | 3 generations, 2 names, 1 fault |
| `liveness` | `Converges`, `ReadyRecurs`, `DeletionCompletes`, `RequestHandled`, `StatusOnlyAdvances` | after any one of these it converges without waiting for the interval, shows Ready, completes deletions, acknowledges requests also when suspended or deleted; stale passes never take the status back | 2 generations, sources not ready and then one revision, 1 name, 1 request, 1 fault |
| `contended` | `ContestHeals` | two generators claiming one name, one slow pass or one collision: whoever is left serves it again, at its interval | 2 generators, 1 name, 1 fault |
| `watches` | `QuietIsCurrent`, `WatchInv`, `RevisionsReach`, `DigestsReach` | every change of a spec, a revision or a ConfigMap reaches everybody who refers to it, through a chain; a body changed under its revision does at the interval | 1 source, 1 ConfigMap, 2 generators, 1 change |
| `pipeline` | `PipelineTypeOK`, `PipelineInv`, `ReadsAreServed`, `GroupPartitions`, `LoadMapKeepsFiles`, `MergeLastWins`, `OnlyRelativesChange` | every pipeline of up to three steps, with fragments that set keys of items and of other outputs | 3 steps, 2 aliases with 2 files each, trees up to 6 deep |
| `values` | `ValuesLastWins`, `UnavailableNeverSkipped`, `NoForeignValues`, `StallsOnlyOnSpec` | every `valuesFrom` of up to two references plus inline values, every answer | 2 references, 5 texts, paths up to 2 segments |
| `builder` | `TarballIsComplete`, `TarballIsRendered`, `FailsForCause`, `AcceptedIsWellFormed`, `BuildInv` | every first artifact of up to two templates over eight kinds of `forEach`, then a second artifact in the same workspace; specs with one thing wrong in them | 2 artifacts, 2 templates, 2 sources |
| `leak`, `staleinv`, `terminal`, `staging` | one property each | violated, see section 6 | |

Why the bounds suffice for what the properties tell apart. Three generations:
create, edit, delete, or two edits; an orphan appears with the first edit and
is seen again at the second. Two names: one kept and one dropped, or one built
and one failing. One fault: every property of `faults` is about a single point
of failure, and each call can be that point; a second fault meets the state
after a complete recovery or the retry of the same call. Two revisions: one
published, one arriving at any point of the pass that publishes the first. The
run `faults` has one revision only, since two take too long: that failures never
bring back older *sources* is not shown by it but by `ImplementsContract`. In
`liveness` the sources start without an artifact, so that the dependency retry
is what brings the generator forward. One change in `watches`: it meets every
state of two generators that start unreconciled, with the source and the
ConfigMap there or not, so it can come before, during and after the pass of
either, and the change of the first generator's artifact is a second one that
costs nothing. An edit together with a change of the source it refers to needs
two; that rests on `WatchInvariant` and `NoChangeIsLost`, which hold for any
number of changes. `QuietIsCurrent` was also explored with two changes (2.5 million
states, no violation); the liveness properties at that bound take too long to
keep. Three steps: two sources and a merge, or a chain in which the middle one
is read, or a step, one that shares its items or merges it, and one that sets
them; a file is at most three maps deep and a step adds at most one, hence six.
Two references and inline values: three contributions in order, with
nulls, scalars and maps at, above and below one path. Two artifacts: one whose
leftovers could reach the other.

Names of artifacts and of steps are symmetric in the runs that say so; no
liveness run uses symmetry. No run checks deadlock: all bounded behaviours end,
and a controller with nothing to do rests. That nobody rests too early is
`ParkedIsAccounted`, `QuietIsCurrent` and the liveness properties.

### Fairness

`LiveSpec` assumes weak fairness of: delivery of watched changes
(`DeliverSource`, `DeliverManifestGenerator`, `DeliverConfigMap`; informers
re-list when a watch breaks), back-off and dependency timers
(`RetryTimerFires`), workers taking queued keys (`Start`, `Begin`; there are
ten), and a pass going on (`Work`). A pass whose context has expired goes on by
failing, which needs no further fault: every call to the API server or to a
source takes that context, and the rest is local work. The reconcile interval
may be hours and is counted on only where no event can do: in `IntervalSpec` for `ContestHeals`, where nothing tells the
loser that its artifact is gone, and in `DigestsReach` for bodies that change
under an unchanged revision. Nothing is assumed of users, sources, failures and
restarts: they may happen or not, up to their bounds.

The inductive invariants of section 4 that are not obvious (`HistoryInv`,
`PublishingInv`, `LifecycleInv`, `WatchInv`, `PipelineInv`, `BuildInv`) are
properties of these runs too, so what the proofs rest on is also explored.

## 4. Proofs

Each theorem is about every value of the constants: any number of generators,
names, sources, ConfigMaps, references, steps, artifacts, templates and
iterations, every `Env`, and every bound. Every safety invariant and every
action property of the passing runs is the statement of one.

### Reconciler

* `TypeCorrect`: `Spec => []TypeOK`. One lemma per operator that builds an
  object (`MarkType`, `PatchedType`, `SummaryType`, ...), one per group of
  actions.
* `FinalizerInvariant`: `Spec => []FinalizerInv`, and from it
  `PublishesUnderFinalizer`: `Spec => PublishedUnderFinalizer`, an action
  property. It is not inductive alone: `reconcile` checks the finalizer on a
  cached object many calls before it publishes, and anyone may delete the
  object in between. The strengthening says why this is safe.
  `CacheKnowsFinalizer`: whatever the cache shows as reconcilable still has the
  finalizer in the API server, and a cached deletion is a real one.
  `PassKeepsFinalizer`: a pass that can publish read the object with the
  finalizer, and any pass whose patch would take the finalizer off read the
  object as deleted, which no publishing pass did. It needs that one key has
  one pass at a time.
* `HistoryInvariant`: `Spec => []HistoryInv`. API server,
  cache and pass stand in one history. `CopiesInOrder`: a copy is never newer
  than what it was copied from. `HandledWasRead` and `PublishedWasRead`: what
  the status acknowledges and what an `ExternalArtifact` serves comes from a
  pass that read no more than the cache, and the pass now running, have read;
  without the last clause a pass on an old object could take either back.
  `PassInOrder`: a pass changes only conditions of its object until it is done,
  which is why a patch of one part of a stale status is harmless. From it
  `StatusAdvances`: `Spec => StatusOnlyAdvances`.
* `PublishingInvariant`, `PublishesWhatIsStored` and `ObservesWhatIsPublished`
  (`LifecycleProofs`): `PublishingInv`, `PublishedIsStored` and
  `ObservedIsPublished`. `PassHoldsArtifacts` says what a running pass relies
  on although it looks at none of it again: what it has archived is stored when
  it goes on to publish it, what it published is still there under its label,
  and the artifacts it is done with and those it has to do are its spec. They
  assume `[]Uncontended`: no pass is at a name of another generator's spec. The
  assumption is needed, since nothing in the code keeps two generators from one
  name and the loser's cleanup deletes what the winner serves (`contended`
  shows that this heals, and only at the interval). `AloneOnItsNames` drops it
  for a single generator, so the two properties hold there of `Spec` itself.
* `CalmInvariant`, `ConditionsAreConsistent` and `ParkedAreAccounted`:
  `CalmInv`, `ConditionsConsistent` and `ParkedIsAccounted`, under `[]Calm`:
  nothing has failed so far, and passes begin with the informer caught up. Both
  properties fail without it (sections 5 and 6). The object may still change under a
  pass. `PassIsCurrent` says that only its user changes it then, never its
  status, conditions or finalizer, and that what he changes re-queues it.
  `PassIsConsistent` follows the conditions from the `Reconciling` patch to the
  ones `summarizeStatus` will write. `WillBeSeen` names, for every object and at
  every step of its pass, who will look at it again: an event still to be
  delivered, a queued key, a timer, the pass itself with an outcome that
  re-queues it, or the reason why nobody has to.
* `LifecycleInvariant`, `FinalizersGuardArtifacts`, `InventoriesAreOwned` and
  `ReadyAreServed`: `LifecycleInv`, `FinalizerGuardsArtifacts`,
  `InventoryIsOwned` and `ReadyIsServed`. The inventory is written only at the
  end of a pass, so the invariant keeps the books meanwhile:
  `PassKnowsOwned` gives what a generator owns at each program counter as
  recorded inventory, artifacts published so far and orphans left, in the
  combination the code will need there, and `PassKeepsStored` adds that what is
  or will be shown as Ready is stored. Besides `[]Calm` they assume
  `[]Exclusive`: no pass is at a name that another generator's inventory lists
  or works on. It is stronger than `Uncontended`, as a cleanup goes by the
  inventory. `AloneAndCalm` drops both for a single generator in an `Env`
  without stale reads and with `MaxFaults = 0`, which is the setting of the run
  `lifecycle`; there the five properties hold of `Spec` itself.
* `ImplementsContract` (`ContractProofs`): `Spec => KeepsContract`, the
  refinement: initial states map to initial states, and each action to the one
  step of `Publication` it makes, or to a stutter, given `TypeOK`,
  `FinalizerInv` and `HistoryInv` before it. That a served content is never
  replaced by an older one of the same generator is `PublishedWasRead`.
* `ImplementsStrictContract`: `KeepsStrictContract` under `[]Calm` and
  `[]Exclusive`. To a step of the contract above it adds what `StrictSpec` asks
  of each kind of step: a generator leaves with the last artifact gone
  (`PassKnowsOwned` at `summarize`), publishes under its own label, and
  acknowledges a generation only with all it owns at it.

### Watches

* `WatchInvariant`: `Spec => []WatchInv`, and `NoChangeIsLost`:
  `Spec => []QuietIsCurrent`. What is quiet is current only because of how it
  came to be quiet: `PassFollows` and `StatusFollows` say of every moment that
  what a running pass has read so far, and what the last success used, is what
  the *caches* hold now, or another pass is already due. `VersionsDiffer` is
  needed because ConfigMaps are read live and watched by metadata: an informer
  copy with the API server's resource version is the API server's copy.

### Pipeline

* `PipelineInvariant`: `Spec => []PipelineInv`. `InOrder`: names are distinct,
  every read is of a strictly earlier step, and the scope is exactly the outputs
  of the steps evaluated. `InShape`: each step compiles after those before it,
  and outputs and their objects are arranged alike. `InDepth`: the output of the
  `i`-th step nests at most `i` maps more than a file. `AsEvaluated`: an output
  in scope is what its step evaluates to in that scope, however many steps were
  evaluated since, as long as none of their fragments set anything. `InFamily`:
  an object is held only within the family it was made in, where a family is a
  set of steps closed under `filter` and `group`; no step made later brings it
  to another.
* From it `PipelineIsTyped` (`PipelineTypeOK`), `CompiledPipelineIsServed`
  (`ReadsAreServed`: the "is not defined" guards of the verbs cannot be reached)
  and `OnlyRelativesAreChanged` (`OnlyRelativesChange`): a step leaves all the
  outputs of a family alone unless its fragment names one of them, or sets its
  items and reads one of them. This is `InFamily` for what a fragment sets, and
  distinct names for what a step publishes.
* `LoadedMapsKeepFiles` (`LoadMapKeepsFiles`) and `GroupsArePartitions`
  (`GroupPartitions`). `AsEvaluated` reduces each to what one verb computes. The
  loops of the verbs are recursive functions; what the loop has built after
  `n` items (each entry the last file of its key; each bucket its items in
  order, none twice and none lost) is proved by induction over `n`.
* `MergesObeyTheLast` (`MergeLastWins`): at every path a merge has what the last
  of its inputs that decides the path has. `MergeOfOneMore` adds one input to
  the reference definition. The recursion of `deepMerge` is well defined only
  for trees of bounded depth, which `InDepth` gives: files nest
  `MaxDepth - MaxSteps` maps, a step makes what it reads at most one deeper
  (`EvalFits`), and setting a key makes nothing deeper (`SetFits`).

### Trees

* `MergeIsOwned`: each path of `deepMerge(a, b)` is `Both` trees' (their nodes
  merged), `OnlyB`'s, `OnlyA`'s or `Neither`'s, by induction over the length of
  the path. `MergeOfTwo` and `MergeOfNone` turn it into the path-wise reference
  definition `IsMergeOf`; `MergeKeepsDepth` says that merging nests no deeper
  than either tree. `Values` and `Pipeline` both rest on them, as the code has
  one copy of the function in each package.

### Values

* `ResolveInvariant`: `Spec => []ResolveInv`. The three properties look back at
  what was read when `.values` is complete or the error has been handled, so the
  invariant is about the log: each entry is `resolveOne` of its reference and
  answer, a failure ended the pass, and the error is that of the last read.
* From it `NothingSkipped` (`UnavailableNeverSkipped`), `ForeignNeverUsed`
  (`NoForeignValues`) and `StallsWhenHopeless` (`StallsOnlyOnSpec`). The last
  one needs `TextAssumption`: some text decodes to an object, so that an answer
  exists with which a reference that may be followed succeeds.
* `LastWins`: `Spec => []ValuesLastWins`. The tree merged so far is the
  path-wise merge of the contributions so far, whichever were skipped, and the
  inline values come last.

### Builder

* `CleanIdempotent`: `Clean(Clean(p)) = Clean(p)` for paths of any length, that
  is, the file system puts a file where `writtenPaths` says. `Clean` is a fold;
  the induction is over the set of lengths for which the fold is clean.
* `AcceptedSpecsAreWellFormed`: `Spec => []AcceptedIsWellFormed`, from
  `ControlInv`: the pass gets past validation only with a valid spec, and the
  loops stay within the artifact they are at.
* `BuildInvariant`: `Spec => []BuildInv`. Where a build is, is a pair of an
  iteration and a template; `StagedInv` says that the staging directory holds
  the jobs of exactly the pairs before it, each rendered from the sources as
  fetched and under a destination that is nobody else's and not in anybody's
  way. `SourcesIntact` and `NotYetStaged` keep artifacts apart from sources and
  from each other.
* From it `TarballsAreComplete` (`TarballIsComplete`), `TarballsAreRendered`
  (`TarballIsRendered`) and `BuildsFailForCause` (`FailsForCause`). Comparing
  what a template saw with what it should see is `DefinedIsSeen`: parsing the
  `_helpers.tpl` files on the way in order and the template last gives every
  name the closest definition, at any depth. These three assume `NamesApart`,
  artifacts named unlike the aliases, and `BuildInv` assumes it for staging: the
  run `staging` is the counterexample without it.

### How data is handled

The library's induction theorems take an operator, which no installed prover can
instantiate. `SetInduction` states induction for a set of numbers instead, and
is proved from a least element of the complement; it is stated in `TreesProofs`
for `Values` and `Pipeline`, and in `BuilderProofs`, where `FoldExists` gives
folds from it. Recursive definitions the proofs are about are recursive
functions, shown first to satisfy their own equation (`EntriesLoop` and the
like), since a function is only known to be recursive once it is known to exist.

### Assumptions

`EnvAssumption` and `BoundsAssumption` (`Reconciler`); `BoundsAssumption`,
`MenuAssumption` and `NoSelfAssumption` (`Watches`); `DepthAssumption`
(`Trees`: `MaxDepth` is positive); `ResolverAssumption`, `TextAssumption` and
`ContributionsAssumption` (`Values`: what is merged nests at most `MaxDepth`
maps); `NamesAssumption`, `StepsAssumption` and `FilesAssumption` (`Pipeline`:
no step is named like the words that stand for what a fragment sets, the sorted
files are distinct and there is one, files nest at most `MaxDepth - MaxSteps`
maps and are a list or a map but not both, and `MaxSteps` is at most `MaxDepth`);
`SpecsAssumption`, `SourcesAssumption` and `DataAssumption` (`Builder`: lists
are sequences, an artifact has a template, an alias has something to unpack, the
helpers are the three modelled). TLC evaluates all of them in the runs.

The code has no limit on the depth of a tree. `MaxDepth` stands for the depth of
the deepest tree met, and being arbitrary excludes no finite tree.

Apart from these, the hypotheses are `Uncontended`, `Calm`, `Exclusive` and
`NamesApart`, where stated. The runs `contended`, `leak`, `staleinv` and
`staging` show what happens without them.

### Only model-checked

The liveness properties: `Converges`, `ReadyRecurs`, `DeletionCompletes`,
`RequestHandled`, `ContestHeals`, `RevisionsReach`, `DigestsReach`. Fairness and
`ENABLED` are out of the prover's reach.

## 5. Properties worth a remark

* `ObservedIsPublished` is checked with failures: `observedGeneration` means
  what it says even when passes fail half-way, because the status is written
  last. The inventory does not enjoy the same guarantee (section 6).
* `KeepsContract` says more than its parts: with stale reads and failures
  together, what is served under a name never goes back to an older spec or
  older sources of the same generator. That a pass works on what one cache held
  at one moment, and that a key has one pass at a time, is all it rests on.
* `QuietIsCurrent` is about every order in which a change, its event, an edit
  that refers to the changed object, and the reads of a pass can come. It holds
  because an event re-queues a key whose pass is running, and the queue keeps it.
* `AcceptedIsWellFormed` has one exception, stated in it: a source may be given
  the alias `artifact`, which `validateSpec` takes and `parseSourceRef` refuses,
  so that its templates fail at every pass and never stall.
* `ReadsAreServed` is about `from`. A fragment may name any step; naming one
  that is not in scope fails the step when it is run (`missingkey=error`), and
  `Compile` cannot see it.
* `OnlyRelativesChange` is as much of "outputs are final" as the code gives: the
  fragments get the outputs themselves, and `filter` and `group` share items. The
  properties of single verbs are therefore about outputs nobody has set a key of
  since (`Untouched`).
* A lookup of an absolute path, or of one that leaves the source, is refused
  even when the cleaned path exists there; `Wanted` says so since the proof of
  `FailsForCause` needed it, and the `builder` run has such a template.
* `TarballIsComplete` counts what the default ignore patterns leave: a template
  rendered to, say, `.sops.yaml` is dropped from the tarball without an error.
* `PublishedIsStored` survives `podloss` because `Build` archives
  unconditionally; a shortcut on the recorded digest would break it.
* `ReadyIsServed`, `InventoryIsOwned` and `FinalizerGuardsArtifacts` hold in
  runs without failures and with a current cache, and not beyond: a failed
  delete is only logged, by design.
* `ConditionsConsistent` is likewise for a current cache: a pass that read the
  conditions before an earlier pass's patch writes only the ones it changed and
  may show a mixture until the next pass.

## 6. Where code and comments disagree

Each of the first four has a run whose counterexample shows it.

1. `leak`. A later artifact of the spec fails to build: the pass returns before
   the inventory is recorded, so the `ExternalArtifact` published earlier in
   the pass is in no inventory. If the object is deleted next, the finalizer
   goes and the artifact stays; `api/v1alpha1/manifestgenerator_types.go:36`
   says it is "Removed only after orphan cleanup succeeds."
2. `staleinv`. Orphans are computed from a cached inventory; a pass that starts
   before the cache shows the previous pass's status patch loses an
   `ExternalArtifact` from the inventory for good.
3. `terminal`. A terminal error aggregated with a failed status patch is still
   terminal: not retried, and `Stalled` is never shown.
4. `staging`. An artifact named like a source alias is staged into the fetched
   source, and its tarball contains the source's files.

Noticed while modelling and not given a run:

* `manifestgenerator_types.go:48`: removing the reconcile annotation changes no
  generation and no request, so it triggers no pass; a generator paused before
  its interval timer was set waits for the next unrelated event.
* `manifestgenerator_types.go:124`: "ordering is implied by data dependency, not
  list position"; `Compile` rejects a reference to a later step.
* `manifestgenerator_types.go:265`: `keyExpr` is "ignored otherwise" than with
  `as: map`; `compileLoad` rejects it.
* `internal/values/values.go:114`: an optional reference is said to be skipped
  when "the underlying object or key is absent"; a key that does not decode is
  skipped too.
* `manifestgenerator_controller.go:499`: without an origin revision the
  source's own revision is recorded as one.
* `manifestgenerator_controller.go:243`: the collected path ends in `*`, so a
  tarball is not spared for being the one just published; a pass longer than the
  retention time may collect its own. The interval heals it (`ContestHeals`).
* `manifestgenerator_manager.go:247`: the predicate "fires only when the source
  artifact revision has actually moved forward"; it fires on any other revision,
  and a body changed under its revision waits for the interval. The same goes for
  an artifact that mirrors a revision when its values change
  (`manifestgenerator_controller.go:489`).
* `manifestgenerator_manager.go:259`: a source that loses its artifact is no
  event, and its deletion after that is none either.
* `docs/DESIGN.md:147`: "Steps cannot rewrite earlier outputs", which line 512
  calls "enforced structurally, not by convention", and
  `internal/pipeline/pipeline.go:44` calls the scope "the read-only view a Step
  sees". The scope hands out the outputs themselves
  (`internal/pipeline/template.go:104`), so Sprig's `set`, `unset` and
  `mergeOverwrite` in a fragment rewrite an earlier output, and through shared
  items those of `filter` and `group`. `Pipeline` behaves so, and
  `OnlyRelativesChange` says how far it goes. Only `merge` is protected, by
  `deepClone`.
* `builder.go:349`: a destination whose first segment merely begins with two
  dots (`..x`) is refused as if it escaped.

## 7. Not modelled

* Leader election, the construction of the manager, flag parsing: run once.
* The storage library's locks and HTTP server; file modes in tarballs.
* Events and notifications, logging, metrics.
* `tpl`, `toYaml` and the like, Sprig's string functions; an include inside a
  partial; `originRevision`, which is treated
  as `revision` is and touches metadata only.
* Of Sprig's functions with side effects, more than `set` in a pipeline: keys
  other than one at the top of an item or output, keys of the very map a step is
  iterating over (Go leaves open which of them it still visits), keys of the
  `values` tree, and what a template of an artifact sets in the data it shares
  with later templates (`overlayData` copies one level).
* In `Values`: a reference of an unknown kind and a target path with an empty
  segment, which the CRD and `validateSpec` keep out.
* Wall-clock time: the timeout may expire and the retention time may pass at any
  point; jitter and the size of back-offs are left out.
* In `Watches`: a ConfigMap created and deleted while its watch is broken, which
  no list shows; generators that consume their own output or each other's, which
  may never come to rest and which nothing forbids. Both end at, or are driven
  by, the interval and the events the module has.
* The CRD's schema patterns and the generated deep copies.

## 8. Plan

Done: all modules planned, and a theorem for every safety property of the
passing runs and for both refinements. Open:

1. Liveness beyond the bounds of the runs, once a prover handles fairness.
2. The hypotheses `Calm` and `Exclusive` are about whole behaviours: that the
   properties of `lifecycle` hold *again* some time after the last failure is
   checked by `Converges` only.
3. What section 7 lists.
