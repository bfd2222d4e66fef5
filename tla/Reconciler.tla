----------------------------- MODULE Reconciler -----------------------------
(***************************************************************************)
(* The ManifestGenerator controller: the reconcile loop of                  *)
(* internal/controller with the informer cache it reads, the work queue     *)
(* that drives it, the API objects it patches and the artifact storage it   *)
(* writes.  One pass over one ManifestGenerator is a sequence of actions    *)
(* cut at every call that leaves the process (API server, storage, source   *)
(* download), so users, sources, informer deliveries, failures and restarts *)
(* interleave with it anywhere they can in the program.                     *)
(*                                                                          *)
(* A revision of the (combined) sources is a number, 0 for "not ready".     *)
(* What a pass renders depends on the object, its spec and the sources it   *)
(* saw, so the digest of an artifact is the generator, the generation and   *)
(* the revision.                                                            *)
(***************************************************************************)
EXTENDS Naturals, FiniteSets

CONSTANTS
    MG,         \* ManifestGenerators (one per UID; a name is not reused)
    Name,       \* ExternalArtifact names in the namespace
    Env,        \* which behaviours of the environment a run allows
    MaxGen,     \* bound: generations of one object
    MaxRev,     \* bound: revisions of the sources
    MaxReq,     \* bound: manual reconcile requests
    MaxFaults   \* bound: failures injected in one behaviour

EnvKinds == {"edit", "suspend", "invalid", "annotate", "request", "delete",
             "unready", "source", "stale", "io", "api", "status", "panic", "timeout", "slow", "collide",
             "crash", "podloss"}

ASSUME EnvAssumption == Env \subseteq EnvKinds

ASSUME BoundsAssumption ==
    /\ MaxGen \in Nat \ {0}
    /\ MaxRev \in Nat \ {0}
    /\ MaxReq \in Nat
    /\ MaxFaults \in Nat

VARIABLES
    mg,         \* the objects in the API server
    cache,      \* the informer's copy, what r.Get returns
    src,        \* revision the sources advertise in the API server
    srcCache,   \* the informer's copy of it
    ea,         \* ExternalArtifacts in the API server
    files,      \* tarballs in storage, per artifact name
    queue,      \* keys in the work queue
    timer,      \* the earliest delayed re-queue of each key
    pass,       \* the reconcile pass running for each key
    faults      \* failures so far

vars == <<mg, cache, src, srcCache, ea, files, queue, timer, pass, faults>>

-----------------------------------------------------------------------------
(* Types.                                                                  *)

Gen == 0 .. MaxGen
Rev == 0 .. MaxRev

(* What validateSpec will say of a spec.                                   *)
Verdict == {"ok", "invalid"}

Content == [by : SUBSET MG, gen : Gen, rev : Rev]

NoContent == [by |-> {}, gen |-> 0, rev |-> 0]

(* One inventory entry: the artifact's name and its digest.                *)
Ref == [name : Name, content : Content]

Names(refs) == {r.name : r \in refs}

MGSpec == [artifacts : SUBSET Name, verdict : Verdict, suspend : BOOLEAN]

(* Conditions: Ready with its observedGeneration; Reconciling and Stalled  *)
(* are either absent (0) or True at an observedGeneration.                 *)
Conditions ==
    [ready : [status : {"None", "Unknown", "True", "False"}, gen : Gen],
     reconciling : Gen,
     stalled : Gen]

Status ==
    [inventory : SUBSET Ref, observedGeneration : Gen, lastHandled : 0 .. MaxReq]

(* The reconcile annotation: absent, DisabledValue or anything else.       *)
Annotation == {"none", "disabled", "enabled"}

Object ==
    [exists : BOOLEAN, gen : Gen, spec : MGSpec, deleting : BOOLEAN,
     finalizer : BOOLEAN, annotation : Annotation, requestedAt : 0 .. MaxReq,
     conditions : Conditions, status : Status]

NoSpec == [artifacts |-> {}, verdict |-> "ok", suspend |-> FALSE]

NoConditions ==
    [ready |-> [status |-> "None", gen |-> 0], reconciling |-> 0, stalled |-> 0]

NoStatus == [inventory |-> {}, observedGeneration |-> 0, lastHandled |-> 0]

(* An object that does not exist: never created, or (deleting) removed.    *)
Absent(gen, deleting) ==
    [exists |-> FALSE, gen |-> gen, spec |-> NoSpec, deleting |-> deleting,
     finalizer |-> FALSE, annotation |-> "none", requestedAt |-> 0,
     conditions |-> NoConditions, status |-> NoStatus]

(* An ExternalArtifact, with the UID of its ManifestGeneratorLabel and the *)
(* digest in its status.                                                   *)
EA == [exists : BOOLEAN, owner : SUBSET MG, content : Content]

NoEA == [exists |-> FALSE, owner |-> {}, content |-> NoContent]

PC == {"idle", "progress", "observe", "prepare", "build", "apply", "eastatus",
       "clean", "cleanea", "summarize"}

(* How Reconcile will return: with a requeue soon (the millisecond of      *)
(* addFinalizer, the dependency interval or an error's back-off), at the   *)
(* spec's interval, with a terminal error, or with neither.                *)
Outcome == {"none", "retry", "interval", "terminal", "stop"}

(* The locals of one pass: obj, and the object the patcher compares it     *)
(* with; the revision observed; artifacts still to build and the one in    *)
(* hand; eaRefs; references still to clean up; whether the pass's context  *)
(* has run out of its ReconciliationTimeout.                               *)
Pass ==
    [pc : PC, obj : Object, before : Object, rev : Rev, todo : SUBSET Name,
     cur : SUBSET Name, eaRefs : SUBSET Ref, orphans : SUBSET Name,
     outcome : Outcome, expired : BOOLEAN]

Idle ==
    [pc |-> "idle", obj |-> Absent(0, FALSE), before |-> Absent(0, FALSE),
     rev |-> 0, todo |-> {}, cur |-> {}, eaRefs |-> {}, orphans |-> {},
     outcome |-> "none", expired |-> FALSE]

(* Every variable has its type: in particular every observedGeneration,    *)
(* inventory digest and condition is one the API could hold.               *)
TypeOK ==
    /\ mg \in [MG -> Object]
    /\ cache \in [MG -> Object]
    /\ src \in Rev
    /\ srcCache \in Rev
    /\ ea \in [Name -> EA]
    /\ files \in [Name -> SUBSET Content]
    /\ queue \in SUBSET MG
    /\ timer \in [MG -> {"none", "retry", "interval"}]
    /\ pass \in [MG -> Pass]
    /\ faults \in 0 .. MaxFaults

Init ==
    /\ mg = [m \in MG |-> Absent(0, FALSE)]
    /\ cache = mg
    /\ src = IF "unready" \in Env THEN 0 ELSE 1
    /\ srcCache = src
    /\ ea = [n \in Name |-> NoEA]
    /\ files = [n \in Name |-> {}]
    /\ queue = {}
    /\ timer = [m \in MG |-> "none"]
    /\ pass = [m \in MG |-> Idle]
    /\ faults = 0

-----------------------------------------------------------------------------
(* Users and sources.  Every change of spec, and the deletion timestamp,   *)
(* bumps the generation; annotations do not.                               *)

Specs ==
    {s \in MGSpec : /\ s.artifacts # {}
                    /\ s.suspend => "suspend" \in Env /\ s.verdict = "ok"
                    /\ s.verdict # "ok" => "invalid" \in Env}

UNCHANGED_Controller == UNCHANGED <<srcCache, ea, files, queue, timer, pass>>

Create(m) ==
    /\ ~mg[m].exists /\ ~mg[m].deleting
    /\ \E s \in Specs :
          mg' = [mg EXCEPT ![m] = [Absent(1, FALSE) EXCEPT !.exists = TRUE,
                                                           !.spec = s]]
    /\ UNCHANGED_Controller /\ UNCHANGED <<cache, src, faults>>

EditSpec(m) ==
    /\ "edit" \in Env
    /\ mg[m].exists /\ mg[m].gen < MaxGen
    /\ \E s \in Specs :
          /\ s # mg[m].spec
          /\ mg' = [mg EXCEPT ![m].spec = s, ![m].gen = mg[m].gen + 1]
    /\ UNCHANGED_Controller /\ UNCHANGED <<cache, src, faults>>

(* The reconcile annotation is set, or changed.                            *)
Annotate(m) ==
    /\ "annotate" \in Env
    /\ mg[m].exists
    /\ \E a \in {"disabled", "enabled"} \ {mg[m].annotation} :
          mg' = [mg EXCEPT ![m].annotation = a]
    /\ UNCHANGED_Controller /\ UNCHANGED <<cache, src, faults>>

Request(m) ==
    /\ "request" \in Env
    /\ mg[m].exists /\ mg[m].requestedAt < MaxReq
    /\ mg' = [mg EXCEPT ![m].requestedAt = mg[m].requestedAt + 1]
    /\ UNCHANGED_Controller /\ UNCHANGED <<cache, src, faults>>

(* The API server removes a deleted object at once when no finalizer holds *)
(* it, and otherwise keeps it until the finalizer is taken off.            *)
Reap(o) == IF o.deleting /\ ~o.finalizer THEN Absent(o.gen, TRUE) ELSE o

Delete(m) ==
    /\ "delete" \in Env
    /\ mg[m].exists /\ ~mg[m].deleting /\ mg[m].gen < MaxGen
    /\ mg' = [mg EXCEPT ![m] = Reap([mg[m] EXCEPT !.deleting = TRUE,
                                                  !.gen = mg[m].gen + 1])]
    /\ UNCHANGED_Controller /\ UNCHANGED <<cache, src, faults>>

SourceChange ==
    /\ "source" \in Env
    /\ src < MaxRev
    /\ src' = src + 1
    /\ UNCHANGED_Controller /\ UNCHANGED <<mg, cache, faults>>

-----------------------------------------------------------------------------
(* Watches (SetupWithManager) and the work queue.                          *)

(* Mutant: requests are filtered out with the other annotations.           *)
GenerationPredicate(old, new) == old.exists # new.exists \/ old.gen # new.gen

(* predicate.Or(GenerationChangedPredicate, ReconcileRequestedPredicate);  *)
(* creations and deletions pass both.                                      *)
ManifestGeneratorPredicate(old, new) ==
    \/ old.exists # new.exists
    \/ old.gen # new.gen
    \/ new.requestedAt # 0 /\ old.requestedAt # new.requestedAt

DeliverManifestGenerator(m) ==
    /\ cache[m] # mg[m]
    /\ cache' = [cache EXCEPT ![m] = mg[m]]
    /\ queue' = IF ManifestGeneratorPredicate(cache[m], mg[m])
                THEN queue \cup {m} ELSE queue
    /\ UNCHANGED <<mg, src, srcCache, ea, files, timer, pass, faults>>

(* sourceChangePredicate on a revision that moved, then the field index of *)
(* requestsForSourceChange over the cached objects.                        *)
RequestsForSourceChange(old, new) ==
    IF new # 0 /\ (old = 0 \/ old # new) THEN {m \in MG : cache[m].exists} ELSE {}

DeliverSource ==
    /\ srcCache # src
    /\ srcCache' = src
    /\ queue' = queue \cup RequestsForSourceChange(srcCache, src)
    /\ UNCHANGED <<mg, cache, src, ea, files, timer, pass, faults>>

TimerFires(m, kind) ==
    /\ timer[m] = kind
    /\ timer' = [timer EXCEPT ![m] = "none"]
    /\ queue' = queue \cup {m}
    /\ UNCHANGED <<mg, cache, src, srcCache, ea, files, pass, faults>>

RetryTimerFires(m) == TimerFires(m, "retry")

IntervalTimerFires(m) == TimerFires(m, "interval")

-----------------------------------------------------------------------------
(* Conditions, as the gotk helpers set them on the in-memory object.       *)

MarkReady(o, st) ==
    [o EXCEPT !.conditions.ready = [status |-> st, gen |-> o.gen]]

(* MarkReconciling removes Stalled, MarkStalled removes Reconciling.       *)
MarkReconciling(o) ==
    [o EXCEPT !.conditions.reconciling = o.gen, !.conditions.stalled = 0]

MarkStalled(o) ==
    [o EXCEPT !.conditions.stalled = o.gen, !.conditions.reconciling = 0]

NewTerminalErrorFor(o) == MarkStalled(MarkReady(o, "False"))

IsDisabled(o) == o.spec.suspend \/ o.annotation = "disabled"

(* Something fails: kind says what a run lets fail.                        *)
Fault(kind) ==
    /\ kind \in Env
    /\ faults < MaxFaults
    /\ faults' = faults + 1

(* A call made with the pass's context fails: always once the context has  *)
(* expired, and before that if it is the fault.                            *)
CallFails(m, kind) ==
    IF pass[m].expired THEN UNCHANGED faults ELSE Fault(kind)

-----------------------------------------------------------------------------
(* Reconcile: the head of a pass, up to its first call out of the process. *)

(* A worker takes m off the queue and reads the cached object.  Without    *)
(* "stale" in Env, the informer has caught up when it does.                *)
Take(m) ==
    /\ m \in queue
    /\ pass[m].pc = "idle"
    /\ "stale" \in Env \/ cache[m] = mg[m]
    /\ queue' = queue \ {m}
    /\ UNCHANGED <<mg, cache, src, srcCache, ea, files, timer>>

(* The pass of m begins at pc, obj being the cached object as changed so   *)
(* far.                                                                    *)
Begin(m, pc, obj, orphans, outcome) ==
    /\ Take(m)
    /\ pass' = [pass EXCEPT ![m] =
                   [Idle EXCEPT !.pc = pc, !.obj = obj, !.before = cache[m],
                                !.orphans = orphans, !.outcome = outcome]]

StartGone(m) ==
    /\ Take(m)
    /\ ~cache[m].exists
    /\ UNCHANGED <<pass, faults>>

(* Mutant: disabled is looked at before the deletion timestamp.            *)
FinalizeUnlessDisabled(m) ==
    /\ cache[m].exists /\ cache[m].deleting /\ ~IsDisabled(cache[m])
    /\ Begin(m, "clean", cache[m], Names(cache[m].status.inventory), "stop")
    /\ UNCHANGED faults

(* Mutant: the inventory is not cleaned up.                                *)
FinalizeKeepsArtifacts(m) ==
    /\ cache[m].exists /\ cache[m].deleting
    /\ Begin(m, "clean", cache[m], {}, "stop")
    /\ UNCHANGED faults

StartFinalize(m) ==
    /\ cache[m].exists /\ cache[m].deleting
    /\ Begin(m, "clean", cache[m], Names(cache[m].status.inventory), "stop")
    /\ UNCHANGED faults

AddFinalizer(o) ==
    LET f == [o EXCEPT !.finalizer = TRUE]
    IN  IF IsDisabled(o) THEN MarkReady(f, "True")
        ELSE MarkReconciling(MarkReady(f, "Unknown"))

(* Mutant: nothing asks for the pass after the finalizer.                  *)
AddFinalizerNoRequeue(m) ==
    /\ cache[m].exists /\ ~cache[m].deleting /\ ~cache[m].finalizer
    /\ Begin(m, "summarize", AddFinalizer(cache[m]), {}, "stop")
    /\ UNCHANGED faults

StartAddFinalizer(m) ==
    /\ cache[m].exists /\ ~cache[m].deleting /\ ~cache[m].finalizer
    /\ Begin(m, "summarize", AddFinalizer(cache[m]), {}, "retry")
    /\ UNCHANGED faults

(* Mutant: the finalizer is not checked.                                   *)
ReconcilableUnfinalized(o) == o.exists /\ ~o.deleting

Reconcilable(o) == o.exists /\ ~o.deleting /\ o.finalizer

StartDisabled(m) ==
    /\ Reconcilable(cache[m]) /\ IsDisabled(cache[m])
    /\ Begin(m, "summarize", cache[m], {}, "stop")
    /\ UNCHANGED faults

StartInvalid(m) ==
    /\ Reconcilable(cache[m]) /\ ~IsDisabled(cache[m])
    /\ cache[m].spec.verdict = "invalid"
    /\ Begin(m, "summarize", NewTerminalErrorFor(cache[m]), {}, "terminal")
    /\ UNCHANGED faults

StartReconcile(m) ==
    /\ Reconcilable(cache[m]) /\ ~IsDisabled(cache[m])
    /\ cache[m].spec.verdict = "ok"
    /\ Begin(m, "progress", MarkReady(MarkReconciling(cache[m]), "Unknown"), {}, "none")
    /\ UNCHANGED faults

(* reconcile cannot create its temporary directory.                        *)
StartTmpDirFails(m) ==
    /\ Reconcilable(cache[m]) /\ ~IsDisabled(cache[m])
    /\ cache[m].spec.verdict = "ok"
    /\ Begin(m, "summarize", cache[m], {}, "retry")
    /\ Fault("io")

-----------------------------------------------------------------------------
(* reconcile: one action per call that leaves the process.                 *)

At(m, pc) == pass[m].pc = pc

(* The part of the pass after a failure: obj carries the conditions the    *)
(* failing branch set, and only the deferred summarizeStatus is left.      *)
Return(m, obj, outcome) ==
    pass' = [pass EXCEPT ![m] =
                [Idle EXCEPT !.pc = "summarize", !.obj = obj,
                             !.before = pass[m].before, !.outcome = outcome,
                             !.expired = pass[m].expired]]

(* Mutant: a failed pass also records the generation.                      *)
FailedObserved(m) ==
    Return(m, MarkReady([pass[m].obj EXCEPT
                 !.status.observedGeneration = pass[m].obj.gen], "False"), "retry")

(* Mutant: nothing asks for another pass.                                  *)
FailedStops(m) == Return(m, MarkReady(pass[m].obj, "False"), "stop")

Failed(m) == Return(m, MarkReady(pass[m].obj, "False"), "retry")

(* Merge patch: the fields obj changed since before are written, the rest  *)
(* keep the value the API server has.                                      *)
Merge(before, obj, api) == IF obj = before THEN api ELSE obj

MergeConditions(before, obj, api) ==
    [ready |-> Merge(before.ready, obj.ready, api.ready),
     reconciling |-> Merge(before.reconciling, obj.reconciling, api.reconciling),
     stalled |-> Merge(before.stalled, obj.stalled, api.stalled)]

(* Mutant: the whole status is written, not what changed.                  *)
ReplaceStatus(before, obj, api) == obj

MergeStatus(before, obj, api) ==
    [inventory |-> Merge(before.inventory, obj.inventory, api.inventory),
     observedGeneration |->
        Merge(before.observedGeneration, obj.observedGeneration, api.observedGeneration),
     lastHandled |-> Merge(before.lastHandled, obj.lastHandled, api.lastHandled)]

(* SerialPatcher.Patch makes three writes; parts are the ones that         *)
(* succeed.                                                                *)
Parts == {"conditions", "metadata", "status"}

Patched(before, obj, api, parts) ==
    Reap([api EXCEPT
            !.conditions = IF "conditions" \in parts
                THEN MergeConditions(before.conditions, obj.conditions, api.conditions)
                ELSE api.conditions,
            !.finalizer = IF "metadata" \in parts
                THEN Merge(before.finalizer, obj.finalizer, api.finalizer)
                ELSE api.finalizer,
            !.status = IF "status" \in parts
                THEN MergeStatus(before.status, obj.status, api.status)
                ELSE api.status])

PatchProgress(m) ==
    /\ At(m, "progress") /\ ~pass[m].expired
    /\ mg[m].exists
    /\ mg' = [mg EXCEPT ![m] = Patched(pass[m].before, pass[m].obj, mg[m], Parts)]
    /\ pass' = [pass EXCEPT ![m].pc = "observe", ![m].before = pass[m].obj]
    /\ UNCHANGED <<cache, src, srcCache, ea, files, queue, timer, faults>>

PatchProgressFails(m) ==
    /\ At(m, "progress")
    /\ CallFails(m, "status")
    /\ Return(m, pass[m].obj, "retry")
    /\ UNCHANGED <<mg, cache, src, srcCache, ea, files, queue, timer>>

(* observeSources: every source has an artifact in the cache.              *)
ObserveSources(m) ==
    /\ At(m, "observe")
    /\ srcCache # 0
    /\ pass' = [pass EXCEPT ![m].pc = "prepare", ![m].rev = srcCache]
    /\ UNCHANGED <<mg, cache, src, srcCache, ea, files, queue, timer, faults>>

SourcesNotReady(m) ==
    /\ At(m, "observe")
    /\ srcCache = 0
    /\ Failed(m)
    /\ UNCHANGED <<mg, cache, src, srcCache, ea, files, queue, timer, faults>>

(* fetchSources, resolveValues and runPipeline: nothing is written outside *)
(* the pass until all three are done.                                      *)
Prepare(m) ==
    /\ At(m, "prepare") /\ ~pass[m].expired
    /\ pass' = [pass EXCEPT ![m].pc = "build", ![m].todo = pass[m].obj.spec.artifacts]
    /\ UNCHANGED <<mg, cache, src, srcCache, ea, files, queue, timer, faults>>

(* A source cannot be read or downloaded, values cannot be fetched, or the *)
(* pipeline fails.  observeSources reads the cache, which asks no context. *)
PrepareFails(m) ==
    /\ \/ At(m, "observe") /\ Fault("io")
       \/ At(m, "prepare") /\ CallFails(m, "io")
    /\ Failed(m)
    /\ UNCHANGED <<mg, cache, src, srcCache, ea, files, queue, timer>>

Digest(m) == [by |-> {m}, gen |-> pass[m].obj.gen, rev |-> pass[m].rev]

(* Mutant: nothing is archived when the inventory has the digest.          *)
BuildUnlessRecorded(m) ==
    /\ At(m, "build") /\ ~pass[m].expired
    /\ \E n \in pass[m].todo :
          /\ files' = IF [name |-> n, content |-> Digest(m)] \in pass[m].obj.status.inventory
                      THEN files ELSE [files EXCEPT ![n] = @ \cup {Digest(m)}]
          /\ pass' = [pass EXCEPT ![m].pc = "apply", ![m].cur = {n}]
    /\ UNCHANGED <<mg, cache, src, srcCache, ea, queue, timer, faults>>

(* Builder.Build archives the staged files in storage.                     *)
Build(m) ==
    /\ At(m, "build") /\ ~pass[m].expired
    /\ \E n \in pass[m].todo :
          /\ files' = [files EXCEPT ![n] = @ \cup {Digest(m)}]
          /\ pass' = [pass EXCEPT ![m].pc = "apply", ![m].cur = {n}]
    /\ UNCHANGED <<mg, cache, src, srcCache, ea, queue, timer, faults>>

(* The file is named by a 32-bit checksum of the content: it may be the    *)
(* name of another content of the artifact, which is then overwritten.     *)
BuildCollides(m) ==
    /\ At(m, "build") /\ ~pass[m].expired
    /\ Fault("collide")
    /\ \E n \in pass[m].todo :
          /\ files' = [files EXCEPT ![n] = {Digest(m)}]
          /\ pass' = [pass EXCEPT ![m].pc = "apply", ![m].cur = {n}]
    /\ UNCHANGED <<mg, cache, src, srcCache, ea, queue, timer>>

BuildFails(m) ==
    /\ At(m, "build")
    /\ CallFails(m, "io")
    /\ Failed(m)
    /\ UNCHANGED <<mg, cache, src, srcCache, ea, files, queue, timer>>

(* reconcileExternalArtifact: a forced server-side apply takes the label   *)
(* from whoever holds it ...                                               *)
ApplyExternalArtifact(m) ==
    /\ At(m, "apply") /\ ~pass[m].expired
    /\ \E n \in pass[m].cur :
          ea' = [ea EXCEPT ![n].exists = TRUE, ![n].owner = {m}]
    /\ pass' = [pass EXCEPT ![m].pc = "eastatus"]
    /\ UNCHANGED <<mg, cache, src, srcCache, files, queue, timer, faults>>

(* Mutant: an orphan is never found.                                       *)
OrphansForgotten(inventory, current) == {}

(* Mutant: entries are compared with their digests.                        *)
OrphansByDigest(inventory, current) == Names(inventory \ current)

(* findOrphanedReferences compares names.                                  *)
FindOrphanedReferences(inventory, current) == Names(inventory) \ Names(current)

(* ... and the status patch publishes the artifact.  It carries the        *)
(* resourceVersion the apply returned, and between the two only another    *)
(* generator's apply or a deletion changes the object, so that it goes     *)
(* through as long as the label is still this generator's.  After the      *)
(* last one the orphans are known.                                         *)
PatchExternalArtifactStatus(m) ==
    /\ At(m, "eastatus") /\ ~pass[m].expired
    /\ \E n \in pass[m].cur :
          LET refs == pass[m].eaRefs \cup {[name |-> n, content |-> Digest(m)]}
              todo == pass[m].todo \ {n}
          IN  /\ ea[n].exists /\ ea[n].owner = {m}
              /\ ea' = [ea EXCEPT ![n].content = Digest(m)]
              /\ pass' = [pass EXCEPT
                    ![m].pc = IF todo = {} THEN "clean" ELSE "build",
                    ![m].cur = {}, ![m].todo = todo, ![m].eaRefs = refs,
                    ![m].orphans = IF todo = {}
                        THEN FindOrphanedReferences(pass[m].obj.status.inventory, refs)
                        ELSE {}]
    /\ UNCHANGED <<mg, cache, src, srcCache, files, queue, timer, faults>>

ExternalArtifactFails(m) ==
    /\ At(m, "apply") \/ At(m, "eastatus")
    /\ CallFails(m, "api")
    /\ Failed(m)
    /\ UNCHANGED <<mg, cache, src, srcCache, ea, files, queue, timer>>

(* The object has been changed or deleted since the apply: the status      *)
(* patch is refused as a conflict, or finds nothing.                       *)
ExternalArtifactChanged(m) ==
    /\ At(m, "eastatus") /\ ~pass[m].expired
    /\ \A n \in pass[m].cur : ~(ea[n].exists /\ ea[n].owner = {m})
    /\ Failed(m)
    /\ UNCHANGED <<mg, cache, src, srcCache, ea, files, queue, timer, faults>>

-----------------------------------------------------------------------------
(* finalizeExternalArtifacts: for each reference, remove its tarballs,     *)
(* then delete the object.  An error is logged and the loop goes on; the   *)
(* label of the object is not looked at.                                   *)

CleanStorage(m) ==
    /\ At(m, "clean")
    /\ \E n \in pass[m].orphans :
          /\ files' = [files EXCEPT ![n] = {}]
          /\ pass' = [pass EXCEPT ![m].pc = "cleanea", ![m].cur = {n}]
    /\ UNCHANGED <<mg, cache, src, srcCache, ea, queue, timer, faults>>

CleanStorageFails(m) ==
    /\ At(m, "clean")
    /\ \E n \in pass[m].orphans :
          pass' = [pass EXCEPT ![m].pc = "cleanea", ![m].cur = {n}]
    /\ Fault("io")
    /\ UNCHANGED <<mg, cache, src, srcCache, ea, files, queue, timer>>

CleanNext(m) ==
    pass' = [pass EXCEPT ![m].pc = "clean", ![m].cur = {},
                         ![m].orphans = @ \ pass[m].cur]

CleanExternalArtifact(m) ==
    /\ At(m, "cleanea") /\ ~pass[m].expired
    /\ ea' = [n \in Name |-> IF n \in pass[m].cur THEN NoEA ELSE ea[n]]
    /\ CleanNext(m)
    /\ UNCHANGED <<mg, cache, src, srcCache, files, queue, timer, faults>>

CleanExternalArtifactFails(m) ==
    /\ At(m, "cleanea")
    /\ CallFails(m, "api")
    /\ CleanNext(m)
    /\ UNCHANGED <<mg, cache, src, srcCache, ea, files, queue, timer>>

-----------------------------------------------------------------------------
(* The end of a pass.                                                      *)

(* Mutant: the tarball of this pass is collected too.                      *)
GarbageCollectAll(m, spared) ==
    \E old \in SUBSET Names(pass[m].eaRefs) :
        files' = [n \in Name |-> IF n \in old THEN {} ELSE files[n]]

(* GarbageCollect may remove any tarball of the artifacts just built that  *)
(* is past the retention time; spared are the contents that are younger.   *)
(* The path it is given ends in "*" and so names no tarball to keep.       *)
GarbageCollect(m, spared) ==
    \E old \in SUBSET Names(pass[m].eaRefs) :
        files' = [n \in Name |-> IF n \in old THEN files[n] \cap spared ELSE files[n]]

(* Mutant: off by one.                                                     *)
SucceededNextGeneration(o, refs) ==
    MarkReady([o EXCEPT !.status.inventory = refs,
                        !.status.observedGeneration = o.gen + 1], "True")

Succeeded(o, refs) ==
    MarkReady([o EXCEPT !.status.inventory = refs,
                        !.status.observedGeneration = o.gen], "True")

Complete(m) ==
    /\ At(m, "clean")
    /\ pass[m].orphans = {} /\ ~pass[m].obj.deleting
    /\ GarbageCollect(m, {Digest(m)})
    /\ Return(m, Succeeded(pass[m].obj, pass[m].eaRefs), "interval")
    /\ UNCHANGED <<mg, cache, src, srcCache, ea, queue, timer, faults>>

(* The pass took longer than the retention time of the storage, which is   *)
(* set apart from the ten minutes a pass has: what it archived first is    *)
(* old enough to be collected.                                             *)
CompleteSlowly(m) ==
    /\ At(m, "clean")
    /\ pass[m].orphans = {} /\ ~pass[m].obj.deleting
    /\ Fault("slow")
    /\ GarbageCollect(m, {})
    /\ Return(m, Succeeded(pass[m].obj, pass[m].eaRefs), "interval")
    /\ UNCHANGED <<mg, cache, src, srcCache, ea, queue, timer>>

RemoveFinalizer(m) ==
    /\ At(m, "clean")
    /\ pass[m].orphans = {} /\ pass[m].obj.deleting
    /\ Return(m, [pass[m].obj EXCEPT !.finalizer = FALSE], "stop")
    /\ UNCHANGED <<mg, cache, src, srcCache, ea, files, queue, timer, faults>>

(* Mutant: Reconciling is left in place.                                   *)
SummaryKeepsReconciling(o) ==
    [o EXCEPT !.status.lastHandled = IF o.requestedAt # 0 THEN o.requestedAt ELSE @]

(* summarizeStatus, on the in-memory object.                               *)
Summary(o) ==
    [o EXCEPT !.status.lastHandled = IF o.requestedAt # 0 THEN o.requestedAt ELSE @,
              !.conditions.reconciling =
                 IF o.conditions.ready.status = "True" \/ o.conditions.stalled # 0
                 THEN 0 ELSE @]

(* Mutant: a failed status patch is only logged.                           *)
RequeueResultOnly(m, outcome, failed) ==
    timer' = [timer EXCEPT ![m] =
                CASE outcome = "retry" -> "retry"
                  [] outcome = "interval" /\ @ = "none" -> "interval"
                  [] OTHER -> @]

(* What controller-runtime does with the result: a terminal error, alone   *)
(* or in an aggregate, is not retried; any other error is; the earlier of  *)
(* two delays wins.                                                        *)
Requeue(m, outcome, failed) ==
    timer' = [timer EXCEPT ![m] =
                CASE outcome = "terminal" -> @
                  [] outcome # "terminal" /\ (failed \/ outcome = "retry") -> "retry"
                  [] outcome = "interval" /\ ~failed /\ @ = "none" -> "interval"
                  [] OTHER -> @]

(* The deferred summarizeStatus and the return to the work queue.          *)
Summarize(m) ==
    /\ At(m, "summarize") /\ ~pass[m].expired
    /\ mg[m].exists
    /\ mg' = [mg EXCEPT ![m] =
                Patched(pass[m].before, Summary(pass[m].obj), mg[m], Parts)]
    /\ Requeue(m, pass[m].outcome, FALSE)
    /\ pass' = [pass EXCEPT ![m] = Idle]
    /\ UNCHANGED <<cache, src, srcCache, ea, files, queue, faults>>

SummarizeFails(m) ==
    /\ At(m, "summarize")
    /\ mg[m].exists
    /\ CallFails(m, "status")
    /\ \E parts \in IF pass[m].expired THEN {{}} ELSE SUBSET Parts \ {Parts} :
          mg' = [mg EXCEPT ![m] =
                   Patched(pass[m].before, Summary(pass[m].obj), mg[m], parts)]
    /\ Requeue(m, pass[m].outcome, TRUE)
    /\ pass' = [pass EXCEPT ![m] = Idle]
    /\ UNCHANGED <<cache, src, srcCache, ea, files, queue>>

(* The object is gone: NotFound is an error unless the pass read it as     *)
(* being deleted, and an expired context never gets as far as NotFound.    *)
SummarizeGone(m) ==
    /\ At(m, "summarize")
    /\ ~mg[m].exists
    /\ Requeue(m, pass[m].outcome, pass[m].expired \/ ~pass[m].obj.deleting)
    /\ pass' = [pass EXCEPT ![m] = Idle]
    /\ UNCHANGED <<mg, cache, src, srcCache, ea, files, queue, faults>>

(* The ReconciliationTimeout of the manager cancels the pass's context,    *)
(* which the deferred status patch uses as well.                           *)
TimeoutExpires(m) ==
    /\ ~At(m, "idle") /\ ~pass[m].expired
    /\ Fault("timeout")
    /\ pass' = [pass EXCEPT ![m].expired = TRUE]
    /\ UNCHANGED <<mg, cache, src, srcCache, ea, files, queue, timer>>

(* A panic unwinds through the deferred status patch, with the object as   *)
(* far as the pass got; RecoverPanic turns it into an error.               *)
Panic(m) ==
    /\ ~At(m, "idle") /\ ~At(m, "summarize")
    /\ Fault("panic")
    /\ Return(m, pass[m].obj, "retry")
    /\ UNCHANGED <<mg, cache, src, srcCache, ea, files, queue, timer>>

(* The process dies and comes back: informers list everything again, and   *)
(* every object listed is a creation event.  /data is an emptyDir: it      *)
(* survives the container, not the pod.                                    *)
Restart(kind) ==
    /\ Fault(kind)
    /\ cache' = mg
    /\ srcCache' = src
    /\ queue' = {m \in MG : mg[m].exists}
    /\ timer' = [m \in MG |-> "none"]
    /\ pass' = [m \in MG |-> Idle]
    /\ files' = IF kind = "podloss" THEN [n \in Name |-> {}] ELSE files
    /\ UNCHANGED <<mg, src, ea>>

-----------------------------------------------------------------------------
User(m) == Create(m) \/ EditSpec(m) \/ Annotate(m) \/ Request(m) \/ Delete(m)

Start(m) ==
    \/ StartGone(m) \/ StartFinalize(m) \/ StartAddFinalizer(m)
    \/ StartDisabled(m) \/ StartInvalid(m) \/ StartReconcile(m)

Work(m) ==
    \/ PatchProgress(m) \/ ObserveSources(m) \/ SourcesNotReady(m)
    \/ Prepare(m)
    \/ Build(m) \/ ApplyExternalArtifact(m) \/ PatchExternalArtifactStatus(m)
    \/ ExternalArtifactChanged(m)
    \/ CleanStorage(m) \/ CleanExternalArtifact(m)
    \/ Complete(m) \/ RemoveFinalizer(m)
    \/ Summarize(m) \/ SummarizeGone(m)

Fails(m) ==
    \/ StartTmpDirFails(m) \/ PatchProgressFails(m) \/ PrepareFails(m)
    \/ BuildFails(m) \/ ExternalArtifactFails(m)
    \/ CleanStorageFails(m) \/ CleanExternalArtifactFails(m)
    \/ SummarizeFails(m) \/ CompleteSlowly(m) \/ BuildCollides(m) \/ Panic(m)

Next ==
    \/ SourceChange \/ DeliverSource
    \/ Restart("crash") \/ Restart("podloss")
    \/ \E m \in MG :
          \/ User(m) \/ DeliverManifestGenerator(m)
          \/ RetryTimerFires(m) \/ IntervalTimerFires(m)
          \/ Start(m) \/ Work(m) \/ Fails(m) \/ TimeoutExpires(m)

Spec == Init /\ [][Next]_vars

(* Informers deliver what they have watched, workers (ten of them) take    *)
(* queued keys and finish what they take (or, their context expired, fail  *)
(* to), and a back-off or dependency delay expires.  Nothing is assumed of *)
(* users, sources, failures, or of the reconcile interval, which may be    *)
(* hours.                                                                  *)
Fairness ==
    /\ WF_vars(DeliverSource)
    /\ \A m \in MG : /\ WF_vars(DeliverManifestGenerator(m))
                     /\ WF_vars(RetryTimerFires(m))
                     /\ WF_vars(Start(m))
                     /\ WF_vars(Work(m) \/ (pass[m].expired /\ Fails(m)))

LiveSpec == Spec /\ Fairness

(* With the reconcile interval expiring too.                               *)
IntervalSpec == LiveSpec /\ \A m \in MG : WF_vars(IntervalTimerFires(m))

-----------------------------------------------------------------------------
(* Properties that hold whatever the environment does.                     *)

(* An ExternalArtifact is applied, or its status patched, for a            *)
(* ManifestGenerator only while that object is in the API server with the  *)
(* finalizer on it: otherwise nothing would ever clean the artifact up.    *)
(* Reconcile checks the finalizer on a cached object, many steps earlier.  *)
PublishedUnderFinalizer ==
    [][\A m \in MG :
          (ApplyExternalArtifact(m) \/ PatchExternalArtifactStatus(m))
             => mg[m].exists /\ mg[m].finalizer]_vars

(* Why it holds: what the cache says of the finalizer stays true while no  *)
(* pass has read the object as being deleted, and only such a pass takes   *)
(* the finalizer off.                                                      *)
Publishing == {"progress", "observe", "prepare", "build", "apply", "eastatus"}

CacheKnowsFinalizer(m) ==
    /\ Reconcilable(cache[m]) => mg[m].exists /\ mg[m].finalizer
    /\ cache[m].deleting => mg[m].deleting

PassKeepsFinalizer(m) ==
    /\ pass[m].pc \in Publishing => /\ mg[m].exists /\ mg[m].finalizer
                                    /\ pass[m].obj.finalizer
    /\ pass[m].obj.deleting => cache[m].deleting /\ mg[m].deleting
    /\ pass[m].before.finalizer /\ ~pass[m].obj.finalizer => pass[m].obj.deleting

FinalizerInv == \A m \in MG : CacheKnowsFinalizer(m) /\ PassKeepsFinalizer(m)

(* Why nothing goes backwards.  A copy is never newer than what it was     *)
(* copied from, and one pass of a key follows another: whatever the API    *)
(* server says has been handled, or an ExternalArtifact advertises, comes  *)
(* from a pass that read no more than the cache, and the pass now running, *)
(* have read.                                                              *)
CopiesInOrder(m) ==
    /\ mg[m].gen = 0 => ~mg[m].exists /\ cache[m] = mg[m] /\ pass[m] = Idle
    /\ cache[m].gen <= mg[m].gen
    /\ pass[m].obj.gen <= cache[m].gen
    /\ mg[m].exists => /\ cache[m].requestedAt <= mg[m].requestedAt
                       /\ pass[m].obj.requestedAt <= cache[m].requestedAt

GoneIsEmpty(m) ==
    /\ ~mg[m].exists => mg[m] = Absent(mg[m].gen, mg[m].gen # 0)
    /\ mg[m].exists /\ mg[m].deleting => mg[m].finalizer

HandledWasRead(m) ==
    /\ mg[m].status.observedGeneration <= cache[m].gen
    /\ mg[m].status.lastHandled <= cache[m].requestedAt
    /\ ~At(m, "idle") =>
          /\ mg[m].status.observedGeneration <= pass[m].obj.gen
          /\ mg[m].status.lastHandled <= pass[m].obj.requestedAt

HasRevision == {"prepare", "build", "apply", "eastatus"}

PublishedWasRead(m) ==
    /\ pass[m].rev <= srcCache
    /\ \A n \in Name : ea[n].content.by = {m} =>
          /\ ea[n].content.gen <= cache[m].gen
          /\ ea[n].content.rev <= srcCache
          /\ ~At(m, "idle") => ea[n].content.gen <= pass[m].obj.gen
          /\ pass[m].pc \in HasRevision => ea[n].content.rev <= pass[m].rev

(* A pass changes nothing in its object but the conditions until it is     *)
(* done, and holds a guarded object unless it finalizes one or guards it.  *)
PassInOrder(m) ==
    LET p == pass[m] IN
    /\ p.pc # "summarize" => p.obj.status = p.before.status
    /\ p.obj.status.lastHandled = p.before.status.lastHandled
    /\ p.obj.status.observedGeneration # p.before.status.observedGeneration =>
          /\ p.obj.status.observedGeneration = p.obj.gen
          /\ p.before.finalizer /\ ~p.obj.deleting
    /\ p.before.finalizer /\ ~p.obj.deleting =>
          mg[m].exists /\ mg[m].finalizer /\ p.obj.finalizer
    /\ p.pc \notin {"idle", "summarize"} => p.before.finalizer \/ p.obj.deleting
    /\ p.pc \in {"apply", "eastatus", "cleanea"} => \E n \in Name : p.cur = {n}

History(m) ==
    /\ CopiesInOrder(m) /\ GoneIsEmpty(m) /\ HandledWasRead(m)
    /\ PublishedWasRead(m) /\ PassInOrder(m)

HistoryInv == srcCache <= src /\ \A m \in MG : History(m)

(* What a pass has published is in storage at that moment: also after the  *)
(* volume was lost, or the inventory already had the digest, Build         *)
(* archives again before the status of the ExternalArtifact names it.      *)
PublishedIsStored ==
    [][\A m \in MG : \A r \in pass'[m].eaRefs \ pass[m].eaRefs :
          r.content \in files'[r.name] /\ ea'[r.name].content = r.content]_vars

(* status.observedGeneration moves to a generation only when every         *)
(* artifact of that generation's spec is published from that generation,   *)
(* under this owner's label, and still there after the orphan cleanup.     *)
ObservedIsPublished ==
    [][\A m \in MG :
          (/\ mg'[m].exists
           /\ mg'[m].status.observedGeneration # mg[m].status.observedGeneration)
          => \A n \in pass[m].obj.spec.artifacts :
                /\ ea[n].exists /\ ea[n].owner = {m}
                /\ ea[n].content.gen = mg'[m].status.observedGeneration]_vars

(* Both are about generators that do not claim each other's names: no pass *)
(* builds, publishes or cleans up a name of the spec another one is at.    *)
Touches(m) ==
    pass[m].todo \cup pass[m].cur \cup pass[m].orphans \cup Names(pass[m].eaRefs)

Uncontended ==
    \A m, k \in MG : m # k => pass[m].obj.spec.artifacts \cap Touches(k) = {}

(* Why they hold: what a pass has archived or published stays as it is     *)
(* until the pass has recorded it.                                         *)
Holds(m, n, gen) ==
    ea[n].exists /\ ea[n].owner = {m} /\ ea[n].content.gen = gen

PassHoldsArtifacts(m) ==
    LET p == pass[m]
        artifacts == p.obj.spec.artifacts
    IN
    /\ Names(p.eaRefs) \subseteq artifacts
    /\ \A n \in Names(p.eaRefs) : Holds(m, n, p.obj.gen)
    /\ p.obj.deleting => p.pc \notin Publishing /\ p.eaRefs = {}
    /\ p.pc \in {"progress", "observe", "prepare"} => p.eaRefs = {}
    /\ p.pc \in {"build", "apply", "eastatus"} =>
          p.todo \cup Names(p.eaRefs) = artifacts
    /\ p.pc \in {"apply", "eastatus"} =>
          p.cur \subseteq p.todo /\ \A n \in p.cur : Digest(m) \in files[n]
    /\ p.pc = "eastatus" => \A n \in p.cur : ea[n].owner = {m}
    /\ p.pc \in {"clean", "cleanea"} /\ ~p.obj.deleting =>
          Names(p.eaRefs) = artifacts /\ (p.orphans \cup p.cur) \cap artifacts = {}
    /\ p.obj.status.observedGeneration # p.before.status.observedGeneration =>
          \A n \in artifacts : Holds(m, n, p.obj.gen)

PublishingInv == \A m \in MG : PassHoldsArtifacts(m)

(* A pass that read an old object never takes observedGeneration or        *)
(* lastHandledReconcileAt back, and never runs ahead of the generation.    *)
StatusOnlyAdvances ==
    [][\A m \in MG : mg'[m].exists =>
          /\ mg'[m].status.observedGeneration >= mg[m].status.observedGeneration
          /\ mg'[m].status.lastHandled >= mg[m].status.lastHandled
          /\ mg'[m].status.observedGeneration <= mg'[m].gen]_vars

-----------------------------------------------------------------------------
(* Properties of runs without failures whose informer has caught up        *)
(* whenever a pass begins.                                                 *)

Owned(m) == {n \in Name : m \in ea[n].owner}

(* Once a ManifestGenerator is gone from the API server, no                *)
(* ExternalArtifact carries its label: the finalizer is "removed only      *)
(* after orphan cleanup succeeds".                                         *)
FinalizerGuardsArtifacts ==
    \A m \in MG : ~mg[m].exists => Owned(m) = {}

(* Between passes, status.inventory is the ExternalArtifacts the object    *)
(* owns, with the digests they serve.                                      *)
InventoryIsOwned ==
    \A m \in MG : At(m, "idle") /\ mg[m].exists =>
        mg[m].status.inventory =
            {[name |-> n, content |-> ea[n].content] : n \in Owned(m)}

(* The conditions follow the kstatus rules in every state the API server   *)
(* shows: never both Reconciling and Stalled, and neither beside           *)
(* Ready=True.                                                             *)
Consistent(c) ==
    /\ c.reconciling = 0 \/ c.stalled = 0
    /\ c.ready.status = "True" => c.reconciling = 0 /\ c.stalled = 0
    /\ c.stalled # 0 => c.ready.status = "False"

ConditionsConsistent == \A m \in MG : Consistent(mg[m].conditions)

(* While Ready=True is shown, everything in the inventory can be           *)
(* downloaded: the ExternalArtifact has the digest and storage the         *)
(* tarball, through orphan cleanup and garbage collection.                 *)
Stored(refs) ==
    \A r \in refs : ea[r.name].content = r.content /\ r.content \in files[r.name]

ReadyIsServed ==
    \A m \in MG :
        (mg[m].exists /\ ~mg[m].deleting /\ mg[m].conditions.ready.status = "True")
        => Stored(mg[m].status.inventory)

(* An object nobody will look at again without a new event (not queued, no *)
(* timer, no pass, informers caught up) is disabled, or is stalled and     *)
(* says so for its current generation, or was enabled by its annotation,   *)
(* which is no event to the watch.                                         *)
ParkedIsAccounted ==
    \A m \in MG :
        (/\ mg[m].exists /\ cache[m] = mg[m] /\ srcCache = src
         /\ At(m, "idle") /\ m \notin queue /\ timer[m] = "none")
        => \/ IsDisabled(mg[m]) \/ mg[m].annotation = "enabled"
           \/ /\ mg[m].conditions.stalled = mg[m].gen
              /\ mg[m].conditions.ready = [status |-> "False", gen |-> mg[m].gen]

(* When they hold: nothing has failed so far and passes begin with the     *)
(* informer caught up.                                                     *)
Calm == faults = 0 /\ "stale" \notin Env

(* Those about ExternalArtifacts hold of generators that keep to           *)
(* themselves: no pass is at a name that another one's inventory lists, or *)
(* that is in the spec another pass works on.                              *)
Reserved(m) == pass[m].obj.spec.artifacts \cup Names(mg[m].status.inventory)

Exclusive == \A m, k \in MG : m # k => Reserved(m) \cap Touches(k) = {}

(* Why they hold.  A pass works on what the API server has: meanwhile only *)
(* its user changes the object, and what he changes re-queues it.          *)
PassIsCurrent(m) ==
    LET p == pass[m]
        o == mg[m]
    IN
    /\ ~p.expired
    /\ p.pc # "idle" /\ o.exists =>
          /\ p.before.finalizer = o.finalizer
          /\ p.before.conditions = o.conditions
          /\ p.before.status = o.status
          /\ p.obj.gen = o.gen => p.obj.spec = o.spec
          /\ p.obj.annotation # "none" => o.annotation # "none"
          /\ p.obj.gen = o.gen \/ cache[m].gen # o.gen \/ m \in queue
    /\ p.pc # "idle" /\ p.obj.deleting => p.before.finalizer /\ p.pc \notin Publishing
    /\ p.pc # "idle" /\ p.before.finalizer => o.exists
    /\ p.pc = "summarize" => p.obj.finalizer = ~p.obj.deleting

(* The conditions of a pass: Reconciling and Unknown while it works, and   *)
(* what it will show at its end.                                           *)
PassIsConsistent(m) ==
    LET p == pass[m] IN
    /\ Consistent(mg[m].conditions)
    /\ ~mg[m].finalizer => mg[m].conditions = NoConditions
    /\ p.pc \notin {"idle", "progress", "summarize"} =>
          p.obj.conditions = p.before.conditions
    /\ p.pc \in Publishing \/ (p.pc \in {"clean", "cleanea"} /\ ~p.obj.deleting) =>
          p.obj.conditions.stalled = 0 /\ p.obj.conditions.ready.status = "Unknown"
    /\ p.pc = "summarize" => Consistent(Summary(p.obj).conditions)

(* Who will look at an object again, or why nobody has to.                 *)
Stalled(c, gen) == c.stalled = gen /\ c.ready = [status |-> "False", gen |-> gen]

PutAside(o) == o.spec.suspend \/ o.annotation # "none"

WillBeSeen(m) ==
    LET p == pass[m] IN
    mg[m].exists =>
        \/ cache[m].gen # mg[m].gen \/ m \in queue \/ timer[m] # "none"
        \/ p.pc = "idle" /\ (PutAside(mg[m]) \/ Stalled(mg[m].conditions, mg[m].gen))
        \/ p.pc \notin {"idle", "summarize"}
        \/ /\ p.pc = "summarize"
           /\ \/ p.obj.deleting \/ p.outcome \in {"retry", "interval"}
              \/ p.outcome = "terminal" /\ Stalled(p.obj.conditions, p.obj.gen)
              \/ p.outcome = "stop" /\ PutAside(mg[m])

CalmInv ==
    \A m \in MG : PassIsCurrent(m) /\ PassIsConsistent(m) /\ WillBeSeen(m)

(* At every call of a pass it is known what the generator owns, although   *)
(* the inventory is written only at the end.                               *)
Served(m) == {[name |-> n, content |-> ea[n].content] : n \in Owned(m)}

PassKnowsOwned(m) ==
    LET p == pass[m]
        inventory == p.obj.status.inventory
    IN
    /\ Owned(m) \subseteq Reserved(m)
    /\ ~mg[m].finalizer => Owned(m) = {}
    /\ p.pc = "idle" /\ mg[m].exists => mg[m].status.inventory = Served(m)
    /\ p.pc \in {"progress", "observe", "prepare"} => inventory = Served(m)
    /\ p.pc \in {"build", "apply"} => Owned(m) = Names(inventory) \cup Names(p.eaRefs)
    /\ p.pc = "eastatus" => Owned(m) = Names(inventory) \cup Names(p.eaRefs) \cup p.cur
    /\ p.pc \in {"clean", "cleanea"} => Owned(m) = Names(p.eaRefs) \cup p.orphans
    /\ p.pc = "cleanea" => p.cur \subseteq p.orphans
    /\ p.pc = "summarize" =>
          IF p.obj.finalizer THEN inventory = Served(m) ELSE Owned(m) = {}
    /\ p.pc = "summarize"
       /\ p.obj.status.observedGeneration # p.before.status.observedGeneration =>
          \A n \in Owned(m) : ea[n].content.by = {m} /\ ea[n].content.gen = p.obj.gen

(* What is shown as Ready, or will be, is served.                          *)
PassKeepsStored(m) ==
    LET p == pass[m]
        o == mg[m]
    IN
    /\ o.exists /\ ~o.deleting /\ o.conditions.ready.status = "True" =>
          Stored(o.status.inventory)
    /\ p.pc = "summarize" /\ ~p.obj.deleting /\ p.obj.conditions.ready.status = "True" =>
          Stored(p.obj.status.inventory)
    /\ Stored(p.eaRefs) /\ \A r \in p.eaRefs : r.content = Digest(m)

OwnershipInv ==
    /\ \A n \in Name : ea[n].owner # {} => ea[n].exists
    /\ \A m \in MG : PassKnowsOwned(m) /\ PassKeepsStored(m)

LifecycleInv == CalmInv /\ OwnershipInv

-----------------------------------------------------------------------------
(* Liveness, under LiveSpec.                                               *)

(* The artifacts of the current spec, from the current sources, are        *)
(* published and recorded.                                                 *)
InSync(m) ==
    LET want == {[name |-> n, content |-> [by |-> {m}, gen |-> mg[m].gen, rev |-> src]] :
                    n \in mg[m].spec.artifacts}
    IN  /\ mg[m].status.observedGeneration = mg[m].gen
        /\ mg[m].status.inventory = want
        /\ \A r \in want : /\ ea[r.name].owner = {m}
                           /\ ea[r.name].content = r.content
                           /\ r.content \in files[r.name]

(* When users, sources and failures stop, every enabled and valid object   *)
(* comes into sync with its last spec and the last revision of its         *)
(* sources, without waiting for the interval, and stays there.             *)
Converges ==
    \A m \in MG :
        <>[](Reconcilable(mg[m]) /\ ~IsDisabled(mg[m])
               /\ mg[m].spec.verdict = "ok" /\ src # 0 => InSync(m))

(* And shows Ready=True for the current generation again and again.        *)
ReadyRecurs ==
    \A m \in MG :
        []<>(Reconcilable(mg[m]) /\ ~IsDisabled(mg[m])
               /\ mg[m].spec.verdict = "ok" /\ src # 0
             => mg[m].conditions.ready = [status |-> "True", gen |-> mg[m].gen])

(* Two generators may claim one name, and one's cleanup then deletes the   *)
(* artifact the other serves, without an event for it.  Under              *)
(* IntervalSpec the generator left alone with the name serves it again.    *)
ContestHeals ==
    \A m \in MG :
        <>[](/\ Reconcilable(mg[m]) /\ ~IsDisabled(mg[m]) /\ mg[m].spec.verdict = "ok"
             /\ \A other \in MG \ {m} : ~mg[other].exists
             => \A n \in mg[m].spec.artifacts :
                   /\ ea[n].owner = {m} /\ ea[n].content.by = {m}
                   /\ ea[n].content \in files[n])

(* A deleted object does not hang on its finalizer.                        *)
DeletionCompletes ==
    \A m \in MG : mg[m].deleting ~> ~mg[m].exists

(* A manual reconcile request is acknowledged, disabled or not.            *)
RequestHandled ==
    \A m \in MG : \A k \in 1 .. MaxReq :
        (mg[m].exists /\ mg[m].requestedAt >= k)
            ~> (mg[m].status.lastHandled >= k \/ ~mg[m].exists)

=============================================================================
