------------------------------ MODULE Watches ------------------------------
(***************************************************************************)
(* What makes a ManifestGenerator be reconciled again: the watches, field   *)
(* indices and predicates SetupWithManager registers, over several sources, *)
(* ConfigMaps and generators, some of which consume the ExternalArtifacts   *)
(* of others.  Sources and generators are read from informer caches that    *)
(* lag behind; ConfigMaps are read live, only their metadata is watched.    *)
(*                                                                          *)
(* A pass is cut at every read: one step per source observed, one per       *)
(* ConfigMap read, in the order of the spec; building and publishing, which *)
(* Reconciler takes apart, are one step.  Every generator is valid and      *)
(* enabled.  A digest tells what an artifact was made from.                 *)
(***************************************************************************)
EXTENDS Naturals, Sequences, SequencesExt

CONSTANTS
    MG,          \* ManifestGenerators
    Source,      \* GitRepositories, OCIRepositories, Buckets, HelmCharts
    ConfigMap,   \* ConfigMaps
    Menu,        \* [MG -> specs a user may give it]: the sources; the
                 \* ConfigMaps of valuesFrom, each [name, optional]; and the
                 \* source whose revision the artifact mirrors, or 0
    Rev,         \* revisions a source may advertise
    Data,        \* bodies a source or a ConfigMap may have
    MaxChanges   \* bound: changes made by users, sources and restarts

ASSUME BoundsAssumption ==
    MaxChanges \in Nat /\ Data \subseteq Nat \ {0} /\ Data # {} /\ Rev # {}

VARIABLES
    mg,          \* the generators in the API server: generation and spec
    cache,       \* the informer's copy
    src,         \* sources and ExternalArtifacts in the API server
    srcCache,    \* the informers' copies
    cm,          \* ConfigMaps in the API server
    cmCache,     \* the metadata informer's copies; it has no data
    queue,       \* keys in the work queue
    timer,       \* the earliest delayed re-queue of each key
    pass,        \* the pass running for each key
    status,      \* what each generator's last success was made from
    changes      \* changes so far, also the latest resource version

vars == <<mg, cache, src, srcCache, cm, cmCache, queue, timer, pass, status, changes>>

-----------------------------------------------------------------------------
(* The ExternalArtifact of a generator is a source like the others.        *)
Out(g) == <<"ExternalArtifact", g>>

Src == Source \cup {Out(g) : g \in MG}

Absent == [exists |-> FALSE, rev |-> <<"none", 0>>, digest |-> <<"none", 0>>]

NotReady == [Absent EXCEPT !.exists = TRUE]

(* A source has an artifact in its status.                                 *)
Ready(o) == o.rev # <<"none", 0>>

(* What source-controller may publish: a body may change without its       *)
(* revision, and a revision may come back.                                 *)
Published == [exists : {TRUE}, rev : {<<"rev", r>> : r \in Rev},
              digest : {<<"data", d>> : d \in Data}]

NoMap == [rv |-> 0, data |-> 0]

(* A deleted ConfigMap keeps the resource version of its deletion event.   *)
Exists(m) == m.data # 0

Specs == UNION {Menu[g] : g \in MG}

ASSUME MenuAssumption ==
    Specs \subseteq [sources : Seq(Src),
                     maps : Seq([name : ConfigMap, optional : BOOLEAN]),
                     mirror : Nat]

(* No generator consumes its own output: nothing in the code forbids it,   *)
(* and it may never come to rest.                                          *)
ASSUME NoSelfAssumption == \A g \in MG : \A s \in Menu[g] : Out(g) \notin ToSet(s.sources)

Idle == [pc |-> "idle", gen |-> 0, spec |-> [sources |-> <<>>], seen |-> <<>>, vals |-> <<>>]

NoStatus == [gen |-> 0, observed |-> <<>>, values |-> <<>>]

(* The initial list of every informer has been delivered before the        *)
(* workers start.  Sources and ConfigMaps may be there or not; which       *)
(* revision and which body they start with is the same up to renaming.     *)
Init ==
    /\ mg \in [MG -> [gen : {1}, spec : Specs]]
    /\ \A g \in MG : mg[g].spec \in Menu[g]
    /\ cache = mg
    /\ \E o \in [Source -> {Absent, CHOOSE p \in Published : TRUE}] :
          src = [s \in Src |-> IF s \in Source THEN o[s] ELSE Absent]
    /\ srcCache = src
    /\ cm \in [ConfigMap -> {NoMap, [rv |-> 0, data |-> CHOOSE d \in Data : TRUE]}]
    /\ cmCache = cm
    /\ queue = MG
    /\ timer = [g \in MG |-> "none"]
    /\ pass = [g \in MG |-> Idle]
    /\ status = [g \in MG |-> NoStatus]
    /\ changes = 0

-----------------------------------------------------------------------------
(* Users and sources.                                                      *)

Change ==
    /\ changes < MaxChanges
    /\ changes' = changes + 1
    /\ UNCHANGED <<timer, status>>

EditSpec(g) ==
    /\ Change
    /\ \E s \in Menu[g] \ {mg[g].spec} :
          mg' = [mg EXCEPT ![g] = [gen |-> @.gen + 1, spec |-> s]]
    /\ UNCHANGED <<cache, src, srcCache, cm, cmCache, queue, pass>>

SourceChange(s) ==
    /\ Change
    /\ \E o \in (Published \cup {NotReady, Absent}) \ {src[s]} :
          src' = [src EXCEPT ![s] = o]
    /\ UNCHANGED <<mg, cache, srcCache, cm, cmCache, queue, pass>>

(* Any change, of data or of labels, gets a new resource version, and so   *)
(* does a deletion.                                                        *)
ConfigMapChange(c) ==
    /\ Change
    /\ \E d \in Data \cup {0} :
          /\ Exists(cm[c]) \/ d # 0
          /\ cm' = [cm EXCEPT ![c] = [rv |-> changes', data |-> d]]
    /\ UNCHANGED <<mg, cache, src, srcCache, cmCache, queue, pass>>

-----------------------------------------------------------------------------
(* Watches.  Several changes of one object may be delivered as one; that a *)
(* broken watch misses an object created and deleted meanwhile is left out.*)

DeliverManifestGenerator(g) ==
    /\ cache[g] # mg[g]
    /\ cache' = [cache EXCEPT ![g] = mg[g]]
    /\ queue' = queue \cup {g}
    /\ UNCHANGED <<mg, src, srcCache, cm, cmCache, timer, pass, status, changes>>

(* Mutant: only the first artifact of a source counts.                     *)
FirstArtifactPredicate(old, new) ==
    \/ ~old.exists \/ ~new.exists
    \/ Ready(new) /\ ~Ready(old)

(* Creations and deletions pass; an update when the new version has an     *)
(* artifact and the old one had none or one of another revision.           *)
SourceChangePredicate(old, new) ==
    \/ ~old.exists \/ ~new.exists
    \/ Ready(new) /\ (~Ready(old) \/ old.rev # new.rev)

(* Mutant: a generator is listed under the first of its sources only.      *)
IndexByFirstSource(spec) == {spec.sources[i] : i \in DOMAIN spec.sources \cap {1}}

IndexBySourceRef(spec) == ToSet(spec.sources)

(* The generators whose cached spec refers to the source of the event, if  *)
(* the event's object has an artifact.                                     *)
RequestsForSourceChange(s, o) ==
    IF Ready(o) THEN {g \in MG : s \in IndexBySourceRef(cache[g].spec)} ELSE {}

(* The object of a deletion event is the last version seen.                *)
DeliverSource(s) ==
    /\ srcCache[s] # src[s]
    /\ srcCache' = [srcCache EXCEPT ![s] = src[s]]
    /\ queue' = queue \cup
         (IF SourceChangePredicate(srcCache[s], src[s])
          THEN RequestsForSourceChange(s, IF src[s].exists THEN src[s] ELSE srcCache[s])
          ELSE {})
    /\ UNCHANGED <<mg, cache, src, cm, cmCache, timer, pass, status, changes>>

(* Mutant: creations and deletions are filtered out with the updates that  *)
(* change nothing.                                                         *)
ConfigMapUpdatesOnly(old, new) == Exists(old) /\ Exists(new) /\ old.rv # new.rv

ConfigMapChangePredicate(old, new) == ~Exists(old) \/ ~Exists(new) \/ old.rv # new.rv

IndexByValuesFromRef(spec) == {ref.name : ref \in ToSet(spec.maps)}

RequestsForConfigMapChange(c) == {g \in MG : c \in IndexByValuesFromRef(cache[g].spec)}

DeliverConfigMap(c) ==
    /\ cmCache[c] # cm[c]
    /\ cmCache' = [cmCache EXCEPT ![c] = cm[c]]
    /\ queue' = queue \cup (IF ConfigMapChangePredicate(cmCache[c], cm[c])
                            THEN RequestsForConfigMapChange(c) ELSE {})
    /\ UNCHANGED <<mg, cache, src, srcCache, cm, timer, pass, status, changes>>

TimerFires(g, kind) ==
    /\ timer[g] = kind
    /\ timer' = [timer EXCEPT ![g] = "none"]
    /\ queue' = queue \cup {g}
    /\ UNCHANGED <<mg, cache, src, srcCache, cm, cmCache, pass, status, changes>>

-----------------------------------------------------------------------------
(* A pass.                                                                 *)

Begin(g) ==
    /\ g \in queue /\ pass[g].pc = "idle"
    /\ queue' = queue \ {g}
    /\ pass' = [pass EXCEPT ![g] = [Idle EXCEPT !.pc = "run", !.gen = cache[g].gen,
                                                !.spec = cache[g].spec]]
    /\ UNCHANGED <<mg, cache, src, srcCache, cm, cmCache, timer, status, changes>>

(* An error, or RequeueAfter with the dependency interval.                 *)
Fail(g) ==
    /\ pass' = [pass EXCEPT ![g] = Idle]
    /\ timer' = [timer EXCEPT ![g] = "retry"]
    /\ UNCHANGED <<mg, cache, src, srcCache, cm, cmCache, queue, status, changes>>

Seen(g) == Len(pass[g].seen)

Observed(g) == Seen(g) = Len(pass[g].spec.sources)

(* observeSources, one source.                                             *)
ObserveSource(g) ==
    LET o == srcCache[pass[g].spec.sources[Seen(g) + 1]]
    IN  /\ pass[g].pc = "run" /\ ~Observed(g)
        /\ \/ /\ Ready(o)
              /\ pass' = [pass EXCEPT ![g].seen = Append(@, o)]
              /\ UNCHANGED <<mg, cache, src, srcCache, cm, cmCache, queue, timer, status, changes>>
           \/ ~Ready(o) /\ Fail(g)

(* fetchSources: an artifact that has been replaced since may be gone from *)
(* the server that held it.                                                *)
FetchFails(g) ==
    /\ pass[g].pc = "run" /\ Observed(g) /\ pass[g].vals = <<>>
    /\ \E i \in DOMAIN pass[g].seen : pass[g].seen[i] # src[pass[g].spec.sources[i]]
    /\ Fail(g)

Resolved(g) == Len(pass[g].vals) = Len(pass[g].spec.maps)

(* resolveValues reads every ConfigMap live; one that is absent is passed  *)
(* over if the reference is optional.                                      *)
ReadConfigMap(g) ==
    LET ref == pass[g].spec.maps[Len(pass[g].vals) + 1]
    IN  /\ pass[g].pc = "run" /\ Observed(g) /\ ~Resolved(g)
        /\ \/ /\ Exists(cm[ref.name]) \/ ref.optional
              /\ pass' = [pass EXCEPT ![g].vals = Append(@, cm[ref.name].data)]
              /\ UNCHANGED <<mg, cache, src, srcCache, cm, cmCache, queue, timer, status, changes>>
           \/ ~Exists(cm[ref.name]) /\ ~ref.optional /\ Fail(g)

(* What the pass renders: a function of the spec, the bodies of the        *)
(* sources and the values.                                                 *)
Rendered(p) ==
    <<"content", [spec |-> p.spec, vals |-> p.vals,
                  digests |-> [i \in DOMAIN p.seen |-> p.seen[i].digest]]>>

(* setArtifactRevisions: the revision is that of the mirrored source, or   *)
(* tells the content.                                                      *)
Revision(p) == IF p.spec.mirror = 0 THEN Rendered(p) ELSE p.seen[p.spec.mirror].rev

(* Nothing to build: the revisions and values are the ones of the last     *)
(* success.                                                                *)
SameRevisions(g) ==
    /\ status[g].gen = pass[g].gen /\ status[g].values = pass[g].vals
    /\ \A i \in DOMAIN pass[g].seen : status[g].observed[i].rev = pass[g].seen[i].rev

(* Mutant: a pass that finds the revisions of the last success builds      *)
(* nothing.                                                                *)
SucceedUnlessSame(g) ==
    IF SameRevisions(g) THEN UNCHANGED <<src, status>>
    ELSE /\ src' = [src EXCEPT ![Out(g)] =
               [exists |-> TRUE, rev |-> Revision(pass[g]), digest |-> Rendered(pass[g])]]
         /\ status' = [status EXCEPT ![g] =
               [gen |-> pass[g].gen, observed |-> pass[g].seen, values |-> pass[g].vals]]

(* The ExternalArtifact and the status, written whatever they were.        *)
Succeed(g) ==
    /\ src' = [src EXCEPT ![Out(g)] =
          [exists |-> TRUE, rev |-> Revision(pass[g]), digest |-> Rendered(pass[g])]]
    /\ status' = [status EXCEPT ![g] =
          [gen |-> pass[g].gen, observed |-> pass[g].seen, values |-> pass[g].vals]]

(* Build and publish, record what it was made from, and come back at the   *)
(* interval.                                                               *)
Publish(g) ==
    /\ pass[g].pc = "run" /\ Observed(g) /\ Resolved(g)
    /\ Succeed(g)
    /\ timer' = [timer EXCEPT ![g] = IF @ = "none" THEN "interval" ELSE @]
    /\ pass' = [pass EXCEPT ![g] = Idle]
    /\ UNCHANGED <<mg, cache, srcCache, cm, cmCache, queue, changes>>

(* The informers of the new process list everything.                       *)
Restart ==
    /\ changes < MaxChanges
    /\ changes' = changes + 1
    /\ cache' = mg /\ srcCache' = src /\ cmCache' = cm
    /\ queue' = MG
    /\ timer' = [g \in MG |-> "none"]
    /\ pass' = [g \in MG |-> Idle]
    /\ UNCHANGED <<mg, src, cm, status>>

-----------------------------------------------------------------------------
Work(g) == ObserveSource(g) \/ FetchFails(g) \/ ReadConfigMap(g) \/ Publish(g)

RetryTimerFires(g) == TimerFires(g, "retry")

IntervalTimerFires(g) == TimerFires(g, "interval")

Next ==
    \/ \E g \in MG : EditSpec(g) \/ DeliverManifestGenerator(g)
    \/ \E s \in Source : SourceChange(s)
    \/ \E s \in Src : DeliverSource(s)
    \/ \E c \in ConfigMap : ConfigMapChange(c) \/ DeliverConfigMap(c)
    \/ \E g \in MG : RetryTimerFires(g) \/ IntervalTimerFires(g) \/ Begin(g) \/ Work(g)
    \/ Restart

Spec == Init /\ [][Next]_vars

(* Informers deliver, workers take keys and finish their passes, and the   *)
(* dependency interval or a back-off expires; the reconcile interval may   *)
(* be hours and is not counted on.                                         *)
Fairness ==
    /\ \A g \in MG : /\ WF_vars(DeliverManifestGenerator(g))
                     /\ WF_vars(RetryTimerFires(g))
                     /\ WF_vars(Begin(g)) /\ WF_vars(Work(g))
    /\ \A s \in Src : WF_vars(DeliverSource(s))
    /\ \A c \in ConfigMap : WF_vars(DeliverConfigMap(c))

LiveSpec == Spec /\ Fairness

IntervalFairness == \A g \in MG : WF_vars(IntervalTimerFires(g))

-----------------------------------------------------------------------------
(* What g has published is from its spec, from the revisions its sources   *)
(* advertise and from the data of its ConfigMaps.                          *)
Current(g) ==
    LET spec == mg[g].spec
    IN  /\ status[g].gen = mg[g].gen
        /\ \A i \in DOMAIN spec.sources :
              Ready(src[spec.sources[i]]) =>
                  status[g].observed[i].rev = src[spec.sources[i]].rev
        /\ \A i \in DOMAIN spec.maps : status[g].values[i] = cm[spec.maps[i].name].data

(* Nothing but its interval is going to make g run again: it is not        *)
(* queued, not running, not waiting for a retry, and the informers have    *)
(* delivered everything its spec refers to.                                *)
Quiet(g) ==
    /\ g \notin queue /\ pass[g].pc = "idle" /\ timer[g] # "retry"
    /\ cache[g] = mg[g]
    /\ \A s \in ToSet(mg[g].spec.sources) : srcCache[s] = src[s]
    /\ \A ref \in ToSet(mg[g].spec.maps) : cmCache[ref.name] = cm[ref.name]

(* No change is lost between a lagging cache, an index over it, a          *)
(* predicate and a running pass: a generator that rests is current.  The   *)
(* live read of a ConfigMap may be ahead of its watch and the cached read  *)
(* of a source behind its own; an edit may move a reference to an object   *)
(* whose event has gone by.                                                *)
QuietIsCurrent == \A g \in MG : Quiet(g) => Current(g)

(* Why: types, and resource versions that tell the versions of a ConfigMap *)
(* apart.                                                                  *)
IsPass(p) ==
    /\ p \in [pc : {"idle", "run"}, gen : Nat, spec : Specs \cup {Idle.spec},
              seen : Seq(ToSet(p.seen)), vals : Seq(Data \cup {0})]
    /\ p.pc = "run" => /\ p.spec \in Specs
                       /\ Len(p.seen) <= Len(p.spec.sources)
                       /\ Len(p.vals) <= Len(p.spec.maps)

WatchTypeOK ==
    /\ mg \in [MG -> [gen : Nat, spec : Specs]]
    /\ cache \in [MG -> [gen : Nat, spec : Specs]]
    /\ src = [s \in Src |-> src[s]] /\ srcCache = [s \in Src |-> srcCache[s]]
    /\ \A s \in Src : Ready(src[s]) => src[s].exists
    /\ cm \in [ConfigMap -> [rv : Nat, data : Data \cup {0}]]
    /\ cmCache \in [ConfigMap -> [rv : Nat, data : Data \cup {0}]]
    /\ queue \in SUBSET MG
    /\ timer \in [MG -> {"none", "retry", "interval"}]
    /\ pass = [g \in MG |-> pass[g]] /\ status = [g \in MG |-> status[g]]
    /\ \A g \in MG : IsPass(pass[g])
    /\ changes \in Nat

VersionsDiffer ==
    \A c \in ConfigMap :
        /\ cmCache[c].rv <= cm[c].rv /\ cm[c].rv <= changes
        /\ cmCache[c].rv = cm[c].rv => cmCache[c] = cm[c]

(* And whatever the caches say of the spec in the cache, a pass has read   *)
(* as far as it is and a success has used, or another pass is to come.     *)
(* What was read live counts once the informer has caught up with it.      *)
Follows(g, observed, values) ==
    LET spec == cache[g].spec
    IN  /\ \A i \in DOMAIN spec.sources \cap DOMAIN observed :
              Ready(srcCache[spec.sources[i]]) =>
                  observed[i].rev = srcCache[spec.sources[i]].rev
        /\ \A i \in DOMAIN spec.maps \cap DOMAIN values :
              LET name == spec.maps[i].name IN cmCache[name] = cm[name] => values[i] = cm[name].data

WillRun(g) == g \in queue \/ timer[g] = "retry"

PassFollows(g) ==
    WillRun(g) \/ pass[g].pc = "idle"
    \/ /\ pass[g].gen = cache[g].gen /\ pass[g].spec = cache[g].spec
       /\ Follows(g, pass[g].seen, pass[g].vals)

StatusFollows(g) ==
    WillRun(g) \/ pass[g].pc = "run"
    \/ /\ status[g].gen = cache[g].gen
       /\ DOMAIN status[g].observed = DOMAIN cache[g].spec.sources
       /\ DOMAIN status[g].values = DOMAIN cache[g].spec.maps
       /\ Follows(g, status[g].observed, status[g].values)

WatchInv ==
    /\ WatchTypeOK /\ VersionsDiffer
    /\ \A g \in MG : PassFollows(g) /\ StatusFollows(g)

Available(g) ==
    /\ \A s \in ToSet(mg[g].spec.sources) : Ready(src[s])
    /\ \A ref \in ToSet(mg[g].spec.maps) : ref.optional \/ Exists(cm[ref.name])

(* Every change of a spec, of a revision or of a ConfigMap reaches every   *)
(* generator that refers to it, and the revision it publishes then reaches *)
(* the generators that consume its ExternalArtifact, without waiting for   *)
(* an interval.                                                            *)
RevisionsReach == \A g \in MG : <>[](Available(g) => Current(g))

(* A body that changes under an unchanged revision (a source published     *)
(* again; an ExternalArtifact that mirrors the revision of a source and    *)
(* whose values changed) is no event to the predicate; it reaches its      *)
(* consumers through their intervals.                                      *)
DigestsReach ==
    IntervalFairness =>
        \A g \in MG : <>[](Available(g) =>
            /\ status[g].gen = mg[g].gen
            /\ \A i \in DOMAIN mg[g].spec.sources :
                  status[g].observed[i] = src[mg[g].spec.sources[i]])
=============================================================================
