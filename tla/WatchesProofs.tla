--------------------------- MODULE WatchesProofs ---------------------------
(***************************************************************************)
(* No change is lost between the caches, the indices, the predicates and    *)
(* the running passes: for any generators, sources, ConfigMaps, specs and   *)
(* number of changes.                                                       *)
(***************************************************************************)
EXTENDS Watches, SequenceTheorems, TLAPS

-----------------------------------------------------------------------------
(* Sequences of objects whose values have no common set.                   *)

(* A sequence is one over its own elements.                                *)
LEMMA OwnElements ==
    ASSUME NEW S, NEW q \in Seq(S)
    PROVE  q \in Seq(ToSet(q))
<1>1. Len(q) \in Nat /\ DOMAIN q = 1 .. Len(q) /\ q \in [1 .. Len(q) -> S]
  BY LenProperties
<1>2. q \in [1 .. Len(q) -> ToSet(q)]
  BY <1>1 DEF ToSet
<1> QED BY <1>1, <1>2, SeqDef

(* And stays one when an element is appended.                              *)
LEMMA AppendOwn ==
    ASSUME NEW q, q \in Seq(ToSet(q)), NEW e
    PROVE  /\ Append(q, e) \in Seq(ToSet(Append(q, e)))
           /\ Len(q) \in Nat /\ DOMAIN q = 1 .. Len(q)
           /\ Len(Append(q, e)) = Len(q) + 1
           /\ DOMAIN Append(q, e) = 1 .. Len(q) + 1
           /\ \A i \in 1 .. Len(q) : Append(q, e)[i] = q[i]
           /\ Append(q, e)[Len(q) + 1] = e
<1> DEFINE T == ToSet(q) \cup {e}
<1>1. q \in Seq(T)
  BY SeqMonotonic
<1>2. e \in T
  OBVIOUS
<1> HIDE DEF T
<1>3. /\ Append(q, e) \in Seq(T) /\ Len(q) \in Nat
      /\ Len(Append(q, e)) = Len(q) + 1
      /\ \A i \in 1 .. Len(q) : Append(q, e)[i] = q[i]
      /\ Append(q, e)[Len(q) + 1] = e
  BY <1>1, <1>2, AppendProperties
<1>4. DOMAIN q = 1 .. Len(q) /\ DOMAIN Append(q, e) = 1 .. Len(Append(q, e))
  BY <1>1, <1>3, LenProperties
<1> QED BY <1>3, <1>4, OwnElements

(* The same for values, which have one.                                    *)
LEMMA AppendValue ==
    ASSUME NEW S, NEW q \in Seq(S), NEW e \in S
    PROVE  /\ Append(q, e) \in Seq(S)
           /\ Len(q) \in Nat /\ DOMAIN q = 1 .. Len(q)
           /\ Len(Append(q, e)) = Len(q) + 1
           /\ DOMAIN Append(q, e) = 1 .. Len(q) + 1
           /\ \A i \in 1 .. Len(q) : Append(q, e)[i] = q[i]
           /\ Append(q, e)[Len(q) + 1] = e
BY AppendProperties, LenProperties

-----------------------------------------------------------------------------
(* Types.                                                                  *)

(* The references of a spec.                                               *)
LEMMA SpecType ==
    ASSUME NEW spec \in Specs
    PROVE  /\ spec.sources \in Seq(Src)
           /\ spec.maps \in Seq([name : ConfigMap, optional : BOOLEAN])
           /\ Len(spec.sources) \in Nat /\ DOMAIN spec.sources = 1 .. Len(spec.sources)
           /\ Len(spec.maps) \in Nat /\ DOMAIN spec.maps = 1 .. Len(spec.maps)
           /\ \A i \in DOMAIN spec.sources : spec.sources[i] \in Src
           /\ \A i \in DOMAIN spec.maps : spec.maps[i].name \in ConfigMap
<1>1. /\ spec.sources \in Seq(Src)
      /\ spec.maps \in Seq([name : ConfigMap, optional : BOOLEAN])
  BY MenuAssumption
<1>2. /\ Len(spec.sources) \in Nat /\ DOMAIN spec.sources = 1 .. Len(spec.sources)
      /\ Len(spec.maps) \in Nat /\ DOMAIN spec.maps = 1 .. Len(spec.maps)
  BY <1>1, LenProperties
<1>3. /\ \A i \in DOMAIN spec.sources : spec.sources[i] \in Src
      /\ \A i \in DOMAIN spec.maps : spec.maps[i] \in [name : ConfigMap, optional : BOOLEAN]
  BY <1>1, <1>2, ElementOfSeq
<1> QED BY <1>1, <1>2, <1>3

(* What an object of the API server can be.                                *)
LEMMA SourceStates ==
    /\ ~Absent.exists /\ ~Ready(Absent) /\ NotReady.exists /\ ~Ready(NotReady)
    /\ \A o \in Published : o.exists
BY DEF Absent, NotReady, Ready, Published

(* Records of five fields, of which some are written.                      *)
LEMMA BeginRecord ==
    ASSUME NEW C, NEW G, NEW P, NEW S, NEW V, NEW p \in [pc : C, gen : G, spec : P, seen : S, vals : V],
           NEW c \in C, NEW n \in G, NEW spec \in P
    PROVE  [p EXCEPT !.pc = c, !.gen = n, !.spec = spec]
              \in [pc : C, gen : G, spec : P, seen : S, vals : V]
OBVIOUS

(* One field written, possibly with a value of another kind.              *)
LEMMA ExtendRecord ==
    ASSUME NEW C, NEW G, NEW P, NEW S, NEW V, NEW p \in [pc : C, gen : G, spec : P, seen : S, vals : V],
           NEW T, NEW e \in T
    PROVE  /\ [p EXCEPT !.seen = e] \in [pc : C, gen : G, spec : P, seen : T, vals : V]
           /\ [p EXCEPT !.vals = e] \in [pc : C, gen : G, spec : P, seen : S, vals : T]
           /\ LET q == [p EXCEPT !.seen = e]
              IN  q.pc = p.pc /\ q.gen = p.gen /\ q.spec = p.spec /\ q.vals = p.vals /\ q.seen = e
           /\ LET q == [p EXCEPT !.vals = e]
              IN  q.pc = p.pc /\ q.gen = p.gen /\ q.spec = p.spec /\ q.vals = e /\ q.seen = p.seen
OBVIOUS

(* No pass is a pass.                                                      *)
LEMMA IdleType == IsPass(Idle) /\ Idle.pc = "idle"
<1>1. \A S : <<>> \in Seq(S)
  BY EmptySeq
<1> QED BY <1>1 DEF IsPass, Idle

(* A pass that begins.                                                     *)
BeginOf(n, spec) == [Idle EXCEPT !.pc = "run", !.gen = n, !.spec = spec]

(* It is a pass, of that spec and generation, that has read nothing.       *)
LEMMA BeginType ==
    ASSUME NEW n \in Nat, NEW spec \in Specs
    PROVE  /\ IsPass(BeginOf(n, spec))
           /\ BeginOf(n, spec).pc = "run" /\ BeginOf(n, spec).gen = n
           /\ BeginOf(n, spec).spec = spec
           /\ BeginOf(n, spec).seen = <<>> /\ BeginOf(n, spec).vals = <<>>
<1> DEFINE p == BeginOf(n, spec)
<1>1. \A S : <<>> \in Seq(S) /\ Len(<<>>) = 0
  BY EmptySeq
<1>2. /\ p.pc = "run" /\ p.gen = n /\ p.spec = spec /\ p.seen = <<>> /\ p.vals = <<>>
  BY DEF Idle, BeginOf
<1>3. Len(spec.sources) \in Nat /\ Len(spec.maps) \in Nat
  BY SpecType
<1>4. p \in [pc : {"idle", "run"}, gen : Nat, spec : Specs \cup {Idle.spec},
             seen : Seq(ToSet(Idle.seen)), vals : Seq(Data \cup {0})]
  BY IdleType, BeginRecord DEF IsPass, BeginOf
<1>5. Idle.seen = <<>>
  BY DEF Idle
<1> HIDE DEF p
<1>6. IsPass(p)
  BY <1>1, <1>2, <1>3, <1>4, <1>5 DEF IsPass
<1> QED BY <1>2, <1>6 DEF p

(* Appending to what a pass has seen or read.                              *)
LEMMA ExtendType ==
    ASSUME NEW p, IsPass(p), p.pc = "run", NEW o, NEW v \in Data \cup {0}
    PROVE  /\ Len(p.seen) # Len(p.spec.sources) => IsPass([p EXCEPT !.seen = Append(@, o)])
           /\ Len(p.vals) # Len(p.spec.maps) => IsPass([p EXCEPT !.vals = Append(@, v)])
<1>0. Len(p.spec.sources) \in Nat /\ Len(p.spec.maps) \in Nat
  BY SpecType DEF IsPass
<1>1. /\ p.seen \in Seq(ToSet(p.seen)) /\ p.vals \in Seq(Data \cup {0})
  BY DEF IsPass
<1>2. /\ Append(p.seen, o) \in Seq(ToSet(Append(p.seen, o)))
      /\ Append(p.vals, v) \in Seq(Data \cup {0})
      /\ Len(p.seen) \in Nat /\ Len(Append(p.seen, o)) = Len(p.seen) + 1
      /\ Len(p.vals) \in Nat /\ Len(Append(p.vals, v)) = Len(p.vals) + 1
  BY <1>1, AppendOwn, AppendValue
<1>3. p \in [pc : {"idle", "run"}, gen : Nat, spec : Specs \cup {Idle.spec},
             seen : Seq(ToSet(p.seen)), vals : Seq(Data \cup {0})]
  BY DEF IsPass
<1>4. ASSUME Len(p.seen) # Len(p.spec.sources)
      PROVE  IsPass([p EXCEPT !.seen = Append(@, o)])
  <2> DEFINE q == [p EXCEPT !.seen = Append(p.seen, o)]
  <2>1. /\ q \in [pc : {"idle", "run"}, gen : Nat, spec : Specs \cup {Idle.spec},
                  seen : Seq(ToSet(Append(p.seen, o))), vals : Seq(Data \cup {0})]
        /\ q.pc = p.pc /\ q.spec = p.spec /\ q.vals = p.vals /\ q.seen = Append(p.seen, o)
    BY <1>2, <1>3, ExtendRecord
  <2> HIDE DEF q
  <2>2. IsPass(q)
    BY <1>0, <1>2, <1>4, <2>1 DEF IsPass
  <2> QED BY <2>2 DEF q
<1>5. ASSUME Len(p.vals) # Len(p.spec.maps)
      PROVE  IsPass([p EXCEPT !.vals = Append(@, v)])
  <2> DEFINE q == [p EXCEPT !.vals = Append(p.vals, v)]
  <2>1. /\ q \in [pc : {"idle", "run"}, gen : Nat, spec : Specs \cup {Idle.spec},
                  seen : Seq(ToSet(p.seen)), vals : Seq(Data \cup {0})]
        /\ q.pc = p.pc /\ q.spec = p.spec /\ q.vals = Append(p.vals, v) /\ q.seen = p.seen
    BY <1>2, <1>3, ExtendRecord
  <2> HIDE DEF q
  <2>2. IsPass(q)
    BY <1>0, <1>1, <1>2, <1>5, <2>1 DEF IsPass
  <2> QED BY <2>2 DEF q
<1> QED BY <1>4, <1>5

(* What a pass reads next is something its spec refers to.                 *)
LEMMA NextRead ==
    ASSUME WatchTypeOK, NEW g \in MG, pass[g].pc = "run"
    PROVE  /\ ~Observed(g) => pass[g].spec.sources[Seen(g) + 1] \in Src
           /\ ~Resolved(g) => pass[g].spec.maps[Len(pass[g].vals) + 1].name \in ConfigMap
<1>1. /\ pass[g].spec \in Specs
      /\ pass[g].seen \in Seq(ToSet(pass[g].seen)) /\ pass[g].vals \in Seq(Data \cup {0})
      /\ Len(pass[g].seen) <= Len(pass[g].spec.sources)
      /\ Len(pass[g].vals) <= Len(pass[g].spec.maps)
  BY DEF WatchTypeOK, IsPass
<1>2. Len(pass[g].seen) \in Nat /\ Len(pass[g].vals) \in Nat
  BY <1>1, LenProperties
<1>3. /\ Len(pass[g].spec.sources) \in Nat /\ Len(pass[g].spec.maps) \in Nat
      /\ \A i \in 1 .. Len(pass[g].spec.sources) : pass[g].spec.sources[i] \in Src
      /\ \A i \in 1 .. Len(pass[g].spec.maps) : pass[g].spec.maps[i].name \in ConfigMap
  BY <1>1, SpecType
<1>4. ~Observed(g) => Seen(g) + 1 \in 1 .. Len(pass[g].spec.sources)
  BY <1>1, <1>2, <1>3 DEF Observed, Seen
<1>5. ~Resolved(g) => Len(pass[g].vals) + 1 \in 1 .. Len(pass[g].spec.maps)
  BY <1>1, <1>2, <1>3 DEF Resolved
<1> QED BY <1>3, <1>4, <1>5

(* The initial state is typed.                                             *)
LEMMA InitType == Init => WatchTypeOK
<1> SUFFICES ASSUME Init PROVE WatchTypeOK
  OBVIOUS
<1>1. mg \in [MG -> [gen : Nat, spec : Specs]] /\ cache = mg
  BY DEF Init, Specs
<1>2. PICK o \in [Source -> {Absent, CHOOSE p \in Published : TRUE}] :
         src = [s \in Src |-> IF s \in Source THEN o[s] ELSE Absent]
  BY DEF Init
<1>3. (CHOOSE p \in Published : TRUE) \in Published
  <2>1. PICK r \in Rev, d \in Data : TRUE
    BY BoundsAssumption
  <2>2. [exists |-> TRUE, rev |-> <<"rev", r>>, digest |-> <<"data", d>>] \in Published
    BY <2>1 DEF Published
  <2> QED BY <2>2
<1>4. \A s \in Src : Ready(src[s]) => src[s].exists
  <2>1. \E p \in Published : \A s \in Src : src[s] \in {Absent, p}
    BY <1>2, <1>3, Zenon
  <2> QED BY <2>1, SourceStates
<1>5. src = [s \in Src |-> src[s]] /\ srcCache = src
  BY <1>2 DEF Init
<1>6. cm \in [ConfigMap -> [rv : Nat, data : Data \cup {0}]] /\ cmCache = cm
  <2>1. (CHOOSE d \in Data : TRUE) \in Data
    BY BoundsAssumption
  <2> QED BY <2>1 DEF Init, NoMap
<1>7. /\ queue \in SUBSET MG /\ timer \in [MG -> {"none", "retry", "interval"}]
      /\ changes \in Nat
  BY DEF Init
<1>8. /\ pass = [g \in MG |-> pass[g]] /\ status = [g \in MG |-> status[g]]
      /\ \A g \in MG : IsPass(pass[g])
  BY IdleType DEF Init
<1> QED BY <1>1, <1>4, <1>5, <1>6, <1>7, <1>8 DEF WatchTypeOK

(* A step that writes the locals of a pass and its timer.                  *)
LEMMA LocalType ==
    ASSUME WatchTypeOK, NEW g \in MG, NEW p, IsPass(p), pass' = [pass EXCEPT ![g] = p],
           queue' \in SUBSET MG, timer' \in [MG -> {"none", "retry", "interval"}],
           UNCHANGED <<mg, cache, src, srcCache, cm, cmCache, status, changes>>
    PROVE  WatchTypeOK'
<1>1. pass' = [h \in MG |-> pass'[h]] /\ \A h \in MG : IsPass(pass'[h])
  BY DEF WatchTypeOK
<1> QED BY <1>1 DEF WatchTypeOK

(* A step of a pass keeps the types.                                       *)
LEMMA WorkType ==
    ASSUME WatchTypeOK, NEW g \in MG, Begin(g) \/ Work(g)
    PROVE  WatchTypeOK'
<1>0. /\ pass = [h \in MG |-> pass[h]] /\ IsPass(pass[g])
      /\ queue \in SUBSET MG /\ timer \in [MG -> {"none", "retry", "interval"}]
      /\ cache[g].gen \in Nat /\ cache[g].spec \in Specs
  BY DEF WatchTypeOK
<1>1. CASE Begin(g)
  <2> DEFINE p == BeginOf(cache[g].gen, cache[g].spec)
  <2>1. IsPass(p)
    BY <1>0, BeginType
  <2> HIDE DEF p
  <2>2. /\ pass' = [pass EXCEPT ![g] = p] /\ queue' = queue \ {g}
        /\ UNCHANGED <<mg, cache, src, srcCache, cm, cmCache, timer, status, changes>>
    BY <1>1 DEF Begin, BeginOf, p
  <2> QED BY <1>0, <2>1, <2>2, LocalType
<1>2. CASE Fail(g)
  <2>1. timer' \in [MG -> {"none", "retry", "interval"}]
    BY <1>0, <1>2 DEF Fail
  <2> QED BY <1>0, <1>2, <2>1, IdleType, LocalType DEF Fail
<1>3. CASE ObserveSource(g) /\ ~Fail(g)
  <2> DEFINE o == srcCache[pass[g].spec.sources[Seen(g) + 1]]
             p == [pass[g] EXCEPT !.seen = Append(@, o)]
  <2>1. /\ pass[g].pc = "run" /\ ~Observed(g) /\ pass' = [pass EXCEPT ![g].seen = Append(@, o)]
        /\ UNCHANGED <<mg, cache, src, srcCache, cm, cmCache, queue, timer, status, changes>>
    BY <1>3 DEF ObserveSource
  <2>2. pass' = [pass EXCEPT ![g] = p]
    BY <2>1
  <2>3. IsPass(p)
    <3> HIDE DEF o
    <3> QED BY <1>0, <2>1, ExtendType DEF Observed, Seen
  <2> HIDE DEF p
  <2> QED BY <1>0, <2>1, <2>2, <2>3, LocalType
<1>4. CASE FetchFails(g)
  BY <1>2, <1>4 DEF FetchFails
<1>5. CASE ReadConfigMap(g) /\ ~Fail(g)
  <2> DEFINE v == cm[pass[g].spec.maps[Len(pass[g].vals) + 1].name].data
             p == [pass[g] EXCEPT !.vals = Append(@, v)]
  <2>1. /\ pass[g].pc = "run" /\ ~Resolved(g) /\ pass' = [pass EXCEPT ![g].vals = Append(@, v)]
        /\ UNCHANGED <<mg, cache, src, srcCache, cm, cmCache, queue, timer, status, changes>>
    BY <1>5 DEF ReadConfigMap
  <2>2. pass' = [pass EXCEPT ![g] = p]
    BY <2>1
  <2>3. v \in Data \cup {0}
    BY <2>1, NextRead DEF WatchTypeOK
  <2>4. IsPass(p)
    <3> HIDE DEF v
    <3> QED BY <1>0, <2>1, <2>3, ExtendType DEF Resolved
  <2> HIDE DEF p
  <2> QED BY <1>0, <2>1, <2>2, <2>4, LocalType
<1>6. CASE Publish(g)
  <2> DEFINE o == [exists |-> TRUE, rev |-> Revision(pass[g]), digest |-> Rendered(pass[g])]
             t == [gen |-> pass[g].gen, observed |-> pass[g].seen, values |-> pass[g].vals]
  <2>1. o.exists = TRUE
    OBVIOUS
  <2>2. /\ src' = [src EXCEPT ![Out(g)] = o] /\ status' = [status EXCEPT ![g] = t]
        /\ pass' = [pass EXCEPT ![g] = Idle]
        /\ timer' = [timer EXCEPT ![g] = IF @ = "none" THEN "interval" ELSE @]
        /\ UNCHANGED <<mg, cache, srcCache, cm, cmCache, queue, changes>>
    BY <1>6 DEF Publish, Succeed
  <2> HIDE DEF o, t
  <2>3. /\ src' = [s \in Src |-> src'[s]]
        /\ \A s \in Src : Ready(src'[s]) => src'[s].exists
    BY <2>1, <2>2 DEF WatchTypeOK
  <2>4. pass' = [h \in MG |-> pass'[h]] /\ status' = [h \in MG |-> status'[h]]
    BY <2>2 DEF WatchTypeOK
  <2>5. \A h \in MG : IsPass(pass'[h])
    BY <2>2, IdleType DEF WatchTypeOK
  <2>6. timer' \in [MG -> {"none", "retry", "interval"}]
    BY <2>2 DEF WatchTypeOK
  <2> QED BY <2>2, <2>3, <2>4, <2>5, <2>6 DEF WatchTypeOK
<1> QED BY <1>1, <1>2, <1>3, <1>4, <1>5, <1>6 DEF Work

(* A step of a user, of an informer, of a timer or of the process.         *)
LEMMA OutsideType ==
    ASSUME WatchTypeOK, [Next]_vars,
           \A g \in MG : ~Begin(g) /\ ~Work(g)
    PROVE  WatchTypeOK'
<1> USE DEF WatchTypeOK
<1>1. CASE \E g \in MG : EditSpec(g)
  <2>1. PICK g \in MG : EditSpec(g)
    BY <1>1
  <2>2. PICK sp \in Menu[g] : mg' = [mg EXCEPT ![g] = [gen |-> @.gen + 1, spec |-> sp]]
    BY <2>1 DEF EditSpec
  <2>3. sp \in Specs
    BY <2>2 DEF Specs
  <2>4. mg' \in [MG -> [gen : Nat, spec : Specs]]
    BY <2>2, <2>3
  <2> QED BY <2>1, <2>4 DEF EditSpec, Change
<1>2. CASE \E g \in MG : DeliverManifestGenerator(g)
  BY <1>2 DEF DeliverManifestGenerator
<1>3. CASE \E s \in Source : SourceChange(s)
  <2>1. PICK s \in Source, o \in Published \cup {NotReady, Absent} :
           src' = [src EXCEPT ![s] = o]
    BY <1>3 DEF SourceChange
  <2>2. Ready(o) => o.exists
    BY <2>1, SourceStates
  <2>3. /\ src' = [x \in Src |-> src'[x]]
        /\ \A x \in Src : Ready(src'[x]) => src'[x].exists
    BY <2>1, <2>2
  <2> QED BY <1>3, <2>3 DEF SourceChange, Change
<1>4. CASE \E s \in Src : DeliverSource(s)
  BY <1>4 DEF DeliverSource, RequestsForSourceChange
<1>5. CASE \E c \in ConfigMap : ConfigMapChange(c)
  BY <1>5 DEF ConfigMapChange, Change
<1>6. CASE \E c \in ConfigMap : DeliverConfigMap(c)
  BY <1>6 DEF DeliverConfigMap, RequestsForConfigMapChange
<1>7. CASE \E g \in MG : RetryTimerFires(g) \/ IntervalTimerFires(g)
  BY <1>7 DEF RetryTimerFires, IntervalTimerFires, TimerFires
<1>8. CASE Restart
  <2>1. /\ UNCHANGED <<mg, src, cm, status>> /\ cache' = mg /\ srcCache' = src /\ cmCache' = cm
        /\ queue' = MG /\ timer' = [g \in MG |-> "none"]
        /\ pass' = [g \in MG |-> Idle] /\ changes' = changes + 1
    BY <1>8 DEF Restart
  <2>2. pass' = [g \in MG |-> pass'[g]] /\ \A g \in MG : IsPass(pass'[g])
    BY <2>1, IdleType
  <2>3. timer' \in [MG -> {"none", "retry", "interval"}] /\ changes' \in Nat
    BY <2>1
  <2> QED BY <2>1, <2>2, <2>3
<1>9. CASE UNCHANGED vars
  BY <1>9 DEF vars
<1> QED BY <1>1, <1>2, <1>3, <1>4, <1>5, <1>6, <1>7, <1>8, <1>9 DEF Next

(* Every step keeps the types.                                             *)
LEMMA NextType == WatchTypeOK /\ [Next]_vars => WatchTypeOK'
BY WorkType, OutsideType

-----------------------------------------------------------------------------
(* Resource versions.                                                      *)

(* Two versions of a ConfigMap with one resource version are the same.     *)
LEMMA NextVersions == WatchTypeOK /\ VersionsDiffer /\ [Next]_vars => VersionsDiffer'
<1> SUFFICES ASSUME WatchTypeOK, VersionsDiffer, [Next]_vars PROVE VersionsDiffer'
  OBVIOUS
<1>0. /\ changes \in Nat
      /\ \A c \in ConfigMap : cm[c].rv \in Nat /\ cmCache[c].rv \in Nat
  BY DEF WatchTypeOK
<1>1. CASE UNCHANGED <<cm, cmCache>> /\ changes' \in {changes, changes + 1}
  BY <1>0, <1>1 DEF VersionsDiffer
<1>2. ASSUME NEW c \in ConfigMap, ConfigMapChange(c)
      PROVE  VersionsDiffer'
  <2>1. PICK d : cm' = [cm EXCEPT ![c] = [rv |-> changes', data |-> d]]
    BY <1>2 DEF ConfigMapChange
  <2>2. changes' = changes + 1 /\ cmCache' = cmCache
    BY <1>2 DEF ConfigMapChange, Change
  <2>3. cm'[c].rv = changes + 1 /\ \A x \in ConfigMap \ {c} : cm'[x] = cm[x]
    BY <2>1, <2>2 DEF WatchTypeOK
  <2> QED BY <1>0, <2>2, <2>3 DEF VersionsDiffer
<1>3. ASSUME NEW c \in ConfigMap, DeliverConfigMap(c)
      PROVE  VersionsDiffer'
  <2>1. /\ cm' = cm /\ changes' = changes /\ cmCache'[c] = cm[c]
        /\ \A x \in ConfigMap \ {c} : cmCache'[x] = cmCache[x]
    BY <1>3 DEF DeliverConfigMap, WatchTypeOK
  <2> QED BY <1>0, <2>1 DEF VersionsDiffer
<1>4. CASE Restart
  <2>1. cm' = cm /\ cmCache' = cm /\ changes' = changes + 1
    BY <1>4 DEF Restart
  <2> QED BY <1>0, <2>1 DEF VersionsDiffer
<1>5. ASSUME NEW g \in MG, Work(g) \/ Begin(g)
      PROVE  UNCHANGED <<cm, cmCache, changes>>
  BY <1>5 DEF Work, Begin, ObserveSource, FetchFails, ReadConfigMap, Fail, Publish
<1>6. ASSUME NEW g \in MG, \/ EditSpec(g) \/ DeliverManifestGenerator(g)
                           \/ RetryTimerFires(g) \/ IntervalTimerFires(g)
      PROVE  UNCHANGED <<cm, cmCache>> /\ changes' \in {changes, changes + 1}
  BY <1>6 DEF EditSpec, Change, DeliverManifestGenerator, RetryTimerFires,
              IntervalTimerFires, TimerFires
<1>7. ASSUME NEW s, SourceChange(s) \/ DeliverSource(s)
      PROVE  UNCHANGED <<cm, cmCache>> /\ changes' \in {changes, changes + 1}
  BY <1>7 DEF SourceChange, Change, DeliverSource
<1>8. CASE UNCHANGED vars
  BY <1>1, <1>8 DEF vars
<1> QED BY <1>1, <1>2, <1>3, <1>4, <1>5, <1>6, <1>7, <1>8 DEF Next

-----------------------------------------------------------------------------
(* What a generator is made from follows what the informers have delivered.*)

Following(g) == PassFollows(g) /\ StatusFollows(g)

(* A generator whose own state does not change, in a step that delivers    *)
(* nothing to it, or that queues it.                                       *)
LEMMA StillFollows ==
    ASSUME WatchTypeOK, NEW g \in MG, Following(g),
           cache'[g] = cache[g], pass'[g] = pass[g], status'[g] = status[g],
           \A i \in DOMAIN cache[g].spec.sources :
              LET s == cache[g].spec.sources[i]
              IN  Ready(srcCache'[s]) =>
                     Ready(srcCache[s]) /\ srcCache'[s].rev = srcCache[s].rev,
           \A i \in DOMAIN cache[g].spec.maps :
              LET c == cache[g].spec.maps[i].name
              IN  cmCache'[c] = cm'[c] => cmCache[c] = cm[c] /\ cm'[c] = cm[c],
           WillRun(g) => WillRun(g)'
    PROVE  Following(g)'
<1>1. ASSUME NEW observed, NEW values, Follows(g, observed, values)
      PROVE  Follows(g, observed, values)'
  BY <1>1 DEF Follows
<1>2. PassFollows(g)'
  BY <1>1 DEF Following, PassFollows
<1>3. StatusFollows(g)'
  BY <1>1 DEF Following, StatusFollows
<1> QED BY <1>2, <1>3 DEF Following

(* One that will run anyway.                                               *)
LEMMA WillRunFollows == ASSUME NEW g \in MG, WillRun(g)' PROVE Following(g)'
BY DEF Following, PassFollows, StatusFollows

(* Sources and ConfigMaps a cached spec refers to.                         *)
LEMMA CachedSpec ==
    ASSUME WatchTypeOK, NEW g \in MG
    PROVE  /\ cache[g].spec \in Specs
           /\ \A i \in DOMAIN cache[g].spec.sources :
                 /\ cache[g].spec.sources[i] \in Src
                 /\ cache[g].spec.sources[i] \in ToSet(cache[g].spec.sources)
           /\ \A i \in DOMAIN cache[g].spec.maps :
                 /\ cache[g].spec.maps[i].name \in ConfigMap
                 /\ cache[g].spec.maps[i].name \in IndexByValuesFromRef(cache[g].spec)
<1>1. cache[g].spec \in Specs
  BY DEF WatchTypeOK
<1> QED BY <1>1, SpecType DEF ToSet, IndexByValuesFromRef

(* A source event: the predicate drops it only if the revision stays, and  *)
(* the index lists every generator whose cached spec refers to the source. *)
LEMMA DeliverSourceFollows ==
    ASSUME WatchTypeOK, NEW s \in Src, DeliverSource(s), NEW g \in MG, Following(g)
    PROVE  Following(g)'
<1>1. /\ srcCache'[s] = src[s] /\ \A x \in Src \ {s} : srcCache'[x] = srcCache[x]
      /\ queue \subseteq queue'
      /\ UNCHANGED <<cache, cm, cmCache, timer, pass, status>>
  BY DEF DeliverSource, WatchTypeOK
<1>2. CASE g \in queue'
  BY <1>2, WillRunFollows DEF WillRun
<1>3. CASE g \notin queue'
  <2>1. ASSUME NEW i \in DOMAIN cache[g].spec.sources,
               cache[g].spec.sources[i] = s, Ready(src[s])
        PROVE  Ready(srcCache[s]) /\ src[s].rev = srcCache[s].rev
    <3>1. s \in IndexBySourceRef(cache[g].spec)
      BY <2>1, CachedSpec DEF IndexBySourceRef
    <3>2. src[s].exists
      BY <2>1 DEF WatchTypeOK
    <3>3. g \in RequestsForSourceChange(s, src[s])
      BY <2>1, <3>1 DEF RequestsForSourceChange
    <3>4. ~SourceChangePredicate(srcCache[s], src[s])
      BY <1>3, <3>2, <3>3 DEF DeliverSource
    <3> QED BY <2>1, <3>4 DEF SourceChangePredicate
  <2>2. \A i \in DOMAIN cache[g].spec.sources :
           LET x == cache[g].spec.sources[i]
           IN  Ready(srcCache'[x]) => Ready(srcCache[x]) /\ srcCache'[x].rev = srcCache[x].rev
    BY <1>1, <2>1, CachedSpec
  <2>3. WillRun(g) => WillRun(g)'
    BY <1>1 DEF WillRun
  <2> QED BY <1>1, <2>2, <2>3, StillFollows
<1> QED BY <1>2, <1>3

(* A ConfigMap event passes the predicate whatever changed.                *)
LEMMA DeliverConfigMapFollows ==
    ASSUME WatchTypeOK, VersionsDiffer, NEW c \in ConfigMap, DeliverConfigMap(c),
           NEW g \in MG, Following(g)
    PROVE  Following(g)'
<1>1. /\ cmCache'[c] = cm[c] /\ \A x \in ConfigMap \ {c} : cmCache'[x] = cmCache[x]
      /\ cm' = cm /\ queue \subseteq queue'
      /\ UNCHANGED <<cache, srcCache, timer, pass, status>>
  BY DEF DeliverConfigMap, WatchTypeOK
<1>2. ConfigMapChangePredicate(cmCache[c], cm[c])
  BY DEF DeliverConfigMap, VersionsDiffer, ConfigMapChangePredicate
<1>3. CASE g \in queue'
  BY <1>3, WillRunFollows DEF WillRun
<1>4. CASE g \notin queue'
  <2>1. g \notin RequestsForConfigMapChange(c)
    BY <1>2, <1>4 DEF DeliverConfigMap
  <2>2. \A i \in DOMAIN cache[g].spec.maps : cache[g].spec.maps[i].name # c
    BY <2>1, CachedSpec DEF RequestsForConfigMapChange
  <2>3. WillRun(g) => WillRun(g)'
    BY <1>1 DEF WillRun
  <2> QED BY <1>1, <2>2, <2>3, CachedSpec, StillFollows
<1> QED BY <1>3, <1>4

(* A ConfigMap changes: its event is still to come.                        *)
LEMMA ConfigMapChangeFollows ==
    ASSUME WatchTypeOK, VersionsDiffer, NEW c \in ConfigMap, ConfigMapChange(c),
           NEW g \in MG, Following(g)
    PROVE  Following(g)'
<1>1. PICK d : cm' = [cm EXCEPT ![c] = [rv |-> changes', data |-> d]]
  BY DEF ConfigMapChange
<1>2. changes' = changes + 1 /\ UNCHANGED <<cache, srcCache, cmCache, timer, queue, pass, status>>
  BY DEF ConfigMapChange, Change
<1>3. /\ cm'[c].rv = changes + 1 /\ \A x \in ConfigMap \ {c} : cm'[x] = cm[x]
  BY <1>1, <1>2 DEF WatchTypeOK
<1>4. cmCache[c].rv \in Nat /\ cm[c].rv \in Nat /\ changes \in Nat
  BY DEF WatchTypeOK
<1>5. cmCache'[c] # cm'[c]
  BY <1>2, <1>3, <1>4 DEF VersionsDiffer
<1>6. WillRun(g) => WillRun(g)'
  BY <1>2 DEF WillRun
<1> QED BY <1>2, <1>3, <1>5, <1>6, CachedSpec, StillFollows

(* The pass begins on the cached spec, having read nothing.                *)
LEMMA BeginFollows ==
    ASSUME WatchTypeOK, NEW g \in MG, Begin(g)
    PROVE  Following(g)'
<1>1. cache[g].gen \in Nat /\ cache[g].spec \in Specs
  BY DEF WatchTypeOK
<1>2. pass'[g] = BeginOf(cache[g].gen, cache[g].spec) /\ cache' = cache
  BY DEF Begin, BeginOf, WatchTypeOK
<1>3. /\ pass'[g].pc = "run" /\ pass'[g].gen = cache'[g].gen /\ pass'[g].spec = cache'[g].spec
      /\ pass'[g].seen = <<>> /\ pass'[g].vals = <<>>
  BY <1>1, <1>2, BeginType
<1>4. DOMAIN <<>> = {}
  OBVIOUS
<1> QED BY <1>3, <1>4 DEF Following, PassFollows, StatusFollows, Follows

(* It sees the revision the cache has.                                     *)
LEMMA ObserveFollows ==
    ASSUME WatchTypeOK, NEW g \in MG, Following(g), ObserveSource(g), ~Fail(g)
    PROVE  Following(g)'
<1> DEFINE p == pass[g]
           o == srcCache[p.spec.sources[Len(p.seen) + 1]]
<1>1. /\ p.pc = "run" /\ pass' = [pass EXCEPT ![g].seen = Append(@, o)]
      /\ UNCHANGED <<cache, srcCache, cm, cmCache, queue, timer, status>>
  BY DEF ObserveSource, Seen
<1>2. /\ p \in [pc : {"idle", "run"}, gen : Nat, spec : Specs \cup {Idle.spec},
                seen : Seq(ToSet(p.seen)), vals : Seq(Data \cup {0})]
      /\ p.seen \in Seq(ToSet(p.seen))
  BY DEF WatchTypeOK, IsPass
<1>3. pass'[g] = [p EXCEPT !.seen = Append(p.seen, o)]
  BY <1>1 DEF WatchTypeOK
<1>4. /\ pass'[g].pc = p.pc /\ pass'[g].gen = p.gen /\ pass'[g].spec = p.spec
      /\ pass'[g].vals = p.vals /\ pass'[g].seen = Append(p.seen, o)
  <2> HIDE DEF o
  <2> QED BY <1>2, <1>3, ExtendRecord
<1>5. /\ Len(p.seen) \in Nat /\ DOMAIN p.seen = 1 .. Len(p.seen)
      /\ DOMAIN Append(p.seen, o) = 1 .. Len(p.seen) + 1
      /\ \A i \in 1 .. Len(p.seen) : Append(p.seen, o)[i] = p.seen[i]
      /\ Append(p.seen, o)[Len(p.seen) + 1] = o
  <2> HIDE DEF o
  <2> QED BY <1>2, AppendOwn
<1>6. CASE WillRun(g)
  BY <1>1, <1>6, WillRunFollows DEF WillRun
<1>7. CASE ~WillRun(g)
  <2>1. p.gen = cache[g].gen /\ p.spec = cache[g].spec /\ Follows(g, p.seen, p.vals)
    BY <1>1, <1>7 DEF Following, PassFollows
  <2>2. ASSUME NEW i \in DOMAIN Append(p.seen, o), Ready(srcCache[p.spec.sources[i]]),
               i \in DOMAIN p.spec.sources
        PROVE  Append(p.seen, o)[i].rev = srcCache[p.spec.sources[i]].rev
    <3>1. CASE i \in DOMAIN p.seen
      <4>1. p.seen[i].rev = srcCache[p.spec.sources[i]].rev
        BY <2>1, <2>2, <3>1 DEF Follows
      <4> QED BY <1>5, <3>1, <4>1
    <3>2. CASE i = Len(p.seen) + 1
      BY <1>5, <3>2
    <3> QED BY <1>5, <3>1, <3>2
  <2> HIDE DEF o
  <2>3. PassFollows(g)'
    BY <1>1, <1>4, <2>1, <2>2 DEF PassFollows, Follows
  <2> QED BY <1>1, <1>4, <2>3 DEF Following, StatusFollows
<1> QED BY <1>6, <1>7

(* It reads the ConfigMap the API server has, ahead of the cache or not.   *)
LEMMA ReadFollows ==
    ASSUME WatchTypeOK, NEW g \in MG, Following(g), ReadConfigMap(g), ~Fail(g)
    PROVE  Following(g)'
<1> DEFINE p == pass[g]
           v == cm[p.spec.maps[Len(p.vals) + 1].name].data
<1>1. /\ p.pc = "run" /\ pass' = [pass EXCEPT ![g].vals = Append(@, v)] /\ ~Resolved(g)
      /\ UNCHANGED <<cache, srcCache, cm, cmCache, queue, timer, status>>
  BY DEF ReadConfigMap
<1>2. /\ p \in [pc : {"idle", "run"}, gen : Nat, spec : Specs \cup {Idle.spec},
                seen : Seq(ToSet(p.seen)), vals : Seq(Data \cup {0})]
      /\ p.vals \in Seq(Data \cup {0})
  BY DEF WatchTypeOK, IsPass
<1>3. pass'[g] = [p EXCEPT !.vals = Append(p.vals, v)]
  BY <1>1 DEF WatchTypeOK
<1>4. /\ pass'[g].pc = p.pc /\ pass'[g].gen = p.gen /\ pass'[g].spec = p.spec
      /\ pass'[g].seen = p.seen /\ pass'[g].vals = Append(p.vals, v)
  <2> HIDE DEF v
  <2> QED BY <1>2, <1>3, ExtendRecord
<1>5. v \in Data \cup {0}
  BY <1>1, NextRead DEF WatchTypeOK
<1>6. /\ Len(p.vals) \in Nat /\ DOMAIN p.vals = 1 .. Len(p.vals)
      /\ DOMAIN Append(p.vals, v) = 1 .. Len(p.vals) + 1
      /\ \A i \in 1 .. Len(p.vals) : Append(p.vals, v)[i] = p.vals[i]
      /\ Append(p.vals, v)[Len(p.vals) + 1] = v
  <2> HIDE DEF v
  <2> QED BY <1>2, <1>5, AppendValue
<1>7. CASE WillRun(g)
  BY <1>1, <1>7, WillRunFollows DEF WillRun
<1>8. CASE ~WillRun(g)
  <2>1. p.gen = cache[g].gen /\ p.spec = cache[g].spec /\ Follows(g, p.seen, p.vals)
    BY <1>1, <1>8 DEF Following, PassFollows
  <2>2. ASSUME NEW i \in DOMAIN Append(p.vals, v), i \in DOMAIN p.spec.maps,
               cmCache[p.spec.maps[i].name] = cm[p.spec.maps[i].name]
        PROVE  Append(p.vals, v)[i] = cm[p.spec.maps[i].name].data
    <3>1. CASE i \in DOMAIN p.vals
      <4>1. p.vals[i] = cm[p.spec.maps[i].name].data
        BY <2>1, <2>2, <3>1 DEF Follows
      <4> QED BY <1>6, <3>1, <4>1
    <3>2. CASE i = Len(p.vals) + 1
      BY <1>6, <3>2
    <3>3. i \in DOMAIN p.vals \/ i = Len(p.vals) + 1
      <4> HIDE DEF v
      <4>1. i \in 1 .. Len(p.vals) + 1
        BY <1>6, <2>2
      <4> QED BY <1>6, <4>1
    <3> QED BY <3>1, <3>2, <3>3
  <2> HIDE DEF v
  <2>3. PassFollows(g)'
    BY <1>1, <1>4, <2>1, <2>2 DEF PassFollows, Follows
  <2> QED BY <1>1, <1>4, <2>3 DEF Following, StatusFollows
<1> QED BY <1>7, <1>8

(* What it has seen and read becomes what the status was made from.        *)
LEMMA PublishFollows ==
    ASSUME WatchTypeOK, NEW g \in MG, Following(g), Publish(g)
    PROVE  Following(g)'
<1> DEFINE p == pass[g]
           t == [gen |-> p.gen, observed |-> p.seen, values |-> p.vals]
<1>1. /\ p.pc = "run" /\ Observed(g) /\ Resolved(g)
      /\ pass' = [pass EXCEPT ![g] = Idle] /\ status' = [status EXCEPT ![g] = t]
      /\ timer' = [timer EXCEPT ![g] = IF @ = "none" THEN "interval" ELSE @]
      /\ UNCHANGED <<cache, srcCache, cm, cmCache, queue>>
  BY DEF Publish, Succeed
<1>2. t.gen = p.gen /\ t.observed = p.seen /\ t.values = p.vals
  OBVIOUS
<1> HIDE DEF t
<1>3. pass'[g] = Idle /\ status'[g] = t /\ (timer[g] = "retry" => timer'[g] = "retry")
  BY <1>1 DEF WatchTypeOK
<1>4. CASE WillRun(g)
  BY <1>1, <1>3, <1>4, WillRunFollows DEF WillRun
<1>5. CASE ~WillRun(g)
  <2>1. p.gen = cache[g].gen /\ p.spec = cache[g].spec /\ Follows(g, p.seen, p.vals)
    BY <1>1, <1>5 DEF Following, PassFollows
  <2>2. DOMAIN p.seen = DOMAIN p.spec.sources /\ DOMAIN p.vals = DOMAIN p.spec.maps
    <3>1. /\ p.seen \in Seq(ToSet(p.seen)) /\ p.vals \in Seq(Data \cup {0})
          /\ p.spec \in Specs
      BY <1>1 DEF WatchTypeOK, IsPass
    <3>2. DOMAIN p.seen = 1 .. Len(p.seen) /\ DOMAIN p.vals = 1 .. Len(p.vals)
      BY <3>1, LenProperties
    <3>3. /\ DOMAIN p.spec.sources = 1 .. Len(p.spec.sources)
          /\ DOMAIN p.spec.maps = 1 .. Len(p.spec.maps)
      BY <3>1, SpecType
    <3> QED BY <1>1, <3>2, <3>3 DEF Observed, Seen, Resolved
  <2>3. StatusFollows(g)'
    BY <1>1, <1>2, <1>3, <2>1, <2>2 DEF StatusFollows, Follows
  <2> QED BY <1>3, <2>3, IdleType DEF Following, PassFollows
<1> QED BY <1>4, <1>5

(* A pass that fails is retried.                                           *)
LEMMA FailFollows ==
    ASSUME WatchTypeOK, NEW g \in MG, Fail(g)
    PROVE  Following(g)'
<1>1. timer'[g] = "retry"
  BY DEF Fail, WatchTypeOK
<1> QED BY <1>1, WillRunFollows DEF WillRun

(* The passes of the others are not concerned.                             *)
LEMMA OthersFollow ==
    ASSUME WatchTypeOK, NEW h \in MG, Begin(h) \/ Work(h),
           NEW g \in MG \ {h}, Following(g)
    PROVE  Following(g)'
<1>1. UNCHANGED <<cache, srcCache, cm, cmCache>>
  BY DEF Begin, Work, ObserveSource, FetchFails, ReadConfigMap, Publish, Fail
<1>2. pass'[g] = pass[g] /\ status'[g] = status[g] /\ timer'[g] = timer[g]
  BY DEF Begin, Work, ObserveSource, FetchFails, ReadConfigMap, Publish, Succeed, Fail,
         WatchTypeOK
<1>3. queue' \in {queue, queue \ {h}}
  BY DEF Begin, Work, ObserveSource, FetchFails, ReadConfigMap, Publish, Fail
<1>4. WillRun(g) => WillRun(g)'
  BY <1>2, <1>3 DEF WillRun
<1> QED BY <1>1, <1>2, <1>4, StillFollows

-----------------------------------------------------------------------------
(* The invariant.                                                          *)

(* Every generator starts in the queue.                                    *)
LEMMA InitWatch == Init => WatchInv
<1> SUFFICES ASSUME Init PROVE WatchInv
  OBVIOUS
<1>1. WatchTypeOK
  BY InitType
<1>2. VersionsDiffer
  BY <1>1 DEF Init, NoMap, VersionsDiffer, WatchTypeOK
<1>3. \A g \in MG : PassFollows(g) /\ StatusFollows(g)
  BY DEF Init, PassFollows, StatusFollows, WillRun
<1> QED BY <1>1, <1>2, <1>3 DEF WatchInv

(* Every step keeps the generators following.                              *)
LEMMA NextWatch == WatchInv /\ [Next]_vars => WatchInv'
<1> SUFFICES ASSUME WatchInv, [Next]_vars PROVE WatchInv'
  OBVIOUS
<1>0. WatchTypeOK /\ VersionsDiffer /\ \A g \in MG : Following(g)
  BY DEF WatchInv, Following
<1> SUFFICES ASSUME NEW g \in MG PROVE Following(g)'
  BY <1>0, NextType, NextVersions DEF WatchInv, Following
<1>f. Following(g)
  BY <1>0
<1>1. ASSUME UNCHANGED <<cache, srcCache, cm, cmCache, timer, queue, pass, status>>
      PROVE  Following(g)'
  <2>1. WillRun(g) => WillRun(g)'
    BY <1>1 DEF WillRun
  <2> QED BY <1>0, <1>f, <1>1, <2>1, StillFollows
<1>2. ASSUME NEW h \in MG, EditSpec(h)
      PROVE  Following(g)'
  BY <1>1, <1>2 DEF EditSpec, Change
<1>3. ASSUME NEW s \in Source, SourceChange(s)
      PROVE  Following(g)'
  BY <1>1, <1>3 DEF SourceChange, Change
<1>4. ASSUME NEW h \in MG, DeliverManifestGenerator(h)
      PROVE  Following(g)'
  <2>1. CASE h = g
    BY <1>4, <2>1, WillRunFollows DEF DeliverManifestGenerator, WillRun
  <2>2. CASE h # g
    <3>1. /\ cache'[g] = cache[g] /\ queue \subseteq queue'
          /\ UNCHANGED <<srcCache, cm, cmCache, timer, pass, status>>
      BY <1>0, <1>4, <2>2 DEF DeliverManifestGenerator, WatchTypeOK
    <3>2. WillRun(g) => WillRun(g)'
      BY <3>1 DEF WillRun
    <3> QED BY <1>0, <1>f, <3>1, <3>2, StillFollows
  <2> QED BY <2>1, <2>2
<1>5. ASSUME NEW h \in MG, RetryTimerFires(h) \/ IntervalTimerFires(h)
      PROVE  Following(g)'
  <2>1. /\ queue' = queue \cup {h} /\ (g # h => timer'[g] = timer[g])
        /\ UNCHANGED <<cache, srcCache, cm, cmCache, pass, status>>
    BY <1>0, <1>5 DEF RetryTimerFires, IntervalTimerFires, TimerFires, WatchTypeOK
  <2>2. WillRun(g) => WillRun(g)'
    BY <2>1 DEF WillRun
  <2> QED BY <1>0, <1>f, <2>1, <2>2, StillFollows
<1>6. ASSUME NEW s \in Src, DeliverSource(s)
      PROVE  Following(g)'
  BY <1>0, <1>f, <1>6, DeliverSourceFollows
<1>7. ASSUME NEW c \in ConfigMap, ConfigMapChange(c) \/ DeliverConfigMap(c)
      PROVE  Following(g)'
  BY <1>0, <1>f, <1>7, ConfigMapChangeFollows, DeliverConfigMapFollows
<1>8. ASSUME NEW h \in MG, Begin(h) \/ Work(h)
      PROVE  Following(g)'
  <2>1. CASE h # g
    BY <1>0, <1>f, <1>8, <2>1, OthersFollow
  <2>2. CASE h = g /\ Begin(g)
    BY <1>0, <2>2, BeginFollows
  <2>3. CASE h = g /\ Work(g)
    BY <1>0, <1>f, <2>3, FailFollows, ObserveFollows, ReadFollows, PublishFollows
       DEF Work, FetchFails
  <2> QED BY <1>8, <2>1, <2>2, <2>3
<1>9. CASE Restart
  BY <1>9, WillRunFollows DEF Restart, WillRun
<1>10. CASE UNCHANGED vars
  BY <1>1, <1>10 DEF vars
<1> QED BY <1>2, <1>3, <1>4, <1>5, <1>6, <1>7, <1>8, <1>9, <1>10 DEF Next

(* In every reachable state, a generator will run again or is made from    *)
(* what the informers have delivered.                                      *)
THEOREM WatchInvariant == Spec => []WatchInv
BY InitWatch, NextWatch, PTL DEF Spec

(* A generator with nothing but its interval ahead of it is current: no    *)
(* change of a spec, a revision or a ConfigMap has been lost.              *)
THEOREM NoChangeIsLost == Spec => []QuietIsCurrent
<1>1. WatchInv => QuietIsCurrent
  <2> SUFFICES ASSUME WatchInv, NEW g \in MG, Quiet(g) PROVE Current(g)
    BY DEF QuietIsCurrent
  <2>1. /\ ~WillRun(g) /\ pass[g].pc = "idle" /\ cache[g] = mg[g]
    BY DEF Quiet, WillRun
  <2>2. /\ status[g].gen = cache[g].gen
        /\ DOMAIN status[g].observed = DOMAIN cache[g].spec.sources
        /\ DOMAIN status[g].values = DOMAIN cache[g].spec.maps
        /\ Follows(g, status[g].observed, status[g].values)
    BY <2>1 DEF WatchInv, StatusFollows
  <2>3. ASSUME NEW i \in DOMAIN mg[g].spec.sources, Ready(src[mg[g].spec.sources[i]])
        PROVE  status[g].observed[i].rev = src[mg[g].spec.sources[i]].rev
    <3>1. srcCache[mg[g].spec.sources[i]] = src[mg[g].spec.sources[i]]
      BY DEF Quiet, ToSet
    <3> QED BY <2>1, <2>2, <2>3, <3>1 DEF Follows
  <2>4. ASSUME NEW i \in DOMAIN mg[g].spec.maps
        PROVE  status[g].values[i] = cm[mg[g].spec.maps[i].name].data
    <3>1. cmCache[mg[g].spec.maps[i].name] = cm[mg[g].spec.maps[i].name]
      BY DEF Quiet, ToSet
    <3> QED BY <2>1, <2>2, <3>1 DEF Follows
  <2> QED BY <2>1, <2>2, <2>3, <2>4 DEF Current
<1> QED BY <1>1, WatchInvariant, PTL
=============================================================================
