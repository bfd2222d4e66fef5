-------------------------- MODULE LifecycleProofs --------------------------
(***************************************************************************)
(* What holds as long as generators keep to their own names: a pass finds  *)
(* what it has archived and published still there when it records it       *)
(* (PublishingInv).  And, while nothing fails either: what a generator     *)
(* owns, what it shows, who will look at it again (LifecycleInv), from     *)
(* which the finalizer guards all it has published.  For any number of     *)
(* ManifestGenerators and names and any bounds.                            *)
(***************************************************************************)
EXTENDS ReconcilerProofs

-----------------------------------------------------------------------------
(* Which artifacts a pass touches.                                         *)

(* A step of k leaves the artifacts alone that its pass is not at.         *)
LEMMA TouchesOwn ==
    ASSUME TypeOK, NEW k \in MG, Work(k) \/ Fails(k), NEW x \in Name, x \notin Touches(k)
    PROVE  ea'[x] = ea[x] /\ files'[x] = files[x]
<1>0. x \notin pass[k].todo /\ x \notin pass[k].cur /\ x \notin pass[k].orphans
      /\ x \notin Names(pass[k].eaRefs)
  BY DEF Touches
<1>1. CASE Build(k) \/ BuildCollides(k)
  BY <1>0, <1>1 DEF Build, BuildCollides, TypeOK
<1>2. CASE ApplyExternalArtifact(k) \/ PatchExternalArtifactStatus(k)
  <2>1. \E n \in pass[k].cur : \A y \in Name \ {n} : ea'[y] = ea[y]
    BY <1>2 DEF ApplyExternalArtifact, PatchExternalArtifactStatus, TypeOK
  <2> QED BY <1>0, <1>2, <2>1 DEF ApplyExternalArtifact, PatchExternalArtifactStatus
<1>3. CASE CleanStorage(k)
  BY <1>0, <1>3 DEF CleanStorage, TypeOK
<1>4. CASE CleanExternalArtifact(k)
  BY <1>0, <1>4 DEF CleanExternalArtifact
<1>5. CASE Complete(k) \/ CompleteSlowly(k)
  BY <1>0, <1>5 DEF Complete, CompleteSlowly, GarbageCollect
<1>6. CASE StartTmpDirFails(k)
  BY <1>6 DEF StartTmpDirFails, Begin, Take
<1>7. CASE \/ PatchProgress(k) \/ ObserveSources(k) \/ SourcesNotReady(k) \/ Prepare(k)
           \/ ExternalArtifactChanged(k) \/ RemoveFinalizer(k) \/ Summarize(k)
           \/ SummarizeGone(k)
  BY <1>7 DEF PatchProgress, ObserveSources, SourcesNotReady, Prepare, ExternalArtifactChanged,
              RemoveFinalizer, Summarize, SummarizeGone
<1>8. CASE \/ PatchProgressFails(k) \/ PrepareFails(k) \/ BuildFails(k)
           \/ ExternalArtifactFails(k) \/ CleanStorageFails(k)
           \/ CleanExternalArtifactFails(k) \/ SummarizeFails(k) \/ Panic(k)
  BY <1>8 DEF PatchProgressFails, PrepareFails, BuildFails, ExternalArtifactFails,
              CleanStorageFails, CleanExternalArtifactFails, SummarizeFails, Panic
<1> QED BY <1>1, <1>2, <1>3, <1>4, <1>5, <1>6, <1>7, <1>8 DEF Work, Fails

(* A pass whose locals and artifacts do not change keeps holding them.     *)
LEMMA OtherHolds ==
    ASSUME TypeOK, NEW m \in MG, PassHoldsArtifacts(m), pass'[m] = pass[m],
           \A x \in pass[m].obj.spec.artifacts : ea'[x] = ea[x] /\ files'[x] = files[x]
    PROVE  PassHoldsArtifacts(m)'
<1> DEFINE p == pass[m]
           artifacts == p.obj.spec.artifacts
<1>1. /\ Names(p.eaRefs) \subseteq artifacts
      /\ p.pc \in {"apply", "eastatus"} => p.cur \subseteq artifacts
  BY DEF PassHoldsArtifacts
<1>2. \A x \in artifacts : \A g : Holds(m, x, g)' <=> Holds(m, x, g)
  BY DEF Holds
<1>3. Digest(m)' = Digest(m)
  BY DEF Digest
<1> QED BY <1>1, <1>2, <1>3 DEF PassHoldsArtifacts

(* An empty pass holds nothing.                                            *)
LEMMA IdleHolds ==
    ASSUME NEW m \in MG, pass'[m] = Idle
    PROVE  PassHoldsArtifacts(m)'
BY DEF PassHoldsArtifacts, Idle, Absent, NoSpec, Names

-----------------------------------------------------------------------------
(* Steps inside a pass.                                                    *)

(* What a successful pass records is about the spec it read.               *)
LEMMA SucceededKeepsSpec ==
    ASSUME NEW o \in Object, NEW refs \in SUBSET Ref
    PROVE  Succeeded(o, refs).spec = o.spec
BY DEF Succeeded, MarkReady, Object

(* A pass that has archived and published nothing, and has not changed its *)
(* object's observedGeneration, holds nothing yet.                         *)
LEMMA FreshHolds ==
    ASSUME NEW m \in MG, pass'[m].eaRefs = {},
           pass'[m].pc \in {"progress", "observe", "prepare", "clean", "summarize"},
           pass'[m].pc = "clean" => pass'[m].obj.deleting,
           pass'[m].obj.deleting => pass'[m].pc \in {"clean", "summarize"},
           \/ pass'[m].obj.status.observedGeneration = pass'[m].before.status.observedGeneration
           \/ \A n \in pass'[m].obj.spec.artifacts : Holds(m, n, pass[m].obj.gen)'
    PROVE  PassHoldsArtifacts(m)'
<1>1. Names(pass'[m].eaRefs) = {}
  BY DEF Names
<1> QED BY <1>1 DEF PassHoldsArtifacts, Publishing

(* The pass begins.                                                        *)
LEMMA BeginHolds ==
    ASSUME TypeOK, NEW m \in MG,
           NEW pc \in {"progress", "clean", "summarize"}, NEW obj \in Object,
           NEW orphans, NEW outcome, Begin(m, pc, obj, orphans, outcome),
           obj.status = cache[m].status,
           pc = "clean" => obj.deleting, obj.deleting => pc # "progress"
    PROVE  PassHoldsArtifacts(m)'
<1>1. pass'[m] = [Idle EXCEPT !.pc = pc, !.obj = obj, !.before = cache[m],
                              !.orphans = orphans, !.outcome = outcome]
  BY DEF Begin, TypeOK
<1>2. /\ pass'[m].pc = pc /\ pass'[m].obj = obj /\ pass'[m].before = cache[m]
      /\ pass'[m].eaRefs = {}
  BY <1>1 DEF Idle
<1> QED BY <1>2, FreshHolds

(* The pass returns with the generation it found recorded, or with its own *)
(* while everything in its spec is published.                              *)
LEMMA ReturnHolds ==
    ASSUME TypeOK, HistoryInv, NEW m \in MG, pass[m].pc # "summarize",
           NEW obj \in Object, NEW outcome, Return(m, obj, outcome),
           \/ obj.status = pass[m].obj.status
           \/ \A n \in obj.spec.artifacts : Holds(m, n, obj.gen)'
    PROVE  PassHoldsArtifacts(m)'
<1>1. pass'[m] = [Idle EXCEPT !.pc = "summarize", !.obj = obj,
                     !.before = pass[m].before, !.outcome = outcome,
                     !.expired = pass[m].expired]
  BY DEF Return, TypeOK
<1>2. /\ pass'[m].pc = "summarize" /\ pass'[m].obj = obj
      /\ pass'[m].before = pass[m].before /\ pass'[m].eaRefs = {}
  BY <1>1 DEF Idle
<1>3. pass[m].obj.status = pass[m].before.status
  BY DEF HistoryInv, History, PassInOrder
<1>4. CASE obj.status = pass[m].obj.status
  BY <1>2, <1>3, <1>4, FreshHolds
<1>5. CASE \A n \in obj.spec.artifacts : Holds(m, n, obj.gen)'
  <2>1. Names(pass'[m].eaRefs) = {}
    BY <1>2 DEF Names
  <2>2. \A n \in pass'[m].obj.spec.artifacts : Holds(m, n, pass[m].obj.gen)'
    BY <1>2, <1>5
  <2> QED BY <1>2, <2>1, <2>2 DEF PassHoldsArtifacts, Publishing
<1> QED BY <1>4, <1>5

(* A failing branch.                                                       *)
LEMMA FailedHolds ==
    ASSUME TypeOK, HistoryInv, NEW m \in MG, pass[m].pc # "summarize", Failed(m)
    PROVE  PassHoldsArtifacts(m)'
<1>1. pass[m].obj \in Object
  BY PassType
<1> QED BY <1>1, MarkType, MarkKeeps, ReturnHolds DEF Failed

(* The head of a pass.                                                     *)
LEMMA StartHolds ==
    ASSUME TypeOK, NEW m \in MG, PassHoldsArtifacts(m), Start(m) \/ StartTmpDirFails(m)
    PROVE  PassHoldsArtifacts(m)'
<1> DEFINE c == cache[m]
<1>0. c \in Object
  BY DEF TypeOK
<1>1. CASE StartGone(m)
  BY <1>1, OtherHolds DEF StartGone, Take
<1>2. CASE StartFinalize(m)
  BY <1>0, <1>2, BeginHolds DEF StartFinalize
<1>3. CASE StartAddFinalizer(m)
  BY <1>0, <1>3, AddFinalizerType, AddFinalizerKeeps, BeginHolds DEF StartAddFinalizer
<1>4. CASE StartDisabled(m)
  BY <1>0, <1>4, BeginHolds DEF StartDisabled
<1>5. CASE StartInvalid(m)
  <2>1. MarkReady(c, "False") \in Object
    BY <1>0, MarkType
  <2>2. /\ NewTerminalErrorFor(c) \in Object
        /\ NewTerminalErrorFor(c).status = c.status
    BY <1>0, <2>1, MarkType, MarkKeeps DEF NewTerminalErrorFor
  <2> QED BY <1>5, <2>2, BeginHolds DEF StartInvalid
<1>6. CASE StartReconcile(m)
  <2> DEFINE o == MarkReady(MarkReconciling(c), "Unknown")
  <2>1. MarkReconciling(c) \in Object
    BY <1>0, MarkType
  <2>2. o \in Object /\ o.deleting = c.deleting /\ o.status = c.status
    BY <1>0, <2>1, MarkType, MetadataKept, MarkKeeps
  <2>3. Begin(m, "progress", o, {}, "none") /\ ~c.deleting
    BY <1>6 DEF StartReconcile, Reconcilable
  <2> HIDE DEF o
  <2> QED BY <2>2, <2>3, BeginHolds
<1>7. CASE StartTmpDirFails(m)
  BY <1>0, <1>7, BeginHolds DEF StartTmpDirFails
<1> QED BY <1>1, <1>2, <1>3, <1>4, <1>5, <1>6, <1>7 DEF Start

(* A step that moves nothing a pass holds: only how far it is.             *)
LEMMA MovesHolds ==
    ASSUME NEW m \in MG, PassHoldsArtifacts(m), UNCHANGED <<ea, files>>,
           pass'[m].pc = pass[m].pc,
           pass'[m].obj = pass[m].obj, pass'[m].before = pass[m].before,
           pass'[m].rev = pass[m].rev, pass'[m].todo = pass[m].todo,
           pass'[m].cur = pass[m].cur, pass'[m].eaRefs = pass[m].eaRefs,
           pass'[m].orphans = pass[m].orphans
    PROVE  PassHoldsArtifacts(m)'
<1>1. Digest(m)' = Digest(m) /\ \A n, g : Holds(m, n, g)' <=> Holds(m, n, g)
  BY DEF Digest, Holds
<1> QED BY <1>1 DEF PassHoldsArtifacts

(* Up to the first build, nothing is held.                                 *)
LEMMA PreparingHolds ==
    ASSUME TypeOK, HistoryInv, NEW m \in MG, PassHoldsArtifacts(m),
           PatchProgress(m) \/ ObserveSources(m) \/ Prepare(m)
    PROVE  PassHoldsArtifacts(m)'
<1> USE DEF At
<1>0. pass[m] \in Pass
  BY DEF TypeOK
<1>1. pass[m].eaRefs = {} /\ ~pass[m].obj.deleting
  BY DEF PatchProgress, ObserveSources, Prepare, PassHoldsArtifacts, Publishing
<1>2. pass[m].obj.status = pass[m].before.status
  BY DEF HistoryInv, History, PassInOrder, PatchProgress, ObserveSources, Prepare
<1>3. CASE PatchProgress(m)
  <2>1. /\ pass'[m].pc = "observe" /\ pass'[m].obj = pass[m].obj
        /\ pass'[m].before = pass[m].obj /\ pass'[m].eaRefs = pass[m].eaRefs
    BY <1>0, <1>3 DEF PatchProgress, TypeOK, Pass
  <2> QED BY <1>1, <2>1, FreshHolds
<1>4. CASE ObserveSources(m)
  <2>1. /\ pass'[m].pc = "prepare" /\ pass'[m].obj = pass[m].obj
        /\ pass'[m].before = pass[m].before /\ pass'[m].eaRefs = pass[m].eaRefs
    BY <1>0, <1>4 DEF ObserveSources, TypeOK, Pass
  <2> QED BY <1>1, <1>2, <2>1, FreshHolds
<1>5. CASE Prepare(m)
  <2>1. /\ pass'[m].pc = "build" /\ pass'[m].obj = pass[m].obj
        /\ pass'[m].before = pass[m].before /\ pass'[m].eaRefs = pass[m].eaRefs
        /\ pass'[m].todo = pass[m].obj.spec.artifacts
    BY <1>0, <1>5 DEF Prepare, TypeOK, Pass
  <2>2. Names(pass'[m].eaRefs) = {}
    BY <1>1, <2>1 DEF Names
  <2> QED BY <1>1, <1>2, <2>1, <2>2 DEF PassHoldsArtifacts
<1> QED BY <1>3, <1>4, <1>5

(* Build archives the artifact it hands on.                                *)
LEMMA BuildHolds ==
    ASSUME TypeOK, HistoryInv, NEW m \in MG, PassHoldsArtifacts(m),
           Build(m) \/ BuildCollides(m)
    PROVE  PassHoldsArtifacts(m)'
<1>0. /\ pass[m] \in Pass /\ pass[m].todo \in SUBSET Name
      /\ pass[m].pc = "build" /\ ea' = ea
      /\ pass[m].obj.status = pass[m].before.status
  BY PassType DEF TypeOK, Build, BuildCollides, At, HistoryInv, History, PassInOrder
<1>1. PICK n \in pass[m].todo :
        /\ files' = [files EXCEPT ![n] = @ \cup {Digest(m)}]
              \/ files' = [files EXCEPT ![n] = {Digest(m)}]
        /\ pass' = [pass EXCEPT ![m].pc = "apply", ![m].cur = {n}]
  BY DEF Build, BuildCollides
<1>2. /\ pass'[m].pc = "apply" /\ pass'[m].cur = {n} /\ pass'[m].obj = pass[m].obj
      /\ pass'[m].before = pass[m].before /\ pass'[m].rev = pass[m].rev
      /\ pass'[m].todo = pass[m].todo /\ pass'[m].eaRefs = pass[m].eaRefs
  BY <1>0, <1>1 DEF TypeOK, Pass
<1>3. Digest(m) \in files'[n]
  BY <1>0, <1>1 DEF TypeOK
<1>4. Digest(m)' = Digest(m) /\ \A x, g : Holds(m, x, g)' <=> Holds(m, x, g)
  BY <1>0, <1>2 DEF Digest, Holds
<1> QED BY <1>0, <1>2, <1>3, <1>4 DEF PassHoldsArtifacts, Publishing

(* Applying the ExternalArtifact takes its label.                          *)
LEMMA ApplyHolds ==
    ASSUME TypeOK, HistoryInv, NEW m \in MG, PassHoldsArtifacts(m), ApplyExternalArtifact(m)
    PROVE  PassHoldsArtifacts(m)'
<1>0. /\ pass[m] \in Pass /\ pass[m].cur \in SUBSET Name
      /\ pass[m].pc = "apply" /\ files' = files
      /\ pass[m].obj.status = pass[m].before.status
  BY PassType DEF TypeOK, ApplyExternalArtifact, At, HistoryInv, History, PassInOrder
<1>1. PICK n \in pass[m].cur : ea' = [ea EXCEPT ![n].exists = TRUE, ![n].owner = {m}]
  BY DEF ApplyExternalArtifact
<1>2. pass[m].cur = {n}
  BY <1>0, <1>1 DEF HistoryInv, History, PassInOrder
<1>3. /\ pass'[m].pc = "eastatus" /\ pass'[m].cur = pass[m].cur
      /\ pass'[m].obj = pass[m].obj
      /\ pass'[m].before = pass[m].before /\ pass'[m].rev = pass[m].rev
      /\ pass'[m].todo = pass[m].todo /\ pass'[m].eaRefs = pass[m].eaRefs
  BY <1>0 DEF ApplyExternalArtifact, TypeOK, Pass
<1>4. /\ ea'[n].exists /\ ea'[n].owner = {m} /\ ea'[n].content = ea[n].content
      /\ \A x \in Name \ {n} : ea'[x] = ea[x]
  BY <1>0, <1>1 DEF TypeOK, EA
<1>5. Digest(m)' = Digest(m) /\ \A x \in Name : \A g : Holds(m, x, g) => Holds(m, x, g)'
  BY <1>3, <1>4 DEF Digest, Holds
<1>6. Names(pass[m].eaRefs) \subseteq Name /\ pass[m].obj.spec.artifacts \subseteq Name
  BY PassType DEF PassHoldsArtifacts
<1> QED BY <1>0, <1>2, <1>3, <1>4, <1>5, <1>6 DEF PassHoldsArtifacts, Publishing

(* Publishing: the artifact in hand moves from those to build to those     *)
(* published, and the last one shows which are orphans.                    *)
LEMMA PublishHolds ==
    ASSUME TypeOK, HistoryInv, NEW m \in MG, PassHoldsArtifacts(m),
           PatchExternalArtifactStatus(m)
    PROVE  PassHoldsArtifacts(m)'
<1> DEFINE artifacts == pass[m].obj.spec.artifacts
<1>0. /\ pass[m] \in Pass /\ pass[m].cur \in SUBSET Name
      /\ pass[m].pc = "eastatus"
      /\ pass[m].obj.status = pass[m].before.status
      /\ artifacts \subseteq Name
  BY PassType DEF TypeOK, PatchExternalArtifactStatus, At, HistoryInv, History, PassInOrder
<1>1. PICK n \in pass[m].cur :
        LET refs == pass[m].eaRefs \cup {[name |-> n, content |-> Digest(m)]}
            todo == pass[m].todo \ {n}
        IN  /\ ea[n].exists
            /\ ea' = [ea EXCEPT ![n].content = Digest(m)]
            /\ pass' = [pass EXCEPT
                  ![m].pc = IF todo = {} THEN "clean" ELSE "build",
                  ![m].cur = {}, ![m].todo = todo, ![m].eaRefs = refs,
                  ![m].orphans = IF todo = {}
                      THEN FindOrphanedReferences(pass[m].obj.status.inventory, refs)
                      ELSE {}]
  BY Zenon DEF PatchExternalArtifactStatus
<1> DEFINE refs == pass[m].eaRefs \cup {[name |-> n, content |-> Digest(m)]}
           todo == pass[m].todo \ {n}
<1>2. /\ pass'[m].obj = pass[m].obj /\ pass'[m].before = pass[m].before
      /\ pass'[m].cur = {} /\ pass'[m].eaRefs = refs /\ pass'[m].todo = todo
      /\ \/ todo # {} /\ pass'[m].pc = "build"
         \/ /\ todo = {} /\ pass'[m].pc = "clean"
            /\ pass'[m].orphans =
                  FindOrphanedReferences(pass[m].obj.status.inventory, refs)
  BY <1>0, <1>1 DEF TypeOK, Pass
<1>3. Names(refs) = Names(pass[m].eaRefs) \cup {n}
  <2>1. \A r \in refs : r \in pass[m].eaRefs \/ r.name = n
    OBVIOUS
  <2>2. [name |-> n, content |-> Digest(m)].name = n
    OBVIOUS
  <2>3. n \in Names(refs)
    BY <2>2 DEF Names
  <2> QED BY <2>1, <2>3 DEF Names
<1>4. FindOrphanedReferences(pass[m].obj.status.inventory, refs) \cap Names(refs) = {}
  BY DEF FindOrphanedReferences
<1> HIDE DEF refs, todo
<1>5. /\ n \in artifacts /\ todo \cup Names(refs) = artifacts
      /\ ea[n].owner = {m} /\ ~pass[m].obj.deleting
  BY <1>0, <1>1, <1>3 DEF PassHoldsArtifacts, Publishing, todo
<1>6. /\ ea'[n].exists /\ ea'[n].owner = {m} /\ ea'[n].content = Digest(m)
      /\ \A x \in Name \ {n} : ea'[x] = ea[x]
  BY <1>0, <1>1, <1>5 DEF TypeOK, EA
<1>7. \A x \in Names(refs) : Holds(m, x, pass[m].obj.gen)'
  <2>1. Holds(m, n, pass[m].obj.gen)'
    BY <1>2, <1>6 DEF Holds, Digest
  <2>2. \A x \in Names(pass[m].eaRefs) \ {n} : Holds(m, x, pass[m].obj.gen)'
    BY <1>0, <1>2, <1>6 DEF Holds, PassHoldsArtifacts
  <2> QED BY <1>3, <2>1, <2>2
<1>8. CASE todo # {}
  BY <1>0, <1>2, <1>5, <1>7, <1>8 DEF PassHoldsArtifacts, Publishing
<1>9. CASE todo = {}
  BY <1>0, <1>2, <1>4, <1>5, <1>7, <1>9 DEF PassHoldsArtifacts, Publishing
<1> QED BY <1>8, <1>9

(* The cleanup of a live object takes away nothing its pass published.     *)
LEMMA CleanHolds ==
    ASSUME TypeOK, HistoryInv, NEW m \in MG, PassHoldsArtifacts(m),
           \/ CleanStorage(m) \/ CleanStorageFails(m)
           \/ CleanExternalArtifact(m) \/ CleanExternalArtifactFails(m)
    PROVE  PassHoldsArtifacts(m)'
<1> DEFINE artifacts == pass[m].obj.spec.artifacts
           published == Names(pass[m].eaRefs)
<1>0. /\ pass[m] \in Pass /\ pass[m].pc \in {"clean", "cleanea"}
      /\ pass[m].obj.status = pass[m].before.status
      /\ artifacts \subseteq Name
  BY PassType DEF TypeOK, CleanStorage, CleanStorageFails, CleanExternalArtifact,
                  CleanExternalArtifactFails, At, HistoryInv, History, PassInOrder
<1>1. /\ pass'[m].pc \in {"clean", "cleanea"}
      /\ pass'[m].obj = pass[m].obj /\ pass'[m].before = pass[m].before
      /\ pass'[m].eaRefs = pass[m].eaRefs
      /\ pass'[m].orphans \cup pass'[m].cur \subseteq pass[m].orphans \cup pass[m].cur
  <2>1. CASE CleanStorage(m) \/ CleanStorageFails(m)
    <3>1. PICK n \in pass[m].orphans :
             pass' = [pass EXCEPT ![m].pc = "cleanea", ![m].cur = {n}]
      BY <2>1 DEF CleanStorage, CleanStorageFails
    <3> QED BY <1>0, <3>1 DEF TypeOK, Pass
  <2>2. CASE CleanExternalArtifact(m) \/ CleanExternalArtifactFails(m)
    <3>1. CleanNext(m)
      BY <2>2 DEF CleanExternalArtifact, CleanExternalArtifactFails
    <3> QED BY <1>0, <3>1 DEF CleanNext, TypeOK, Pass
  <2> QED BY <2>1, <2>2
<1>2. \A x \in Name : x \notin pass[m].cur => ea'[x] = ea[x]
  BY DEF CleanStorage, CleanStorageFails, CleanExternalArtifact, CleanExternalArtifactFails
<1>3. published \subseteq artifacts /\ (~pass[m].obj.deleting => published = artifacts)
  BY <1>0 DEF PassHoldsArtifacts
<1>4. \A x \in published : x \in Name /\ x \notin pass[m].cur
  <2>1. CASE pass[m].obj.deleting
    BY <2>1 DEF PassHoldsArtifacts, Names
  <2>2. CASE ~pass[m].obj.deleting
    BY <1>0, <2>2 DEF PassHoldsArtifacts
  <2> QED BY <2>1, <2>2
<1>5. \A x \in published : Holds(m, x, pass[m].obj.gen)'
  BY <1>1, <1>2, <1>4 DEF Holds, PassHoldsArtifacts
<1> QED BY <1>0, <1>1, <1>3, <1>5 DEF PassHoldsArtifacts, Publishing

(* A pass that completes records what it still holds.                      *)
LEMMA CompleteHolds ==
    ASSUME TypeOK, HistoryInv, NEW m \in MG, PassHoldsArtifacts(m),
           Complete(m) \/ CompleteSlowly(m)
    PROVE  PassHoldsArtifacts(m)'
<1> DEFINE o == pass[m].obj
<1>1. PICK s : s = Succeeded(o, pass[m].eaRefs)
  OBVIOUS
<1>2. /\ o \in Object /\ pass[m].eaRefs \in SUBSET Ref
      /\ pass[m].pc = "clean" /\ ~o.deleting /\ ea' = ea
      /\ Return(m, s, "interval")
  BY <1>1, PassType DEF Complete, CompleteSlowly, At
<1>3. s \in Object /\ s.spec = o.spec /\ s.gen = o.gen
  BY <1>1, <1>2, SucceededType, SucceededKeepsSpec, SucceededRecords
<1>4. \A n \in s.spec.artifacts : Holds(m, n, s.gen)'
  BY <1>2, <1>3 DEF PassHoldsArtifacts, Holds
<1> QED BY <1>2, <1>3, <1>4, ReturnHolds

(* Every step of the pass of m.                                            *)
LEMMA OwnHolds ==
    ASSUME TypeOK, HistoryInv, NEW m \in MG, PassHoldsArtifacts(m),
           Start(m) \/ Work(m) \/ Fails(m) \/ TimeoutExpires(m)
    PROVE  PassHoldsArtifacts(m)'
<1> USE DEF At
<1>0. pass[m].obj \in Object
  BY PassType
<1>1. CASE Start(m) \/ StartTmpDirFails(m)
  BY <1>1, StartHolds
<1>2. CASE PatchProgress(m) \/ ObserveSources(m) \/ Prepare(m)
  BY <1>2, PreparingHolds
<1>3. CASE Build(m) \/ BuildCollides(m)
  BY <1>3, BuildHolds
<1>4. CASE ApplyExternalArtifact(m)
  BY <1>4, ApplyHolds
<1>5. CASE PatchExternalArtifactStatus(m)
  BY <1>5, PublishHolds
<1>6. CASE CleanStorage(m) \/ CleanStorageFails(m)
           \/ CleanExternalArtifact(m) \/ CleanExternalArtifactFails(m)
  BY <1>6, CleanHolds
<1>7. CASE Complete(m) \/ CompleteSlowly(m)
  BY <1>7, CompleteHolds
<1>8. CASE \/ SourcesNotReady(m) \/ PrepareFails(m) \/ BuildFails(m)
           \/ ExternalArtifactFails(m) \/ ExternalArtifactChanged(m)
  BY <1>8, FailedHolds
     DEF SourcesNotReady, PrepareFails, BuildFails, ExternalArtifactFails, ExternalArtifactChanged
<1>9. CASE RemoveFinalizer(m)
  <2>1. PICK o : o = [pass[m].obj EXCEPT !.finalizer = FALSE]
    OBVIOUS
  <2>2. o \in Object /\ o.status = pass[m].obj.status
    BY <1>0, <2>1 DEF Object
  <2> QED BY <1>9, <2>1, <2>2, ReturnHolds DEF RemoveFinalizer
<1>10. CASE PatchProgressFails(m) \/ Panic(m)
  BY <1>0, <1>10, ReturnHolds DEF PatchProgressFails, Panic
<1>11. CASE Summarize(m) \/ SummarizeFails(m) \/ SummarizeGone(m)
  <2>1. pass'[m] = Idle
    BY <1>11 DEF Summarize, SummarizeFails, SummarizeGone, TypeOK
  <2> QED BY <2>1, IdleHolds
<1>12. CASE TimeoutExpires(m)
  <2>1. UNCHANGED <<ea, files>> /\ pass' = [pass EXCEPT ![m].expired = TRUE]
    BY <1>12 DEF TimeoutExpires
  <2> QED BY <2>1, MovesHolds DEF TypeOK, Pass
<1> QED BY <1>1, <1>2, <1>3, <1>4, <1>5, <1>6, <1>7, <1>8, <1>9, <1>10, <1>11, <1>12
        DEF Work, Fails

(* A step of one pass leaves the locals of the others alone.               *)
LEMMA OtherPass ==
    ASSUME TypeOK, NEW m \in MG, NEW k \in MG \ {m},
           Start(k) \/ Work(k) \/ Fails(k) \/ TimeoutExpires(k)
    PROVE  pass'[m] = pass[m]
BY DEF Start, StartGone, StartFinalize, StartAddFinalizer, StartDisabled, StartInvalid,
       StartReconcile, StartTmpDirFails, Begin, Work, PatchProgress, ObserveSources,
       SourcesNotReady, Prepare, Build, ApplyExternalArtifact, PatchExternalArtifactStatus,
       ExternalArtifactChanged, CleanStorage, CleanExternalArtifact, Complete,
       RemoveFinalizer, Summarize, SummarizeGone, Fails, PatchProgressFails, PrepareFails,
       BuildFails, ExternalArtifactFails, CleanStorageFails, CleanExternalArtifactFails,
       SummarizeFails, CompleteSlowly, BuildCollides, Panic, TimeoutExpires,
       Failed, Return, CleanNext, TypeOK

(* A step of another pass, which is at none of the names of this one.      *)
LEMMA NeighbourHolds ==
    ASSUME TypeOK, NEW m \in MG, NEW k \in MG \ {m}, PassHoldsArtifacts(m),
           pass[m].obj.spec.artifacts \cap Touches(k) = {},
           Start(k) \/ Work(k) \/ Fails(k) \/ TimeoutExpires(k)
    PROVE  PassHoldsArtifacts(m)'
<1>1. pass'[m] = pass[m]
  BY OtherPass
<1>2. \A x \in Name : x \notin Touches(k) => ea'[x] = ea[x] /\ files'[x] = files[x]
  <2>1. CASE Start(k) \/ TimeoutExpires(k)
    BY <2>1 DEF Start, StartGone, StartFinalize, StartAddFinalizer, StartDisabled,
                StartInvalid, StartReconcile, Begin, Take, TimeoutExpires
  <2>2. CASE Work(k) \/ Fails(k)
    BY <2>2, TouchesOwn
  <2> QED BY <2>1, <2>2
<1>3. pass[m].obj.spec.artifacts \subseteq Name
  BY PassType
<1> QED BY <1>1, <1>2, <1>3, OtherHolds

(* Every step keeps what the passes hold.                                  *)
LEMMA NextPublishing ==
    TypeOK /\ HistoryInv /\ Uncontended /\ PublishingInv /\ [Next]_vars => PublishingInv'
<1> SUFFICES ASSUME TypeOK, HistoryInv, Uncontended, PublishingInv, [Next]_vars,
                    NEW m \in MG
             PROVE  PassHoldsArtifacts(m)'
  BY DEF PublishingInv
<1>1. PassHoldsArtifacts(m)
  BY DEF PublishingInv
<1>2. CASE \/ SourceChange \/ DeliverSource \/ UNCHANGED vars
           \/ \E k \in MG : \/ User(k) \/ DeliverManifestGenerator(k)
                            \/ RetryTimerFires(k) \/ IntervalTimerFires(k)
  <2>1. UNCHANGED <<pass, ea, files>>
    BY <1>2 DEF SourceChange, DeliverSource, UNCHANGED_Controller, vars, User, Create,
                EditSpec, Annotate, Request, Delete, DeliverManifestGenerator,
                RetryTimerFires, IntervalTimerFires, TimerFires
  <2> QED BY <1>1, <2>1, OtherHolds
<1>3. CASE Restart("crash") \/ Restart("podloss")
  BY <1>3, IdleHolds DEF Restart
<1>4. ASSUME NEW k \in MG, Start(k) \/ Work(k) \/ Fails(k) \/ TimeoutExpires(k)
      PROVE  PassHoldsArtifacts(m)'
  <2>1. CASE k = m
    BY <1>1, <1>4, <2>1, OwnHolds
  <2>2. CASE k # m
    BY <1>1, <1>4, <2>2, NeighbourHolds DEF Uncontended
  <2> QED BY <2>1, <2>2
<1> QED BY <1>2, <1>3, <1>4 DEF Next

(* As long as no pass is at a name of another's spec: what a pass has      *)
(* archived is in storage when it goes on to publish it, and what it has   *)
(* published is still published when it records it.                        *)
THEOREM PublishingInvariant == Spec /\ []Uncontended => []PublishingInv
<1>1. Init => PublishingInv
  <2>1. ASSUME Init, NEW m \in MG PROVE PassHoldsArtifacts(m)
    <3>1. pass[m] = Idle
      BY <2>1 DEF Init
    <3> QED BY <3>1 DEF PassHoldsArtifacts, Idle, Absent, NoSpec, Names
  <2> QED BY <2>1 DEF PublishingInv
<1>2. Spec => []TypeOK
  BY TypeCorrect
<1> QED BY <1>1, <1>2, HistoryInvariant, NextPublishing, PTL DEF Spec

-----------------------------------------------------------------------------
(* What follows for the steps that publish and that record.                *)

(* Only the status patch of an ExternalArtifact adds to the references.    *)
LEMMA WhoPublishes ==
    ASSUME TypeOK, [Next]_vars, NEW m \in MG
    PROVE  pass'[m].eaRefs \subseteq pass[m].eaRefs \/ PatchExternalArtifactStatus(m)
<1>0. pass[m] \in Pass /\ Idle.eaRefs = {}
  BY DEF TypeOK, Idle
<1>1. ASSUME Start(m) \/ StartTmpDirFails(m)
      PROVE  pass'[m].eaRefs \subseteq pass[m].eaRefs
  <2>1. \/ pass' = pass
        \/ \E pc, obj, orphans, outcome : Begin(m, pc, obj, orphans, outcome)
    BY <1>1 DEF Start, StartGone, StartFinalize, StartAddFinalizer, StartDisabled,
                StartInvalid, StartReconcile, StartTmpDirFails
  <2> QED BY <1>0, <2>1 DEF Begin, Idle, TypeOK
<1>2. ASSUME \/ PatchProgress(m) \/ ObserveSources(m) \/ Prepare(m)
             \/ ApplyExternalArtifact(m) \/ TimeoutExpires(m)
      PROVE  pass'[m].eaRefs \subseteq pass[m].eaRefs
  BY <1>0, <1>2 DEF PatchProgress, ObserveSources, Prepare, ApplyExternalArtifact,
                    TimeoutExpires, TypeOK, Pass
<1>3. ASSUME CleanExternalArtifact(m) \/ CleanExternalArtifactFails(m)
      PROVE  pass'[m].eaRefs \subseteq pass[m].eaRefs
  <2>1. CleanNext(m)
    BY <1>3 DEF CleanExternalArtifact, CleanExternalArtifactFails
  <2> QED BY <1>0, <2>1 DEF CleanNext, TypeOK, Pass
<1>4. ASSUME Build(m) \/ BuildCollides(m) \/ CleanStorage(m) \/ CleanStorageFails(m)
      PROVE  pass'[m].eaRefs \subseteq pass[m].eaRefs
  <2>1. \E pc, n : pass' = [pass EXCEPT ![m].pc = pc, ![m].cur = {n}]
    BY <1>4 DEF Build, BuildCollides, CleanStorage, CleanStorageFails
  <2> QED BY <1>0, <2>1 DEF TypeOK, Pass
<1>5. ASSUME \/ SourcesNotReady(m) \/ ExternalArtifactChanged(m) \/ Complete(m)
             \/ RemoveFinalizer(m) \/ PatchProgressFails(m) \/ PrepareFails(m)
             \/ BuildFails(m) \/ ExternalArtifactFails(m) \/ CompleteSlowly(m) \/ Panic(m)
      PROVE  pass'[m].eaRefs \subseteq pass[m].eaRefs
  <2>1. \E obj, outcome : Return(m, obj, outcome)
    BY <1>5 DEF SourcesNotReady, ExternalArtifactChanged, Complete, RemoveFinalizer,
                PatchProgressFails, PrepareFails, BuildFails, ExternalArtifactFails,
                CompleteSlowly, Panic, Failed
  <2> QED BY <1>0, <2>1 DEF Return, Idle, TypeOK
<1>6. ASSUME Summarize(m) \/ SummarizeFails(m) \/ SummarizeGone(m)
      PROVE  pass'[m].eaRefs \subseteq pass[m].eaRefs
  <2>1. pass'[m] = Idle
    BY <1>6 DEF Summarize, SummarizeFails, SummarizeGone, TypeOK
  <2> QED BY <1>0, <2>1
<1>7. CASE \/ SourceChange \/ DeliverSource \/ UNCHANGED vars
           \/ \E k \in MG : \/ User(k) \/ DeliverManifestGenerator(k)
                            \/ RetryTimerFires(k) \/ IntervalTimerFires(k)
  <2>1. pass' = pass
    BY <1>7 DEF SourceChange, DeliverSource, UNCHANGED_Controller, vars, User, Create,
                EditSpec, Annotate, Request, Delete, DeliverManifestGenerator,
                RetryTimerFires, IntervalTimerFires, TimerFires
  <2> QED BY <2>1
<1>8. CASE Restart("crash") \/ Restart("podloss")
  <2>1. pass'[m] = Idle
    BY <1>8 DEF Restart
  <2> QED BY <1>0, <2>1
<1>9. ASSUME NEW k \in MG \ {m}, Start(k) \/ Work(k) \/ Fails(k) \/ TimeoutExpires(k)
      PROVE  pass'[m].eaRefs \subseteq pass[m].eaRefs
  BY <1>9, OtherPass
<1> QED BY <1>1, <1>2, <1>3, <1>4, <1>5, <1>6, <1>7, <1>8, <1>9 DEF Next, Work, Fails

(* Also after the volume was lost, a checksum collided or the inventory    *)
(* already had the digest: no ExternalArtifact is told of a tarball that   *)
(* is not in storage at that moment, unless another pass takes it away.    *)
THEOREM PublishesWhatIsStored == Spec /\ []Uncontended => PublishedIsStored
<1>1. TypeOK /\ HistoryInv /\ PublishingInv /\ [Next]_vars =>
        [\A m \in MG : \A r \in pass'[m].eaRefs \ pass[m].eaRefs :
           r.content \in files'[r.name] /\ ea'[r.name].content = r.content]_vars
  <2> SUFFICES ASSUME TypeOK, HistoryInv, PublishingInv, [Next]_vars, NEW m \in MG,
                      NEW r \in pass'[m].eaRefs \ pass[m].eaRefs
               PROVE  r.content \in files'[r.name] /\ ea'[r.name].content = r.content
    OBVIOUS
  <2>1. PatchExternalArtifactStatus(m)
    BY WhoPublishes
  <2>2. /\ pass[m] \in Pass /\ pass[m].cur \in SUBSET Name /\ PassHoldsArtifacts(m)
        /\ pass[m].pc = "eastatus" /\ files' = files
    BY <2>1, PassType DEF PatchExternalArtifactStatus, At, TypeOK, PublishingInv
  <2>3. PICK n \in pass[m].cur :
           /\ ea' = [ea EXCEPT ![n].content = Digest(m)]
           /\ pass'[m].eaRefs = pass[m].eaRefs \cup {[name |-> n, content |-> Digest(m)]}
    <3>1. PICK n \in pass[m].cur :
            LET refs == pass[m].eaRefs \cup {[name |-> n, content |-> Digest(m)]}
                todo == pass[m].todo \ {n}
            IN  /\ ea' = [ea EXCEPT ![n].content = Digest(m)]
                /\ pass' = [pass EXCEPT
                      ![m].pc = IF todo = {} THEN "clean" ELSE "build",
                      ![m].cur = {}, ![m].todo = todo, ![m].eaRefs = refs,
                      ![m].orphans = IF todo = {}
                          THEN FindOrphanedReferences(pass[m].obj.status.inventory, refs)
                          ELSE {}]
      BY <2>1, Zenon DEF PatchExternalArtifactStatus
    <3> QED BY <2>2, <3>1 DEF TypeOK, Pass
  <2>4. r.name = n /\ r.content = Digest(m)
    BY <2>3
  <2>5. Digest(m) \in files[n]
    BY <2>2 DEF PassHoldsArtifacts
  <2>6. ea'[n].content = Digest(m)
    BY <2>2, <2>3 DEF TypeOK, EA
  <2> QED BY <2>2, <2>4, <2>5, <2>6
<1>2. Spec => []TypeOK
  BY TypeCorrect
<1> QED BY <1>1, <1>2, HistoryInvariant, PublishingInvariant, PTL DEF Spec, PublishedIsStored

(* Whatever fails after the artifacts were published, and however long ago *)
(* the first of them was: observedGeneration is written only while every   *)
(* artifact of that generation's spec is still there.                      *)
THEOREM ObservesWhatIsPublished == Spec /\ []Uncontended => ObservedIsPublished
<1>1. TypeOK /\ HistoryInv /\ PublishingInv /\ [Next]_vars =>
        [\A m \in MG :
          (/\ mg'[m].exists
           /\ mg'[m].status.observedGeneration # mg[m].status.observedGeneration)
          => \A n \in pass[m].obj.spec.artifacts :
                /\ ea[n].exists /\ ea[n].owner = {m}
                /\ ea[n].content.gen = mg'[m].status.observedGeneration]_vars
  <2> SUFFICES ASSUME TypeOK, HistoryInv, PublishingInv, [Next]_vars, NEW m \in MG,
                      mg'[m].exists,
                      mg'[m].status.observedGeneration # mg[m].status.observedGeneration,
                      NEW n \in pass[m].obj.spec.artifacts
               PROVE  /\ ea[n].exists /\ ea[n].owner = {m}
                      /\ ea[n].content.gen = mg'[m].status.observedGeneration
    OBVIOUS
  <2>1. PatchProgress(m) \/ Summarize(m) \/ SummarizeFails(m)
    BY WhoWrites, UserKeepsStatus
  <2>2. /\ mg'[m].status.observedGeneration = pass[m].obj.gen
        /\ pass[m].obj.status.observedGeneration
              # pass[m].before.status.observedGeneration
    BY <2>1, PatchAdvances
  <2>3. Holds(m, n, pass[m].obj.gen)
    BY <2>2 DEF PublishingInv, PassHoldsArtifacts
  <2> QED BY <2>2, <2>3 DEF Holds
<1>2. Spec => []TypeOK
  BY TypeCorrect
<1> QED BY <1>1, <1>2, HistoryInvariant, PublishingInvariant, PTL DEF Spec, ObservedIsPublished

(* A namespace with one ManifestGenerator needs no such condition.         *)
THEOREM AloneOnItsNames ==
    ASSUME \A m, k \in MG : m = k
    PROVE  Spec => PublishedIsStored /\ ObservedIsPublished
<1>1. Uncontended
  BY DEF Uncontended
<1> QED BY <1>1, PublishesWhatIsStored, ObservesWhatIsPublished, PTL

-----------------------------------------------------------------------------
(* While nothing fails and the cache is current: what the operators on     *)
(* objects set.                                                            *)

(* An object of the same spec, version and status.                         *)
SameWork(r, o) ==
    /\ r.gen = o.gen /\ r.spec = o.spec /\ r.annotation = o.annotation
    /\ r.deleting = o.deleting /\ r.status = o.status

(* What an object shows.                                                   *)
Shows(r, st, gen, reconciling, stalled) ==
    /\ r.conditions.ready = [status |-> st, gen |-> gen]
    /\ r.conditions.reconciling = reconciling
    /\ r.conditions.stalled = stalled

(* The condition helpers set conditions and nothing else.                  *)
LEMMA MarkReadySets ==
    ASSUME NEW o \in Object, NEW st \in {"Unknown", "True", "False"}
    PROVE  /\ SameWork(MarkReady(o, st), o) /\ MarkReady(o, st).finalizer = o.finalizer
           /\ Shows(MarkReady(o, st), st, o.gen, o.conditions.reconciling, o.conditions.stalled)
<1>1. o.conditions \in Conditions
  BY DEF Object
<1>2. MarkReady(o, st).conditions =
         [o.conditions EXCEPT !.ready = [status |-> st, gen |-> o.gen]]
  BY DEF MarkReady, Object
<1>3. Shows(MarkReady(o, st), st, o.gen, o.conditions.reconciling, o.conditions.stalled)
  BY <1>1, <1>2 DEF Conditions, Shows
<1>4. SameWork(MarkReady(o, st), o) /\ MarkReady(o, st).finalizer = o.finalizer
  BY DEF MarkReady, SameWork, Object
<1> QED BY <1>3, <1>4

(* Of Reconciling and Stalled, the one removes the other.                  *)
LEMMA MarkOthersSets ==
    ASSUME NEW o \in Object
    PROVE  LET r == MarkReconciling(o)
               s == MarkStalled(o)
           IN
           /\ SameWork(r, o) /\ r.finalizer = o.finalizer
           /\ r.conditions.ready = o.conditions.ready
           /\ r.conditions.reconciling = o.gen /\ r.conditions.stalled = 0
           /\ SameWork(s, o) /\ s.finalizer = o.finalizer
           /\ s.conditions.ready = o.conditions.ready
           /\ s.conditions.reconciling = 0 /\ s.conditions.stalled = o.gen
<1>1. o.conditions \in Conditions
  BY DEF Object
<1>2. /\ MarkReconciling(o).conditions =
            [o.conditions EXCEPT !.reconciling = o.gen, !.stalled = 0]
      /\ MarkStalled(o).conditions =
            [o.conditions EXCEPT !.stalled = o.gen, !.reconciling = 0]
  BY DEF MarkReconciling, MarkStalled, Object, Conditions
<1>3. /\ SameWork(MarkReconciling(o), o) /\ MarkReconciling(o).finalizer = o.finalizer
      /\ SameWork(MarkStalled(o), o) /\ MarkStalled(o).finalizer = o.finalizer
  BY DEF MarkReconciling, MarkStalled, SameWork, Object
<1> QED BY <1>1, <1>2, <1>3 DEF Conditions

(* An object with other conditions, finalizer and status.                  *)
Rewritten(o, c, f, s) ==
    [o EXCEPT !.conditions = c, !.finalizer = f, !.status = s]

(* It is the same object otherwise.                                        *)
LEMMA RewrittenFields ==
    ASSUME NEW o \in Object, NEW c, NEW f, NEW s
    PROVE  LET r == Rewritten(o, c, f, s) IN
           /\ r.exists = o.exists /\ r.gen = o.gen /\ r.spec = o.spec
           /\ r.deleting = o.deleting /\ r.annotation = o.annotation
           /\ r.requestedAt = o.requestedAt
           /\ r.conditions = c /\ r.finalizer = f /\ r.status = s
BY DEF Rewritten, Object

(* A patch of an object that has not changed since it was read writes what *)
(* the pass has.                                                           *)
LEMMA PatchedCurrent ==
    ASSUME NEW b \in Object, NEW s \in Object, NEW api \in Object,
           b.conditions = api.conditions, b.finalizer = api.finalizer,
           b.status = api.status
    PROVE  Patched(b, s, api, Parts) = Reap(Rewritten(api, s.conditions, s.finalizer, s.status))
<1>1. /\ b.conditions \in Conditions /\ s.conditions \in Conditions
      /\ b.status \in Status /\ s.status \in Status
  BY DEF Object
<1>2. MergeConditions(b.conditions, s.conditions, api.conditions) = s.conditions
  BY <1>1 DEF MergeConditions, Merge, Conditions
<1>3. MergeStatus(b.status, s.status, api.status) = s.status
  BY <1>1 DEF MergeStatus, Merge, Status
<1>4. Merge(b.finalizer, s.finalizer, api.finalizer) = s.finalizer
  BY Zenon DEF Merge
<1>5. Parts = {"conditions", "metadata", "status"}
  BY DEF Parts
<1>6. "conditions" \in Parts /\ "metadata" \in Parts /\ "status" \in Parts
  BY <1>5
<1> QED BY <1>2, <1>3, <1>4, <1>6, Zenon DEF Patched, Rewritten

(* What is taken out of the API server.                                    *)
LEMMA ReapCases ==
    ASSUME NEW o \in Object
    PROVE  /\ ~(o.deleting /\ ~o.finalizer) => Reap(o) = o
           /\ o.deleting /\ ~o.finalizer => Reap(o) = Absent(o.gen, TRUE)
BY DEF Reap

(* The fields of an absent object.                                         *)
LEMMA AbsentFields ==
    ASSUME NEW g, NEW d
    PROVE  LET a == Absent(g, d) IN
           /\ a.exists = FALSE /\ a.gen = g /\ a.deleting = d /\ a.finalizer = FALSE
           /\ a.conditions = NoConditions /\ a.status = NoStatus /\ a.spec = NoSpec
BY DEF Absent

(* addFinalizer.                                                           *)
LEMMA AddFinalizerSets ==
    ASSUME NEW o \in Object
    PROVE  LET r == AddFinalizer(o) IN
           /\ r \in Object /\ SameWork(r, o) /\ r.finalizer
           /\ IsDisabled(o) =>
                 Shows(r, "True", o.gen, o.conditions.reconciling, o.conditions.stalled)
           /\ ~IsDisabled(o) => Shows(r, "Unknown", o.gen, o.gen, 0)
<1> DEFINE f == [o EXCEPT !.finalizer = TRUE]
<1>1. /\ f \in Object /\ SameWork(f, o) /\ f.finalizer /\ f.conditions = o.conditions
  BY DEF Object, SameWork
<1>2. AddFinalizer(o) = IF IsDisabled(o) THEN MarkReady(f, "True")
                        ELSE MarkReconciling(MarkReady(f, "Unknown"))
  BY DEF AddFinalizer
<1> HIDE DEF f
<1>3. /\ SameWork(MarkReady(f, "Unknown"), o) /\ MarkReady(f, "Unknown").finalizer
      /\ Shows(MarkReady(f, "Unknown"), "Unknown", f.gen, f.conditions.reconciling,
               f.conditions.stalled)
  BY <1>1, MarkReadySets DEF SameWork
<1>4. PICK u : u = MarkReady(f, "Unknown")
  OBVIOUS
<1>5. u \in Object
  BY <1>1, <1>4, MarkType
<1>6. SameWork(u, o) /\ u.finalizer /\ u.conditions.ready = [status |-> "Unknown", gen |-> o.gen]
  BY <1>1, <1>3, <1>4 DEF SameWork, Shows
<1>7. /\ SameWork(MarkReconciling(u), o) /\ MarkReconciling(u).finalizer
      /\ Shows(MarkReconciling(u), "Unknown", o.gen, o.gen, 0)
  BY <1>5, <1>6, MarkOthersSets DEF SameWork, Shows
<1>8. /\ SameWork(MarkReady(f, "True"), o) /\ MarkReady(f, "True").finalizer
      /\ Shows(MarkReady(f, "True"), "True", o.gen, o.conditions.reconciling,
               o.conditions.stalled)
  BY <1>1, MarkReadySets DEF SameWork
<1> QED BY <1>2, <1>4, <1>7, <1>8, AddFinalizerType

(* What an invalid spec and what the start of the work show.               *)
LEMMA StartSets ==
    ASSUME NEW o \in Object
    PROVE  LET t == NewTerminalErrorFor(o)
               r == MarkReady(MarkReconciling(o), "Unknown")
           IN
           /\ t \in Object /\ SameWork(t, o) /\ t.finalizer = o.finalizer
           /\ Shows(t, "False", o.gen, 0, o.gen)
           /\ r \in Object /\ SameWork(r, o) /\ r.finalizer = o.finalizer
           /\ Shows(r, "Unknown", o.gen, o.gen, 0)
<1>1. /\ SameWork(MarkReady(o, "False"), o) /\ MarkReady(o, "False").finalizer = o.finalizer
      /\ Shows(MarkReady(o, "False"), "False", o.gen, o.conditions.reconciling,
               o.conditions.stalled)
  BY MarkReadySets
<1>2. /\ SameWork(MarkReconciling(o), o) /\ MarkReconciling(o).finalizer = o.finalizer
      /\ MarkReconciling(o).conditions.reconciling = o.gen
      /\ MarkReconciling(o).conditions.stalled = 0
  BY MarkOthersSets
<1>3. PICK u, v : u = MarkReady(o, "False") /\ v = MarkReconciling(o)
  OBVIOUS
<1>4. u \in Object /\ v \in Object
  BY <1>3, MarkType
<1>5. MarkStalled(u) \in Object /\ MarkReady(v, "Unknown") \in Object
  BY <1>4, MarkType
<1>6. /\ SameWork(MarkStalled(u), o) /\ MarkStalled(u).finalizer = o.finalizer
      /\ Shows(MarkStalled(u), "False", o.gen, 0, o.gen)
  BY <1>1, <1>3, <1>4, MarkOthersSets DEF SameWork, Shows
<1>7. /\ SameWork(MarkReady(v, "Unknown"), v)
      /\ MarkReady(v, "Unknown").finalizer = v.finalizer
      /\ Shows(MarkReady(v, "Unknown"), "Unknown", v.gen, v.conditions.reconciling,
               v.conditions.stalled)
  BY <1>4, MarkReadySets
<1>8. /\ SameWork(MarkReady(v, "Unknown"), o)
      /\ MarkReady(v, "Unknown").finalizer = o.finalizer
      /\ Shows(MarkReady(v, "Unknown"), "Unknown", o.gen, o.gen, 0)
  BY <1>2, <1>3, <1>7 DEF SameWork
<1> QED BY <1>3, <1>5, <1>6, <1>8 DEF NewTerminalErrorFor

(* summarizeStatus.                                                        *)
LEMMA SummarySets ==
    ASSUME NEW o \in Object
    PROVE  LET s == Summary(o) IN
           /\ s \in Object
           /\ s.conditions.ready = o.conditions.ready
           /\ s.conditions.stalled = o.conditions.stalled
           /\ s.conditions.reconciling \in {0, o.conditions.reconciling}
           /\ o.conditions.ready.status = "True" \/ o.conditions.stalled # 0 =>
                 s.conditions.reconciling = 0
           /\ s.finalizer = o.finalizer
           /\ s.status.inventory = o.status.inventory
           /\ s.status.observedGeneration = o.status.observedGeneration
<1>1. Summary(o) \in Object
  BY SummaryType
<1> QED BY <1>1 DEF Summary, Object, Status, Conditions

(* The end of a successful pass.                                           *)
LEMMA SucceededSets ==
    ASSUME NEW o \in Object, NEW refs \in SUBSET Ref
    PROVE  LET s == Succeeded(o, refs) IN
           /\ s \in Object
           /\ s.gen = o.gen /\ s.spec = o.spec /\ s.annotation = o.annotation
           /\ s.deleting = o.deleting /\ s.finalizer = o.finalizer
           /\ Shows(s, "True", o.gen, o.conditions.reconciling, o.conditions.stalled)
           /\ s.status.inventory = refs
           /\ s.status.observedGeneration = o.gen
<1> DEFINE t == [o EXCEPT !.status.inventory = refs, !.status.observedGeneration = o.gen]
<1>1. /\ t \in Object /\ t.gen = o.gen /\ t.spec = o.spec /\ t.annotation = o.annotation
      /\ t.deleting = o.deleting /\ t.finalizer = o.finalizer /\ t.conditions = o.conditions
      /\ t.status.inventory = refs /\ t.status.observedGeneration = o.gen
  BY DEF Object, Status
<1>2. Succeeded(o, refs) = MarkReady(t, "True") /\ Succeeded(o, refs) \in Object
  BY SucceededType DEF Succeeded
<1> HIDE DEF t
<1>3. /\ SameWork(MarkReady(t, "True"), t) /\ MarkReady(t, "True").finalizer = t.finalizer
      /\ Shows(MarkReady(t, "True"), "True", t.gen, t.conditions.reconciling,
               t.conditions.stalled)
  BY <1>1, MarkReadySets
<1> QED BY <1>1, <1>2, <1>3 DEF SameWork
-----------------------------------------------------------------------------
(* The steps that are left when nothing fails.                             *)

(* Nothing fails in a step after which nothing has.                        *)
LEMMA NoFault ==
    ASSUME Calm, Calm', NEW kind
    PROVE  ~Fault(kind)
BY DEF Calm, Fault

(* Users, deliveries, timers and passes that go on.                        *)
LEMMA CalmSteps ==
    ASSUME Calm, Calm', \A m \in MG : ~pass[m].expired, [Next]_vars
    PROVE  \/ UNCHANGED vars \/ SourceChange \/ DeliverSource
           \/ \E m \in MG :
                 \/ User(m) \/ DeliverManifestGenerator(m)
                 \/ RetryTimerFires(m) \/ IntervalTimerFires(m)
                 \/ Start(m) \/ Work(m)
<1>1. ~Restart("crash") /\ ~Restart("podloss")
  BY NoFault DEF Restart
<1>2. ASSUME NEW m \in MG
      PROVE  ~Fails(m) /\ ~TimeoutExpires(m)
  <2>1. \A kind : ~Fault(kind)
    BY NoFault
  <2>2. \A kind : ~CallFails(m, kind)
    BY <2>1 DEF CallFails
  <2> QED BY <2>1, <2>2
          DEF Fails, TimeoutExpires, StartTmpDirFails, PatchProgressFails, PrepareFails,
              BuildFails, ExternalArtifactFails, CleanStorageFails, CleanExternalArtifactFails,
              SummarizeFails, CompleteSlowly, BuildCollides, Panic
<1> QED BY <1>1, <1>2 DEF Next

(* How a pass of m begins on the object o: finalizing it, guarding it, or, *)
(* guarded, leaving it alone, refusing it or working on it.                *)
Begun(p, o) ==
    /\ o.exists /\ p.before = o /\ p.obj \in Object /\ SameWork(p.obj, o)
    /\ ~p.expired /\ p.eaRefs = {}
    /\ \/ /\ p.pc = "clean" /\ o.deleting /\ o.finalizer /\ p.obj = o
          /\ p.orphans = Names(o.status.inventory)
       \/ /\ p.pc = "summarize" /\ p.outcome = "retry"
          /\ ~o.deleting /\ ~o.finalizer /\ p.obj.finalizer
          /\ IsDisabled(o) => Shows(p.obj, "True", o.gen, o.conditions.reconciling,
                                    o.conditions.stalled)
          /\ ~IsDisabled(o) => Shows(p.obj, "Unknown", o.gen, o.gen, 0)
       \/ /\ p.pc = "summarize" /\ p.outcome = "stop"
          /\ ~o.deleting /\ o.finalizer /\ p.obj = o /\ IsDisabled(o)
       \/ /\ p.pc = "summarize" /\ p.outcome = "terminal"
          /\ ~o.deleting /\ o.finalizer /\ p.obj.finalizer
          /\ Shows(p.obj, "False", o.gen, 0, o.gen)
       \/ /\ p.pc = "progress"
          /\ ~o.deleting /\ o.finalizer /\ p.obj.finalizer
          /\ Shows(p.obj, "Unknown", o.gen, o.gen, 0)

(* A pass begins on what the API server has.                               *)
LEMMA BeginsCurrent ==
    ASSUME TypeOK, HistoryInv, Calm, NEW m \in MG, Start(m)
    PROVE  /\ UNCHANGED <<mg, cache, src, srcCache, ea, files, timer>>
           /\ queue' = queue \ {m} /\ cache[m] = mg[m] /\ pass[m].pc = "idle"
           /\ \A k \in MG \ {m} : pass'[k] = pass[k]
           /\ \/ ~mg[m].exists /\ pass'[m] = pass[m]
              \/ Begun(pass'[m], mg[m])
<1> DEFINE o == mg[m]
<1>0. o \in Object /\ GoneIsEmpty(m)
  BY DEF TypeOK, HistoryInv, History
<1>1. \/ Take(m) /\ pass' = pass
      \/ \E pc, obj, orphans, outcome : Begin(m, pc, obj, orphans, outcome)
  BY DEF Start, StartGone, StartFinalize, StartAddFinalizer, StartDisabled, StartInvalid,
         StartReconcile
<1>2. Take(m)
  BY <1>1 DEF Begin
<1>3. /\ UNCHANGED <<mg, cache, src, srcCache, ea, files, timer>>
      /\ queue' = queue \ {m} /\ cache[m] = o /\ pass[m].pc = "idle"
  BY <1>2 DEF Take, Calm
<1>4. \A k \in MG \ {m} : pass'[k] = pass[k]
  BY <1>1 DEF Begin, TypeOK
<1>5. ASSUME NEW pc, NEW obj \in Object, NEW orphans, NEW outcome,
             Begin(m, pc, obj, orphans, outcome)
      PROVE  /\ pass'[m].pc = pc /\ pass'[m].obj = obj /\ pass'[m].before = o
             /\ pass'[m].orphans = orphans /\ pass'[m].outcome = outcome
             /\ pass'[m].eaRefs = {} /\ ~pass'[m].expired
  <2>1. pass'[m] = [Idle EXCEPT !.pc = pc, !.obj = obj, !.before = o,
                                !.orphans = orphans, !.outcome = outcome]
    BY <1>3, <1>5 DEF Begin, TypeOK
  <2> QED BY <2>1 DEF Idle
<1>6. SameWork(o, o)
  BY DEF SameWork
<1>7. CASE StartGone(m)
  BY <1>3, <1>4, <1>7 DEF StartGone
<1>8. CASE StartFinalize(m)
  <2>1. Begin(m, "clean", o, Names(o.status.inventory), "stop") /\ o.exists /\ o.deleting
    BY <1>3, <1>8 DEF StartFinalize
  <2>2. o.finalizer
    BY <1>0, <2>1 DEF GoneIsEmpty
  <2> QED BY <1>0, <1>3, <1>4, <1>5, <1>6, <2>1, <2>2 DEF Begun
<1>9. CASE StartAddFinalizer(m)
  <2>1. PICK f : f = AddFinalizer(o)
    OBVIOUS
  <2>2. Begin(m, "summarize", f, {}, "retry") /\ o.exists /\ ~o.deleting /\ ~o.finalizer
    BY <1>3, <1>9, <2>1 DEF StartAddFinalizer
  <2>3. /\ AddFinalizer(o) \in Object /\ SameWork(AddFinalizer(o), o) /\ AddFinalizer(o).finalizer
        /\ IsDisabled(o) => Shows(AddFinalizer(o), "True", o.gen, o.conditions.reconciling,
                                  o.conditions.stalled)
        /\ ~IsDisabled(o) => Shows(AddFinalizer(o), "Unknown", o.gen, o.gen, 0)
    BY <1>0, AddFinalizerSets
  <2> QED BY <1>3, <1>4, <1>5, <2>1, <2>2, <2>3 DEF Begun
<1>10. CASE StartDisabled(m)
  <2>1. /\ Begin(m, "summarize", o, {}, "stop")
        /\ o.exists /\ ~o.deleting /\ o.finalizer /\ IsDisabled(o)
    BY <1>3, <1>10 DEF StartDisabled, Reconcilable
  <2> QED BY <1>0, <1>3, <1>4, <1>5, <1>6, <2>1 DEF Begun
<1>11. CASE StartInvalid(m)
  <2>1. PICK t : t = NewTerminalErrorFor(o)
    OBVIOUS
  <2>2. /\ Begin(m, "summarize", t, {}, "terminal")
        /\ o.exists /\ ~o.deleting /\ o.finalizer
    BY <1>3, <1>11, <2>1 DEF StartInvalid, Reconcilable
  <2>3. /\ NewTerminalErrorFor(o) \in Object /\ SameWork(NewTerminalErrorFor(o), o)
        /\ NewTerminalErrorFor(o).finalizer = o.finalizer
        /\ Shows(NewTerminalErrorFor(o), "False", o.gen, 0, o.gen)
    BY <1>0, StartSets
  <2> QED BY <1>3, <1>4, <1>5, <2>1, <2>2, <2>3 DEF Begun
<1>12. CASE StartReconcile(m)
  <2>1. PICK r : r = MarkReady(MarkReconciling(o), "Unknown")
    OBVIOUS
  <2>2. /\ Begin(m, "progress", r, {}, "none")
        /\ o.exists /\ ~o.deleting /\ o.finalizer
    BY <1>3, <1>12, <2>1 DEF StartReconcile, Reconcilable
  <2>3. r \in Object /\ SameWork(r, o) /\ r.finalizer = o.finalizer
        /\ Shows(r, "Unknown", o.gen, o.gen, 0)
    BY <1>0, <2>1, StartSets
  <2> QED BY <1>3, <1>4, <1>5, <2>2, <2>3 DEF Begun
<1> QED BY <1>7, <1>8, <1>9, <1>10, <1>11, <1>12 DEF Start

-----------------------------------------------------------------------------
(* One ManifestGenerator's part of CalmInv, step by step.                  *)

CalmPart(m) == PassIsCurrent(m) /\ PassIsConsistent(m) /\ WillBeSeen(m)

(* A step that leaves the object and the pass of m alone, and keeps or     *)
(* fulfils the promises that it will be looked at.                         *)
LEMMA OtherCalm ==
    ASSUME NEW m \in MG, CalmPart(m), mg'[m] = mg[m], pass'[m] = pass[m],
           m \in queue => m \in queue',
           cache[m].gen # mg[m].gen => cache'[m].gen # mg[m].gen \/ m \in queue',
           timer[m] # "none" => timer'[m] # "none" \/ m \in queue'
    PROVE  CalmPart(m)'
<1>1. PassIsCurrent(m)'
  BY DEF CalmPart, PassIsCurrent
<1>2. PassIsConsistent(m)'
  BY DEF CalmPart, PassIsConsistent
<1>3. WillBeSeen(m)'
  BY DEF CalmPart, WillBeSeen
<1> QED BY <1>1, <1>2, <1>3 DEF CalmPart

(* What a user can do to an object: create it, change its spec, annotate   *)
(* it, delete it with or without a finalizer.                              *)
LEMMA UserDoes ==
    ASSUME TypeOK, HistoryInv, NEW m \in MG, User(m)
    PROVE  LET o == mg[m]
               u == mg'[m]
           IN
           \/ /\ o.gen = 0 /\ ~o.finalizer
              /\ u.gen = 1 /\ u.conditions = NoConditions /\ u.status = NoStatus
           \/ /\ o.exists /\ u.exists /\ u.finalizer = o.finalizer
              /\ u.conditions = o.conditions /\ u.status = o.status
              /\ o.annotation # "none" => u.annotation # "none"
              /\ o.deleting => u.deleting
              /\ u.gen = o.gen + 1 \/ (u.gen = o.gen /\ u.spec = o.spec)
           \/ /\ o.exists /\ ~o.deleting /\ ~o.finalizer
              /\ ~u.exists /\ ~u.finalizer
              /\ u.conditions = NoConditions /\ u.status = NoStatus
<1> DEFINE o == mg[m]
<1>0. o \in Object /\ GoneIsEmpty(m)
  BY DEF TypeOK, HistoryInv, History
<1>1. CASE Create(m)
  <2>1. o = Absent(o.gen, o.gen # 0) /\ ~o.deleting
    BY <1>0, <1>1 DEF Create, GoneIsEmpty
  <2>2. o.gen = 0 /\ ~o.finalizer
    <3>1. ~Absent(o.gen, o.gen # 0).deleting
      BY <2>1
    <3>2. ~Absent(o.gen, o.gen # 0).finalizer
      BY AbsentFields
    <3> QED BY <2>1, <3>1, <3>2, AbsentFields
  <2>3. PICK s \in Specs :
           mg'[m] = [Absent(1, FALSE) EXCEPT !.exists = TRUE, !.spec = s]
    BY <1>1 DEF Create, TypeOK
  <2>4. mg'[m].gen = 1 /\ mg'[m].conditions = NoConditions /\ mg'[m].status = NoStatus
    BY <2>3 DEF Absent
  <2> QED BY <2>2, <2>4
<1>2. CASE EditSpec(m)
  BY <1>0, <1>2 DEF EditSpec, TypeOK, Object
<1>3. CASE Annotate(m)
  BY <1>0, <1>3 DEF Annotate, TypeOK, Object
<1>4. CASE Request(m)
  BY <1>0, <1>4 DEF Request, TypeOK, Object
<1>5. CASE Delete(m)
  <2>1. PICK d : d = [o EXCEPT !.deleting = TRUE, !.gen = o.gen + 1]
    OBVIOUS
  <2>2. /\ o.exists /\ ~o.deleting /\ mg'[m] = Reap(d)
        /\ d.exists /\ d.deleting /\ d.finalizer = o.finalizer /\ d.gen = o.gen + 1
        /\ d.conditions = o.conditions /\ d.status = o.status /\ d.spec = o.spec
        /\ d.annotation = o.annotation
    BY <1>0, <1>5, <2>1 DEF Delete, TypeOK, Object
  <2>3. CASE o.finalizer
    BY <2>2, <2>3 DEF Reap
  <2>4. CASE ~o.finalizer
    <3>1. mg'[m] = Absent(d.gen, TRUE)
      BY <2>2, <2>4 DEF Reap
    <3>2. /\ ~mg'[m].exists /\ ~mg'[m].finalizer
          /\ mg'[m].conditions = NoConditions /\ mg'[m].status = NoStatus
      BY <3>1 DEF Absent
    <3> QED BY <2>2, <2>4, <3>2
  <2> QED BY <2>3, <2>4, <1>0 DEF Object
<1> QED BY <1>1, <1>2, <1>3, <1>4, <1>5 DEF User

(* A change by the user is seen: it moves the generation, or leaves the    *)
(* promise as it was, or, an annotation, is no event to anybody.           *)
LEMMA UserCalm ==
    ASSUME TypeOK, FinalizerInv, HistoryInv, NEW m \in MG, CalmPart(m), User(m)
    PROVE  CalmPart(m)'
<1> DEFINE o == mg[m]
           u == mg'[m]
           p == pass[m]
<1>0. /\ UNCHANGED <<cache, queue, timer>> /\ pass'[m] = p /\ CopiesInOrder(m)
      /\ p.obj.deleting => o.deleting
  BY DEF User, Create, EditSpec, Annotate, Request, Delete, UNCHANGED_Controller,
         HistoryInv, History, FinalizerInv, PassKeepsFinalizer
<1>1. o.gen \in Nat /\ cache[m].gen \in Nat /\ p.obj.gen \in Nat
  BY StateNumbers, ObjectFields
<1>2. Consistent(NoConditions)
  BY DEF Consistent, NoConditions
<1>3. CASE o.gen = 0 /\ u.gen = 1 /\ u.conditions = NoConditions
  <2>1. p = Idle /\ cache[m].gen = 0
    BY <1>0, <1>3 DEF CopiesInOrder
  <2>2. PassIsCurrent(m)'
    BY <1>0, <2>1 DEF PassIsCurrent, Idle
  <2>3. PassIsConsistent(m)'
    BY <1>0, <1>2, <1>3, <2>1 DEF PassIsConsistent, Idle, Publishing
  <2>4. WillBeSeen(m)'
    BY <1>0, <1>3, <2>1 DEF WillBeSeen
  <2> QED BY <2>2, <2>3, <2>4 DEF CalmPart
<1>4. CASE /\ o.exists /\ u.exists /\ u.finalizer = o.finalizer
           /\ u.conditions = o.conditions /\ u.status = o.status
           /\ o.annotation # "none" => u.annotation # "none"
           /\ u.gen = o.gen + 1 \/ (u.gen = o.gen /\ u.spec = o.spec)
  <2>1. u.gen = o.gen + 1 => cache[m].gen # u.gen /\ p.obj.gen # u.gen
    BY <1>0, <1>1 DEF CopiesInOrder
  <2>2. PassIsCurrent(m)'
    BY <1>0, <1>4, <2>1 DEF CalmPart, PassIsCurrent
  <2>3. PassIsConsistent(m)'
    BY <1>0, <1>4 DEF CalmPart, PassIsConsistent
  <2>4. WillBeSeen(m)'
    BY <1>0, <1>4, <2>1 DEF CalmPart, WillBeSeen, PutAside
  <2> QED BY <2>2, <2>3, <2>4 DEF CalmPart
<1>5. CASE /\ o.exists /\ ~o.deleting /\ ~o.finalizer
           /\ ~u.exists /\ ~u.finalizer /\ u.conditions = NoConditions
  <2>1. PassIsCurrent(m)'
    BY <1>0, <1>5 DEF CalmPart, PassIsCurrent
  <2>2. PassIsConsistent(m)'
    BY <1>0, <1>2, <1>5 DEF CalmPart, PassIsConsistent
  <2>3. WillBeSeen(m)'
    BY <1>5 DEF WillBeSeen
  <2> QED BY <2>1, <2>2, <2>3 DEF CalmPart
<1> QED BY <1>3, <1>4, <1>5, UserDoes

(* The summary of consistent conditions is consistent.                     *)
LEMMA SummaryConsistent ==
    ASSUME NEW o \in Object,
           \/ Consistent(o.conditions)
           \/ o.conditions.stalled = 0
    PROVE  Consistent(Summary(o).conditions)
BY SummarySets DEF Consistent

(* The pass begins.                                                        *)
LEMMA StartCalm ==
    ASSUME TypeOK, HistoryInv, Calm, NEW m \in MG, CalmPart(m), Start(m)
    PROVE  CalmPart(m)'
<1> DEFINE o == mg[m]
           p == pass'[m]
<1>1. UNCHANGED <<mg, cache, timer>> /\ queue' = queue \ {m} /\ cache[m] = o /\ pass[m].pc = "idle"
  BY BeginsCurrent
<1>2. CASE ~o.exists /\ p = pass[m]
  <2>1. PassIsCurrent(m)'
    BY <1>1, <1>2 DEF CalmPart, PassIsCurrent
  <2>2. PassIsConsistent(m)'
    BY <1>1, <1>2 DEF CalmPart, PassIsConsistent
  <2>3. WillBeSeen(m)'
    BY <1>1, <1>2 DEF WillBeSeen
  <2> QED BY <2>1, <2>2, <2>3 DEF CalmPart
<1>3. CASE Begun(p, o)
  <2>0. /\ mg'[m] = o /\ cache'[m] = o /\ p.obj \in Object /\ o \in Object
        /\ o.conditions \in Conditions
    BY <1>1, <1>3 DEF Begun, TypeOK, Object
  <2>1. PassIsCurrent(m)'
    BY <2>0, <1>3 DEF Begun, PassIsCurrent, SameWork, Publishing
  <2>2. Consistent(o.conditions) /\ (~o.finalizer => o.conditions = NoConditions)
    BY DEF CalmPart, PassIsConsistent
  <2>3. p.pc = "summarize" => Consistent(Summary(p.obj).conditions)
    <3>1. CASE p.outcome = "stop" /\ p.obj = o
      BY <2>0, <2>2, <3>1, SummaryConsistent
    <3>2. CASE p.outcome # "stop" /\ p.pc = "summarize"
      BY <1>3, <2>0, <2>2, <3>2, SummaryConsistent DEF Begun, Shows, NoConditions, Consistent
    <3> QED BY <1>3, <3>1, <3>2 DEF Begun
  <2>4. PassIsConsistent(m)'
    BY <1>3, <2>0, <2>2, <2>3 DEF Begun, PassIsConsistent, Publishing, Shows, SameWork
  <2>5. WillBeSeen(m)'
    BY <1>3, <2>0 DEF Begun, WillBeSeen, PutAside, IsDisabled, Stalled, Shows, SameWork
  <2> QED BY <2>1, <2>4, <2>5 DEF CalmPart
<1> QED BY <1>2, <1>3, BeginsCurrent

(* A step inside a pass on the way to its end.                             *)
LEMMA MovesCalm ==
    ASSUME NEW m \in MG, CalmPart(m), UNCHANGED <<mg, cache, queue, timer>>,
           pass[m].pc \notin {"idle", "progress", "summarize"},
           pass'[m].pc \notin {"idle", "progress", "summarize"},
           pass'[m].obj = pass[m].obj, pass'[m].before = pass[m].before,
           pass'[m].expired = pass[m].expired,
           pass[m].pc \in Publishing \cup {"clean", "cleanea"},
           pass'[m].pc \in Publishing => pass[m].pc \in Publishing
    PROVE  CalmPart(m)'
<1>1. PassIsCurrent(m)'
  BY DEF CalmPart, PassIsCurrent
<1>2. PassIsConsistent(m)'
  BY DEF CalmPart, PassIsConsistent, Publishing
<1>3. WillBeSeen(m)'
  BY DEF CalmPart, WillBeSeen
<1> QED BY <1>1, <1>2, <1>3 DEF CalmPart

(* The pass comes to its end, with consistent conditions and somebody who  *)
(* will look at the object, or nobody who could.                           *)
LEMMA ReturnsCalm ==
    ASSUME TypeOK, NEW m \in MG, CalmPart(m), UNCHANGED <<mg, cache, queue, timer>>,
           pass[m].pc \notin {"idle", "summarize"},
           NEW obj \in Object, NEW outcome, Return(m, obj, outcome),
           obj.gen = pass[m].obj.gen, obj.spec = pass[m].obj.spec,
           obj.annotation = pass[m].obj.annotation, obj.deleting = pass[m].obj.deleting,
           obj.finalizer = ~obj.deleting,
           Consistent(Summary(obj).conditions),
           obj.deleting \/ outcome \in {"retry", "interval"}
    PROVE  CalmPart(m)'
<1>1. pass'[m] = [Idle EXCEPT !.pc = "summarize", !.obj = obj,
                     !.before = pass[m].before, !.outcome = outcome,
                     !.expired = pass[m].expired]
  BY DEF Return, TypeOK
<1>2. /\ pass'[m].pc = "summarize" /\ pass'[m].obj = obj
      /\ pass'[m].before = pass[m].before /\ pass'[m].outcome = outcome
      /\ pass'[m].expired = pass[m].expired
  BY <1>1 DEF Idle
<1>3. PassIsCurrent(m)'
  BY <1>2 DEF CalmPart, PassIsCurrent, Publishing
<1>4. PassIsConsistent(m)'
  BY <1>2 DEF CalmPart, PassIsConsistent, Publishing
<1>5. WillBeSeen(m)'
  BY <1>2 DEF WillBeSeen
<1> QED BY <1>3, <1>4, <1>5 DEF CalmPart

(* A pass that is not finalizing has the finalizer in its object.          *)
LEMMA WorksGuarded ==
    ASSUME TypeOK, FinalizerInv, HistoryInv, NEW m \in MG,
           pass[m].pc \notin {"idle", "summarize"}, ~pass[m].obj.deleting
    PROVE  pass[m].obj.finalizer
<1>1. PassInOrder(m)
  BY DEF HistoryInv, History
<1> QED BY <1>1 DEF PassInOrder

(* Where a pass is while it is not idle, beginning or ending.              *)
LEMMA Amid ==
    ASSUME TypeOK, NEW m \in MG
    PROVE  pass[m].pc \in Publishing \cup {"idle", "clean", "cleanea", "summarize"}
<1>1. pass[m].pc \in PC
  BY DEF TypeOK, Pass
<1> QED BY <1>1 DEF PC, Publishing

(* The steps that only move the pass on.                                   *)
LEMMA MoveSteps ==
    ASSUME TypeOK, NEW m \in MG,
           \/ ObserveSources(m) \/ Prepare(m) \/ Build(m) \/ ApplyExternalArtifact(m)
           \/ PatchExternalArtifactStatus(m) \/ CleanStorage(m) \/ CleanExternalArtifact(m)
    PROVE  /\ UNCHANGED <<mg, cache, queue, timer>>
           /\ pass[m].pc \notin {"idle", "progress", "summarize"}
           /\ pass'[m].pc \notin {"idle", "progress", "summarize"}
           /\ pass'[m].obj = pass[m].obj /\ pass'[m].before = pass[m].before
           /\ pass'[m].expired = pass[m].expired
           /\ pass'[m].pc \in Publishing => pass[m].pc \in Publishing
<1> USE DEF At
<1>0. pass[m] \in Pass
  BY DEF TypeOK
<1>1. CASE ObserveSources(m) \/ Prepare(m)
  BY <1>0, <1>1 DEF ObserveSources, Prepare, TypeOK, Pass, Publishing
<1>2. CASE Build(m)
  <2>1. /\ UNCHANGED <<mg, cache, queue, timer>> /\ pass[m].pc = "build"
        /\ \E n \in pass[m].todo : pass' = [pass EXCEPT ![m].pc = "apply", ![m].cur = {n}]
    BY <1>2 DEF Build
  <2>2. /\ pass'[m].pc = "apply" /\ pass'[m].obj = pass[m].obj
        /\ pass'[m].before = pass[m].before /\ pass'[m].expired = pass[m].expired
    BY <1>0, <2>1 DEF TypeOK, Pass
  <2> QED BY <1>0, <2>1, <2>2 DEF Pass, Publishing
<1>3. CASE ApplyExternalArtifact(m)
  <2>1. /\ UNCHANGED <<mg, cache, queue, timer>> /\ pass[m].pc = "apply"
        /\ pass' = [pass EXCEPT ![m].pc = "eastatus"]
    BY <1>3 DEF ApplyExternalArtifact
  <2>2. pass'[m] = [pass[m] EXCEPT !.pc = "eastatus"]
    BY <2>1 DEF TypeOK
  <2> QED BY <1>0, <2>1, <2>2 DEF Pass, Publishing
<1>4. CASE PatchExternalArtifactStatus(m)
  <2>1. PICK n \in pass[m].cur :
          LET refs == pass[m].eaRefs \cup {[name |-> n, content |-> Digest(m)]}
              todo == pass[m].todo \ {n}
          IN  pass' = [pass EXCEPT
                    ![m].pc = IF todo = {} THEN "clean" ELSE "build",
                    ![m].cur = {}, ![m].todo = todo, ![m].eaRefs = refs,
                    ![m].orphans = IF todo = {}
                        THEN FindOrphanedReferences(pass[m].obj.status.inventory, refs)
                        ELSE {}]
    BY <1>4, Zenon DEF PatchExternalArtifactStatus
  <2>2. /\ pass'[m].obj = pass[m].obj /\ pass'[m].before = pass[m].before
        /\ pass'[m].expired = pass[m].expired /\ pass'[m].pc \in {"clean", "build"}
    BY <1>0, <2>1 DEF TypeOK, Pass
  <2>3. UNCHANGED <<mg, cache, queue, timer>> /\ pass[m].pc = "eastatus"
    BY <1>4 DEF PatchExternalArtifactStatus
  <2> QED BY <2>2, <2>3 DEF Publishing
<1>5. CASE CleanStorage(m)
  <2>1. /\ UNCHANGED <<mg, cache, queue, timer>> /\ pass[m].pc = "clean"
        /\ \E n \in pass[m].orphans : pass' = [pass EXCEPT ![m].pc = "cleanea", ![m].cur = {n}]
    BY <1>5 DEF CleanStorage
  <2>2. /\ pass'[m].pc = "cleanea" /\ pass'[m].obj = pass[m].obj
        /\ pass'[m].before = pass[m].before /\ pass'[m].expired = pass[m].expired
    BY <1>0, <2>1 DEF TypeOK, Pass
  <2> QED BY <1>0, <2>1, <2>2 DEF Pass, Publishing
<1>6. CASE CleanExternalArtifact(m)
  BY <1>0, <1>6 DEF CleanExternalArtifact, CleanNext, TypeOK, Pass, Publishing
<1> QED BY <1>1, <1>2, <1>3, <1>4, <1>5, <1>6

(* The first patch of a pass writes what the pass has so far.              *)
LEMMA ProgressPatches ==
    ASSUME TypeOK, FinalizerInv, NEW m \in MG, CalmPart(m), PatchProgress(m)
    PROVE  LET o == pass[m].obj IN
           /\ pass[m].pc = "progress" /\ mg[m].exists /\ o.finalizer
           /\ UNCHANGED <<cache, queue, timer, ea, files>>
           /\ mg'[m].exists /\ mg'[m].gen = mg[m].gen /\ mg'[m].spec = mg[m].spec
           /\ mg'[m].annotation = mg[m].annotation
           /\ mg'[m].conditions = o.conditions /\ mg'[m].finalizer = o.finalizer
           /\ mg'[m].status = o.status
           /\ pass'[m].pc = "observe" /\ pass'[m].obj = o /\ pass'[m].before = o
           /\ pass'[m].expired = pass[m].expired /\ pass'[m].eaRefs = pass[m].eaRefs
<1> DEFINE o == pass[m].obj
           r == Rewritten(mg[m], o.conditions, o.finalizer, o.status)
<1>0. /\ pass[m].pc = "progress" /\ mg[m].exists /\ o.finalizer
      /\ UNCHANGED <<cache, queue, timer, ea, files>>
      /\ o \in Object /\ pass[m].before \in Object /\ mg[m] \in Object /\ pass[m] \in Pass
  BY PassType DEF PatchProgress, At, FinalizerInv, PassKeepsFinalizer, Publishing, TypeOK
<1>1. PassIsCurrent(m) /\ PassIsConsistent(m)
  BY DEF CalmPart
<1>2. mg'[m] = Reap(r)
  <2>1. mg'[m] = Patched(pass[m].before, o, mg[m], Parts)
    <3>1. mg' = [mg EXCEPT ![m] = Patched(pass[m].before, pass[m].obj, mg[m], Parts)]
      BY DEF PatchProgress
    <3>2. DOMAIN mg = MG
      BY DEF TypeOK
    <3> QED BY <3>1, <3>2
  <2>2. /\ pass[m].before.conditions = mg[m].conditions
        /\ pass[m].before.finalizer = mg[m].finalizer
        /\ pass[m].before.status = mg[m].status
    BY <1>0, <1>1 DEF PassIsCurrent
  <2> QED BY <1>0, <2>1, <2>2, PatchedCurrent
<1>3. /\ mg'[m].exists /\ mg'[m].gen = mg[m].gen /\ mg'[m].spec = mg[m].spec
      /\ mg'[m].annotation = mg[m].annotation
      /\ mg'[m].conditions = o.conditions /\ mg'[m].finalizer = o.finalizer
      /\ mg'[m].status = o.status
  <2>1. /\ r.exists = mg[m].exists /\ r.gen = mg[m].gen /\ r.spec = mg[m].spec
        /\ r.annotation = mg[m].annotation
        /\ r.conditions = o.conditions /\ r.finalizer = o.finalizer /\ r.status = o.status
    BY <1>0 DEF Rewritten, Object
  <2>2. Reap(r) = r
    BY <1>0, <2>1 DEF Reap
  <2> QED BY <1>0, <1>2, <2>1, <2>2
<1>4. /\ pass'[m].pc = "observe" /\ pass'[m].obj = o /\ pass'[m].before = o
      /\ pass'[m].expired = pass[m].expired /\ pass'[m].eaRefs = pass[m].eaRefs
  <2>1. pass'[m] = [pass[m] EXCEPT !.pc = "observe", !.before = o]
    BY DEF PatchProgress, TypeOK
  <2> QED BY <1>0, <2>1 DEF Pass
<1> QED BY <1>0, <1>3, <1>4

(* MarkReconciling and Ready=Unknown are shown while the pass works.       *)
LEMMA ProgressCalm ==
    ASSUME TypeOK, FinalizerInv, NEW m \in MG, CalmPart(m), PatchProgress(m)
    PROVE  CalmPart(m)'
<1>1. PassIsCurrent(m) /\ PassIsConsistent(m)
  BY DEF CalmPart
<1>2. PICK o : o = pass[m].obj
  OBVIOUS
<1>3. /\ pass[m].pc = "progress" /\ mg[m].exists /\ o.finalizer
      /\ UNCHANGED <<cache, queue, timer>>
      /\ mg'[m].exists /\ mg'[m].gen = mg[m].gen /\ mg'[m].spec = mg[m].spec
      /\ mg'[m].annotation = mg[m].annotation
      /\ mg'[m].conditions = o.conditions /\ mg'[m].finalizer = o.finalizer
      /\ mg'[m].status = o.status
      /\ pass'[m].pc = "observe" /\ pass'[m].obj = o /\ pass'[m].before = o
      /\ pass'[m].expired = pass[m].expired
  BY <1>2, ProgressPatches
<1>4. PassIsCurrent(m)'
  BY <1>1, <1>2, <1>3 DEF PassIsCurrent, Publishing
<1>5. o.conditions.stalled = 0 /\ o.conditions.ready.status = "Unknown"
  BY <1>1, <1>2, <1>3 DEF PassIsConsistent, Publishing
<1>6. PassIsConsistent(m)'
  BY <1>3, <1>5 DEF PassIsConsistent, Consistent
<1>7. WillBeSeen(m)'
  BY <1>3 DEF WillBeSeen
<1> QED BY <1>4, <1>6, <1>7 DEF CalmPart

(* A pass that failed is retried, and neither Ready nor Stalled.           *)
LEMMA FailedCalm ==
    ASSUME TypeOK, FinalizerInv, HistoryInv, NEW m \in MG, CalmPart(m),
           UNCHANGED <<mg, cache, queue, timer>>,
           pass[m].pc \in Publishing, Failed(m)
    PROVE  CalmPart(m)'
<1> DEFINE o == pass[m].obj
<1>0. o \in Object /\ MarkReady(o, "False") \in Object
  BY PassType, MarkType
<1>1. /\ o.finalizer /\ ~o.deleting /\ o.conditions.stalled = 0
      /\ pass[m].pc \notin {"idle", "summarize"}
  BY DEF CalmPart, PassIsCurrent, PassIsConsistent, Publishing,
         FinalizerInv, PassKeepsFinalizer
<1>2. /\ SameWork(MarkReady(o, "False"), o) /\ MarkReady(o, "False").finalizer = o.finalizer
      /\ MarkReady(o, "False").conditions.stalled = 0
  BY <1>0, <1>1, MarkReadySets DEF Shows
<1>3. PICK f : f = MarkReady(o, "False")
  OBVIOUS
<1>4. Consistent(Summary(f).conditions)
  BY <1>0, <1>2, <1>3, SummaryConsistent
<1>5. f \in Object /\ Return(m, f, "retry")
  BY <1>0, <1>3 DEF Failed
<1> QED BY <1>1, <1>2, <1>3, <1>4, <1>5, ReturnsCalm DEF SameWork

(* Success: Ready=True alone, and the next pass after the interval.        *)
LEMMA CompleteCalm ==
    ASSUME TypeOK, FinalizerInv, HistoryInv, NEW m \in MG, CalmPart(m), Complete(m)
    PROVE  CalmPart(m)'
<1> DEFINE o == pass[m].obj
<1>1. PICK s : s = Succeeded(o, pass[m].eaRefs)
  OBVIOUS
<1>2. /\ UNCHANGED <<mg, cache, queue, timer>>
      /\ pass[m].pc = "clean" /\ ~o.deleting
      /\ o \in Object /\ pass[m].eaRefs \in SUBSET Ref
      /\ Return(m, s, "interval")
  BY <1>1, PassType DEF Complete, At
<1>3. o.finalizer
  BY <1>2, WorksGuarded
<1>4. o.conditions.stalled = 0
  BY <1>2 DEF CalmPart, PassIsConsistent
<1>5. /\ s \in Object /\ s.gen = o.gen /\ s.spec = o.spec /\ s.annotation = o.annotation
      /\ s.deleting = o.deleting /\ s.finalizer = o.finalizer
      /\ s.conditions.stalled = 0
  <2>1. LET t == Succeeded(o, pass[m].eaRefs) IN
          /\ t \in Object /\ t.gen = o.gen /\ t.spec = o.spec /\ t.annotation = o.annotation
          /\ t.deleting = o.deleting /\ t.finalizer = o.finalizer
          /\ t.conditions.stalled = o.conditions.stalled
    BY <1>2, SucceededSets DEF Shows
  <2> QED BY <1>1, <1>4, <2>1
<1>6. Consistent(Summary(s).conditions)
  BY <1>5, SummaryConsistent
<1> QED BY <1>2, <1>3, <1>5, <1>6, ReturnsCalm

(* Finalized: what is left of the object shows what it showed.             *)
LEMMA RemoveFinalizerCalm ==
    ASSUME TypeOK, NEW m \in MG, CalmPart(m), RemoveFinalizer(m)
    PROVE  CalmPart(m)'
<1> DEFINE o == pass[m].obj
<1>1. PICK f : f = [o EXCEPT !.finalizer = FALSE]
  OBVIOUS
<1>2. /\ UNCHANGED <<mg, cache, queue, timer>>
      /\ pass[m].pc = "clean" /\ o.deleting /\ o \in Object
      /\ Return(m, f, "stop")
  BY <1>1, PassType DEF RemoveFinalizer, At
<1>3. /\ f \in Object /\ f.gen = o.gen /\ f.spec = o.spec /\ f.annotation = o.annotation
      /\ f.deleting = o.deleting /\ f.finalizer = FALSE /\ f.conditions = o.conditions
  BY <1>1, <1>2 DEF Object
<1>4. o.conditions = mg[m].conditions /\ Consistent(mg[m].conditions)
  BY <1>2 DEF CalmPart, PassIsCurrent, PassIsConsistent
<1>5. Consistent(Summary(f).conditions)
  BY <1>3, <1>4, SummaryConsistent
<1> QED BY <1>2, <1>3, <1>5, ReturnsCalm

(* The last patch writes what the pass knows, or lets the object go.       *)
LEMMA SummaryPatches ==
    ASSUME TypeOK, FinalizerInv, NEW m \in MG, CalmPart(m), Summarize(m)
    PROVE  LET s == Summary(pass[m].obj) IN
           /\ mg[m].exists /\ pass[m].pc = "summarize"
           /\ \/ /\ ~pass[m].obj.finalizer /\ mg'[m] = Absent(mg[m].gen, TRUE)
              \/ /\ pass[m].obj.finalizer /\ mg'[m].finalizer
                 /\ mg'[m].exists /\ mg'[m].gen = mg[m].gen /\ mg'[m].spec = mg[m].spec
                 /\ mg'[m].annotation = mg[m].annotation
                 /\ mg'[m].conditions = s.conditions /\ mg'[m].status = s.status
<1> DEFINE o == pass[m].obj
           s == Summary(o)
           r == Rewritten(mg[m], s.conditions, s.finalizer, s.status)
<1>1. /\ o \in Object /\ pass[m].before \in Object /\ mg[m] \in Object
      /\ pass[m].pc = "summarize" /\ mg[m].exists
      /\ o.deleting => mg[m].deleting
      /\ o.finalizer = ~o.deleting
  BY PassType DEF TypeOK, FinalizerInv, PassKeepsFinalizer, Summarize, At,
                  CalmPart, PassIsCurrent
<1>2. mg'[m] = Reap(r)
  <2>1. mg' = [mg EXCEPT ![m] =
            Patched(pass[m].before, Summary(pass[m].obj), mg[m], Parts)]
    BY DEF Summarize
  <2>2. DOMAIN mg = MG
    BY DEF TypeOK
  <2>3. mg'[m] = Patched(pass[m].before, s, mg[m], Parts)
    BY <2>1, <2>2
  <2>4. /\ pass[m].before.conditions = mg[m].conditions
        /\ pass[m].before.finalizer = mg[m].finalizer
        /\ pass[m].before.status = mg[m].status
    BY <1>1 DEF CalmPart, PassIsCurrent
  <2>5. s \in Object
    BY <1>1, SummaryType
  <2> QED BY <1>1, <2>3, <2>4, <2>5, PatchedCurrent
<1>3. /\ r.exists = mg[m].exists /\ r.gen = mg[m].gen /\ r.spec = mg[m].spec
      /\ r.annotation = mg[m].annotation /\ r.deleting = mg[m].deleting
      /\ r.conditions = s.conditions /\ r.finalizer = s.finalizer /\ r.status = s.status
  BY <1>1 DEF Rewritten, Object
<1>4. s.finalizer = o.finalizer
  BY <1>1, SummarySets
<1>5. CASE ~o.finalizer
  <2>1. mg'[m] = Absent(mg[m].gen, TRUE)
    BY <1>1, <1>2, <1>3, <1>4, <1>5 DEF Reap
  <2> QED BY <1>1, <1>5, <2>1
<1>6. CASE o.finalizer
  <2>1. mg'[m] = r
    BY <1>1, <1>2, <1>3, <1>4, <1>6 DEF Reap
  <2> QED BY <1>1, <1>3, <1>4, <1>6, <2>1
<1> QED BY <1>1, <1>5, <1>6 DEF Object

(* The end of a pass: what it knows is what the object shows, and somebody *)
(* will look at it, or says why not.                                       *)
LEMMA SummarizeCalm ==
    ASSUME TypeOK, FinalizerInv, NEW m \in MG, CalmPart(m),
           Summarize(m) \/ SummarizeGone(m)
    PROVE  CalmPart(m)'
<1>0. /\ pass[m].pc = "summarize" /\ pass'[m].pc = "idle" /\ ~pass'[m].expired
      /\ UNCHANGED <<cache, queue>> /\ timer'[m] \in {"none", "retry", "interval"}
  <2>1. /\ pass[m].pc = "summarize" /\ pass'[m] = Idle /\ UNCHANGED <<cache, queue>>
        /\ \E failed : Requeue(m, pass[m].outcome, failed)
    BY DEF Summarize, SummarizeGone, At, TypeOK
  <2>2. timer'[m] \in {"none", "retry", "interval"}
    BY <2>1, RequeueType
  <2>3. Idle.pc = "idle" /\ ~Idle.expired
    BY DEF Idle
  <2> QED BY <2>1, <2>2, <2>3
<1>1. PICK o, s : o = pass[m].obj /\ s = Summary(o)
  OBVIOUS
<1>2. /\ o \in Object /\ o.finalizer = ~o.deleting /\ Consistent(s.conditions)
  BY <1>0, <1>1, PassType DEF CalmPart, PassIsCurrent, PassIsConsistent
<1>3. PassIsCurrent(m)'
  BY <1>0 DEF PassIsCurrent
<1>4. CASE SummarizeGone(m)
  <2>1. ~mg[m].exists /\ mg' = mg
    BY <1>4 DEF SummarizeGone
  <2>2. PassIsConsistent(m)'
    BY <1>0, <2>1 DEF CalmPart, PassIsConsistent, Publishing
  <2>3. WillBeSeen(m)'
    BY <2>1 DEF WillBeSeen
  <2> QED BY <1>3, <2>2, <2>3 DEF CalmPart
<1>5. CASE Summarize(m) /\ ~o.finalizer
  <2>1. mg'[m] = Absent(mg[m].gen, TRUE)
    BY <1>1, <1>5, SummaryPatches
  <2>2. ~mg'[m].exists /\ mg'[m].conditions = NoConditions
    BY <2>1 DEF Absent
  <2>3. PassIsConsistent(m)'
    BY <1>0, <2>2 DEF PassIsConsistent, Consistent, NoConditions, Publishing
  <2>4. WillBeSeen(m)'
    BY <2>2 DEF WillBeSeen
  <2> QED BY <1>3, <2>3, <2>4 DEF CalmPart
<1>6. CASE Summarize(m) /\ o.finalizer
  <2>1. /\ mg[m].exists /\ mg'[m].exists /\ mg'[m].finalizer
        /\ mg'[m].gen = mg[m].gen /\ mg'[m].spec = mg[m].spec
        /\ mg'[m].annotation = mg[m].annotation /\ mg'[m].conditions = s.conditions
    BY <1>1, <1>6, SummaryPatches
  <2>2. PassIsConsistent(m)'
    BY <1>0, <1>2, <2>1 DEF PassIsConsistent, Publishing
  <2>3. /\ timer[m] # "none" => timer'[m] # "none"
        /\ pass[m].outcome \in {"retry", "interval"} => timer'[m] # "none"
    <3>1. Requeue(m, pass[m].outcome, FALSE)
      BY <1>6 DEF Summarize
    <3>2. timer'[m] = CASE pass[m].outcome = "terminal" -> timer[m]
            [] pass[m].outcome # "terminal" /\ (FALSE \/ pass[m].outcome = "retry") -> "retry"
            [] pass[m].outcome = "interval" /\ ~FALSE /\ timer[m] = "none" -> "interval"
            [] OTHER -> timer[m]
      BY <3>1 DEF Requeue, TypeOK
    <3> QED BY <3>2
  <2>4. Stalled(o.conditions, o.gen) => Stalled(s.conditions, o.gen)
    BY <1>1, <1>2, SummarySets DEF Stalled
  <2>5. \/ cache[m].gen # mg[m].gen \/ m \in queue \/ timer[m] # "none"
        \/ pass[m].outcome \in {"retry", "interval"}
        \/ pass[m].outcome = "terminal" /\ Stalled(o.conditions, o.gen)
        \/ pass[m].outcome = "stop" /\ PutAside(mg[m])
    BY <1>0, <1>1, <1>2, <1>6, <2>1 DEF CalmPart, WillBeSeen
  <2>6. o.gen = mg[m].gen \/ cache[m].gen # mg[m].gen \/ m \in queue
    BY <1>0, <1>1, <2>1 DEF CalmPart, PassIsCurrent
  <2>7. WillBeSeen(m)'
    BY <1>0, <2>1, <2>3, <2>4, <2>5, <2>6 DEF WillBeSeen, PutAside
  <2> QED BY <1>3, <2>2, <2>7 DEF CalmPart
<1> QED BY <1>4, <1>5, <1>6

(* Every step of the pass of m.                                            *)
LEMMA WorkCalm ==
    ASSUME TypeOK, FinalizerInv, HistoryInv, NEW m \in MG, CalmPart(m), Work(m)
    PROVE  CalmPart(m)'
<1>1. CASE \/ ObserveSources(m) \/ Prepare(m) \/ Build(m) \/ ApplyExternalArtifact(m)
           \/ PatchExternalArtifactStatus(m) \/ CleanStorage(m) \/ CleanExternalArtifact(m)
  <2>1. pass[m].pc \in Publishing \cup {"clean", "cleanea"}
    BY <1>1, Amid, MoveSteps
  <2> QED BY <1>1, <2>1, MoveSteps, MovesCalm
<1>2. CASE SourcesNotReady(m) \/ ExternalArtifactChanged(m)
  BY <1>2, FailedCalm DEF SourcesNotReady, ExternalArtifactChanged, At, Publishing
<1> QED BY <1>1, <1>2, ProgressCalm, CompleteCalm, RemoveFinalizerCalm, SummarizeCalm DEF Work

(* Every step while nothing fails.                                         *)
LEMMA NextCalm ==
    TypeOK /\ FinalizerInv /\ HistoryInv /\ Calm /\ Calm' /\ CalmInv /\ [Next]_vars
        => CalmInv'
<1> SUFFICES ASSUME TypeOK, FinalizerInv, HistoryInv, Calm, Calm', CalmInv, [Next]_vars,
                    NEW m \in MG
             PROVE  CalmPart(m)'
  BY DEF CalmInv, CalmPart
<1>0. CalmPart(m) /\ \A k \in MG : ~pass[k].expired
  BY DEF CalmInv, CalmPart, PassIsCurrent
<1>1. CASE UNCHANGED vars \/ SourceChange \/ DeliverSource
  <2>1. UNCHANGED <<mg, cache, pass, timer>> /\ queue \subseteq queue'
    BY <1>1 DEF vars, SourceChange, DeliverSource, UNCHANGED_Controller
  <2> QED BY <1>0, <2>1, OtherCalm
<1>2. ASSUME NEW k \in MG, User(k) PROVE CalmPart(m)'
  <2>1. CASE k = m
    BY <1>0, <1>2, <2>1, UserCalm
  <2>2. CASE k # m
    <3>1. UNCHANGED <<cache, pass, timer, queue>> /\ mg'[m] = mg[m]
      BY <1>2, <2>2 DEF User, Create, EditSpec, Annotate, Request, Delete,
                        UNCHANGED_Controller, TypeOK
    <3> QED BY <1>0, <3>1, OtherCalm
  <2> QED BY <2>1, <2>2
<1>3. ASSUME NEW k \in MG, DeliverManifestGenerator(k) PROVE CalmPart(m)'
  <2>1. /\ UNCHANGED <<mg, pass, timer>> /\ queue \subseteq queue'
        /\ k # m => cache'[m] = cache[m]
        /\ ManifestGeneratorPredicate(cache[k], mg[k]) => k \in queue'
    BY <1>3 DEF DeliverManifestGenerator, TypeOK
  <2>2. cache[m].gen # mg[m].gen => cache'[m].gen # mg[m].gen \/ m \in queue'
    BY <2>1 DEF ManifestGeneratorPredicate
  <2> QED BY <1>0, <2>1, <2>2, OtherCalm
<1>4. ASSUME NEW k \in MG, RetryTimerFires(k) \/ IntervalTimerFires(k) PROVE CalmPart(m)'
  <2>1. /\ UNCHANGED <<mg, cache, pass>> /\ queue \subseteq queue'
        /\ timer[m] # "none" => timer'[m] # "none" \/ m \in queue'
    BY <1>4 DEF RetryTimerFires, IntervalTimerFires, TimerFires, TypeOK
  <2> QED BY <1>0, <2>1, OtherCalm
<1>5. ASSUME NEW k \in MG, Start(k) PROVE CalmPart(m)'
  <2>1. CASE k = m
    BY <1>0, <1>5, <2>1, StartCalm
  <2>2. CASE k # m
    BY <1>0, <1>5, <2>2, BeginsCurrent, OtherCalm
  <2> QED BY <2>1, <2>2
<1>6. ASSUME NEW k \in MG, Work(k) PROVE CalmPart(m)'
  <2>1. CASE k = m
    BY <1>0, <1>6, <2>1, WorkCalm
  <2>2. CASE k # m
    <3>1. pass'[m] = pass[m]
      BY <1>6, <2>2, OtherPass
    <3>2. UNCHANGED <<cache, queue>> /\ mg'[m] = mg[m] /\ timer'[m] = timer[m]
      BY <1>6, <2>2
         DEF Work, PatchProgress, ObserveSources, SourcesNotReady, Prepare, Build,
             ApplyExternalArtifact, PatchExternalArtifactStatus, ExternalArtifactChanged,
             CleanStorage, CleanExternalArtifact, Complete, RemoveFinalizer, Summarize,
             SummarizeGone, Requeue, TypeOK
    <3> QED BY <1>0, <3>1, <3>2, OtherCalm
  <2> QED BY <2>1, <2>2
<1> QED BY <1>0, <1>1, <1>2, <1>3, <1>4, <1>5, <1>6, CalmSteps

(* A new world is calm.                                                    *)
LEMMA InitCalm == Init => CalmInv
<1> SUFFICES ASSUME Init, NEW m \in MG PROVE CalmPart(m)
  BY DEF CalmInv, CalmPart
<1>1. mg[m] = Absent(0, FALSE) /\ pass[m] = Idle
  BY DEF Init
<1>2. /\ ~mg[m].exists /\ mg[m].conditions = NoConditions
      /\ pass[m].pc = "idle" /\ ~pass[m].expired
  BY <1>1 DEF Absent, Idle
<1> QED BY <1>2 DEF CalmPart, PassIsCurrent, PassIsConsistent, WillBeSeen, Consistent,
                    NoConditions, Publishing

(* As long as nothing fails and passes begin with the informer caught up,  *)
(* a pass works on what the API server has, its conditions are consistent, *)
(* and whoever is not going to be looked at again says why.                *)
THEOREM CalmInvariant == Spec /\ []Calm => []CalmInv
<1>1. Spec => []TypeOK
  BY TypeCorrect
<1> QED BY <1>1, InitCalm, NextCalm, FinalizerInvariant, HistoryInvariant, PTL DEF Spec

(* The conditions in the API server never contradict each other.           *)
THEOREM ConditionsAreConsistent == Spec /\ []Calm => []ConditionsConsistent
<1>1. CalmInv => ConditionsConsistent
  BY DEF CalmInv, PassIsConsistent, ConditionsConsistent
<1> QED BY <1>1, CalmInvariant, PTL

(* No object is forgotten.                                                 *)
THEOREM ParkedAreAccounted == Spec /\ []Calm => []ParkedIsAccounted
<1>1. TypeOK /\ CalmInv => ParkedIsAccounted
  BY DEF TypeOK, Object, CalmInv, WillBeSeen, ParkedIsAccounted, At, IsDisabled, PutAside,
         Stalled, Annotation
<1>2. Spec => []TypeOK
  BY TypeCorrect
<1> QED BY <1>1, <1>2, CalmInvariant, PTL

-----------------------------------------------------------------------------
(* What a generator owns.                                                  *)

OwnPart(m) == PassKnowsOwned(m) /\ PassKeepsStored(m)

LabelsExist == \A n \in Name : ea[n].owner # {} => ea[n].exists

(* Served and Owned name the same artifacts.                               *)
LEMMA ServedNames ==
    ASSUME NEW m \in MG
    PROVE  Names(Served(m)) = Owned(m)
<1>1. ASSUME NEW n \in Owned(m) PROVE n \in Names(Served(m))
  <2>1. [name |-> n, content |-> ea[n].content] \in Served(m)
    BY DEF Served
  <2> QED BY <2>1 DEF Names
<1>2. ASSUME NEW n \in Names(Served(m)) PROVE n \in Owned(m)
  BY DEF Names, Served
<1> QED BY <1>1, <1>2

(* Nothing is in no inventory.                                             *)
LEMMA EmptyNames == Names({}) = {}
BY DEF Names

(* What is Ready is still served after a step that leaves it alone.        *)
LEMMA OtherOwns ==
    ASSUME TypeOK, NEW m \in MG, OwnPart(m), CalmPart(m), PassHoldsArtifacts(m),
           mg'[m] = mg[m], pass'[m] = pass[m],
           \A x \in Reserved(m) : ea'[x] = ea[x] /\ files'[x] = files[x],
           \A x \in Name : m \in ea'[x].owner => m \in ea[x].owner
    PROVE  OwnPart(m)'
<1> DEFINE p == pass[m]
           o == mg[m]
<1>1. /\ Reserved(m)' = Reserved(m) /\ Digest(m)' = Digest(m)
      /\ Owned(m) \subseteq Reserved(m)
  BY DEF Reserved, Digest, OwnPart, PassKnowsOwned
<1>2. Owned(m)' = Owned(m)
  BY <1>1 DEF Owned
<1>3. Served(m)' = Served(m)
  BY <1>1, <1>2 DEF Served
<1>4. PassKnowsOwned(m)'
  BY <1>1, <1>2, <1>3 DEF OwnPart, PassKnowsOwned
<1>5. ASSUME NEW refs, Names(refs) \subseteq Reserved(m), Stored(refs)
      PROVE  \A r \in refs : ea'[r.name].content = r.content /\ r.content \in files'[r.name]
  BY <1>5 DEF Stored, Names
<1>6. Names(o.status.inventory) \subseteq Reserved(m) /\ Names(p.eaRefs) \subseteq Reserved(m)
  BY DEF Reserved, PassHoldsArtifacts
<1>7. p.pc = "summarize" /\ ~p.obj.deleting => Names(p.obj.status.inventory) \subseteq Reserved(m)
  BY <1>1, ServedNames DEF CalmPart, PassIsCurrent, OwnPart, PassKnowsOwned
<1>8. /\ o.exists /\ ~o.deleting /\ o.conditions.ready.status = "True" =>
            Stored(o.status.inventory)
      /\ p.pc = "summarize" /\ ~p.obj.deleting /\ p.obj.conditions.ready.status = "True" =>
            Stored(p.obj.status.inventory)
      /\ Stored(p.eaRefs) /\ \A r \in p.eaRefs : r.content = Digest(m)
  BY DEF OwnPart, PassKeepsStored
<1>9. PassKeepsStored(m)'
  BY <1>1, <1>5, <1>6, <1>7, <1>8 DEF PassKeepsStored, Stored
<1> QED BY <1>4, <1>9 DEF OwnPart

(* A step inside the pass of m, and what it does to what m owns.           *)
LEMMA UnchangedOwned ==
    ASSUME NEW m \in MG, UNCHANGED ea
    PROVE  Owned(m)' = Owned(m) /\ Served(m)' = Served(m)
BY DEF Owned, Served

(* Users touch no artifact, and can only take away an object that has      *)
(* none.                                                                   *)
LEMMA UserOwns ==
    ASSUME TypeOK, HistoryInv, NEW m \in MG, OwnPart(m), User(m)
    PROVE  OwnPart(m)'
<1> DEFINE o == mg[m]
           u == mg'[m]
           p == pass[m]
<1>0. /\ UNCHANGED <<ea, files>> /\ pass'[m] = p /\ CopiesInOrder(m)
      /\ Owned(m)' = Owned(m) /\ Served(m)' = Served(m) /\ Digest(m)' = Digest(m)
      /\ \A refs : Stored(refs) => \A r \in refs : ea'[r.name].content = r.content
                                                    /\ r.content \in files'[r.name]
  <2>1. UNCHANGED <<ea, files, pass>>
    BY DEF User, Create, EditSpec, Annotate, Request, Delete, UNCHANGED_Controller
  <2> QED BY <2>1, UnchangedOwned DEF HistoryInv, History, Digest, Stored
<1>1. PassKnowsOwned(m) /\ PassKeepsStored(m)
  BY DEF OwnPart
<1>2. CASE /\ o.gen = 0 /\ ~o.finalizer
           /\ u.conditions = NoConditions /\ u.status = NoStatus
  <2>1. p = Idle /\ p.pc = "idle" /\ p.eaRefs = {}
    BY <1>0, <1>2 DEF CopiesInOrder, Idle
  <2>2. Owned(m) = {} /\ Served(m) = {}
    BY <1>1, <1>2 DEF PassKnowsOwned, Served
  <2>3. u.status.inventory = {} /\ u.conditions.ready.status = "None"
    BY <1>2 DEF NoStatus, NoConditions
  <2>4. PassKnowsOwned(m)'
    BY <1>0, <2>1, <2>2, <2>3 DEF PassKnowsOwned
  <2>5. PassKeepsStored(m)'
    BY <1>0, <2>1, <2>3 DEF PassKeepsStored, Stored
  <2> QED BY <2>4, <2>5 DEF OwnPart
<1>3. CASE /\ o.exists /\ u.exists /\ u.finalizer = o.finalizer
           /\ u.conditions = o.conditions /\ u.status = o.status
           /\ o.deleting => u.deleting
  <2>1. Reserved(m)' = Reserved(m)
    BY <1>0, <1>3 DEF Reserved
  <2>2. PassKnowsOwned(m)'
    BY <1>0, <1>1, <1>3, <2>1 DEF PassKnowsOwned
  <2>3. PassKeepsStored(m)'
    BY <1>0, <1>1, <1>3 DEF PassKeepsStored, Stored
  <2> QED BY <2>2, <2>3 DEF OwnPart
<1>4. CASE ~o.finalizer /\ ~u.exists
  <2>1. Owned(m) = {}
    BY <1>1, <1>4 DEF PassKnowsOwned
  <2>2. PassKnowsOwned(m)'
    BY <1>0, <1>1, <1>4, <2>1 DEF PassKnowsOwned
  <2>3. PassKeepsStored(m)'
    BY <1>0, <1>1, <1>4 DEF PassKeepsStored, Stored
  <2> QED BY <2>2, <2>3 DEF OwnPart
<1> QED BY <1>2, <1>3, <1>4, UserDoes

(* A pass begins knowing from the inventory what the generator owns.       *)
LEMMA StartOwns ==
    ASSUME TypeOK, HistoryInv, Calm, NEW m \in MG, OwnPart(m), Start(m)
    PROVE  OwnPart(m)'
<1> DEFINE o == mg[m]
           p == pass'[m]
<1>0. /\ UNCHANGED <<ea, files>> /\ mg'[m] = o /\ pass[m].pc = "idle" /\ o \in Object
      /\ Owned(m)' = Owned(m) /\ Served(m)' = Served(m)
      /\ p = pass[m] \/ (o.exists /\ Begun(p, o))
  BY BeginsCurrent, UnchangedOwned DEF TypeOK, Begun
<1>1. PassKnowsOwned(m) /\ PassKeepsStored(m)
  BY DEF OwnPart
<1>2. CASE p = pass[m]
  <2>1. PassKnowsOwned(m)'
    BY <1>0, <1>1, <1>2 DEF PassKnowsOwned, Reserved
  <2>2. PassKeepsStored(m)'
    BY <1>0, <1>1, <1>2 DEF PassKeepsStored, Stored, Digest
  <2> QED BY <2>1, <2>2 DEF OwnPart
<1>3. CASE o.exists /\ Begun(p, o)
  <2>1. /\ p.eaRefs = {} /\ p.before = o /\ p.obj.status = o.status
        /\ p.obj.deleting = o.deleting
        /\ p.pc \in {"clean", "summarize", "progress"}
        /\ p.pc = "clean" => p.orphans = Names(o.status.inventory)
        /\ p.pc = "summarize" => p.obj.finalizer
    BY <1>3 DEF Begun, SameWork
  <2>2. /\ o.status.inventory = Served(m) /\ Names(o.status.inventory) = Owned(m)
        /\ ~o.finalizer => Owned(m) = {}
    BY <1>0, <1>1, <1>3, ServedNames DEF PassKnowsOwned
  <2>3. PassKnowsOwned(m)'
    BY <1>0, <2>1, <2>2, EmptyNames DEF PassKnowsOwned, Reserved
  <2>4. p.pc = "summarize" /\ p.obj.conditions.ready.status = "True" =>
           o.status.inventory = {} \/ (p.obj = o /\ ~o.deleting)
    <3>1. ~o.finalizer => o.status.inventory = {}
      BY <2>2 DEF Served
    <3> QED BY <1>3, <3>1 DEF Begun, Shows
  <2>5. PassKeepsStored(m)'
    BY <1>0, <1>1, <1>3, <2>1, <2>4 DEF PassKeepsStored, Stored
  <2> QED BY <2>3, <2>5 DEF OwnPart
<1> QED BY <1>0, <1>2, <1>3

(* Up to the first build, the generator owns what it did.                  *)
LEMMA PreparingOwns ==
    ASSUME TypeOK, FinalizerInv, HistoryInv, NEW m \in MG, CalmPart(m), OwnPart(m),
           PassHoldsArtifacts(m),
           PatchProgress(m) \/ ObserveSources(m) \/ Prepare(m)
    PROVE  OwnPart(m)'
<1> USE DEF At
<1>0. /\ UNCHANGED <<ea, files>> /\ pass[m] \in Pass
      /\ pass[m].pc \in {"progress", "observe", "prepare"} /\ pass[m].eaRefs = {}
      /\ Owned(m)' = Owned(m) /\ Served(m)' = Served(m)
  <2>1. UNCHANGED <<ea, files>>
    BY DEF PatchProgress, ObserveSources, Prepare
  <2>2. pass[m].pc \in {"progress", "observe", "prepare"}
    BY DEF PatchProgress, ObserveSources, Prepare
  <2> QED BY <2>1, <2>2, UnchangedOwned DEF TypeOK, PassHoldsArtifacts
<1>1. PassKnowsOwned(m) /\ PassKeepsStored(m)
  BY DEF OwnPart
<1>2. CASE PatchProgress(m)
  <2>1. PICK o : o = pass[m].obj
    OBVIOUS
  <2>2. /\ o.finalizer /\ mg'[m].finalizer = o.finalizer
        /\ mg'[m].conditions = o.conditions /\ mg'[m].status = o.status
        /\ pass'[m].pc = "observe" /\ pass'[m].obj = o /\ pass'[m].eaRefs = {}
    BY <1>0, <1>2, <2>1, ProgressPatches
  <2>3. o.conditions.ready.status = "Unknown"
    BY <1>0, <2>1 DEF CalmPart, PassIsConsistent, Publishing
  <2>4. o.status.inventory = Served(m)
    BY <1>0, <1>1, <2>1 DEF PassKnowsOwned
  <2>5. PassKnowsOwned(m)'
    BY <1>0, <2>2, <2>4, ServedNames DEF PassKnowsOwned, Reserved
  <2>6. PassKeepsStored(m)'
    BY <2>2, <2>3 DEF PassKeepsStored, Stored
  <2> QED BY <2>5, <2>6 DEF OwnPart
<1>3. CASE ObserveSources(m) \/ Prepare(m)
  <2>1. /\ mg' = mg /\ pass'[m].pc \in {"prepare", "build"} /\ pass'[m].obj = pass[m].obj
        /\ pass'[m].eaRefs = {}
    BY <1>0, <1>3 DEF ObserveSources, Prepare, TypeOK, Pass
  <2>2. pass[m].obj.status.inventory = Served(m)
    BY <1>0, <1>1 DEF PassKnowsOwned
  <2>3. PassKnowsOwned(m)'
    BY <1>0, <1>1, <2>1, <2>2, ServedNames, EmptyNames DEF PassKnowsOwned, Reserved
  <2>4. PassKeepsStored(m)'
    BY <1>0, <1>1, <2>1 DEF PassKeepsStored, Stored
  <2> QED BY <2>3, <2>4 DEF OwnPart
<1> QED BY <1>2, <1>3

(* Build adds a tarball and takes none away.                               *)
LEMMA BuildOwns ==
    ASSUME TypeOK, NEW m \in MG, OwnPart(m), Build(m)
    PROVE  OwnPart(m)'
<1>0. pass[m] \in Pass /\ pass[m].pc = "build" /\ UNCHANGED <<mg, ea>>
  BY DEF Build, At, TypeOK
<1>1. PassKnowsOwned(m) /\ PassKeepsStored(m)
  BY DEF OwnPart
<1>2. /\ \A x \in Name : files[x] \subseteq files'[x]
      /\ \E n : pass' = [pass EXCEPT ![m].pc = "apply", ![m].cur = {n}]
  BY DEF Build, TypeOK
<1>3. /\ pass'[m].pc = "apply" /\ pass'[m].obj = pass[m].obj
      /\ pass'[m].eaRefs = pass[m].eaRefs /\ pass'[m].rev = pass[m].rev
  BY <1>0, <1>2 DEF TypeOK, Pass
<1>4. Owned(m)' = Owned(m) /\ Served(m)' = Served(m) /\ Digest(m)' = Digest(m)
  BY <1>0, <1>3, UnchangedOwned DEF Digest
<1>5. ASSUME NEW refs \in SUBSET Ref, Stored(refs)
      PROVE  \A r \in refs : ea'[r.name].content = r.content /\ r.content \in files'[r.name]
  BY <1>0, <1>2, <1>5 DEF Stored, Ref
<1>6. mg[m].status.inventory \in SUBSET Ref /\ pass[m].eaRefs \in SUBSET Ref
  BY PassType DEF TypeOK, Object, Status
<1>7. PassKnowsOwned(m)'
  BY <1>0, <1>1, <1>3, <1>4 DEF PassKnowsOwned, Reserved
<1>8. PassKeepsStored(m)'
  BY <1>0, <1>1, <1>3, <1>4, <1>5, <1>6 DEF PassKeepsStored, Stored
<1> QED BY <1>7, <1>8 DEF OwnPart

(* Applying the ExternalArtifact makes it the generator's.                 *)
LEMMA ApplyOwns ==
    ASSUME TypeOK, FinalizerInv, HistoryInv, NEW m \in MG, OwnPart(m), PassHoldsArtifacts(m),
           ApplyExternalArtifact(m)
    PROVE  OwnPart(m)'
<1>0. /\ pass[m] \in Pass /\ pass[m].pc = "apply" /\ UNCHANGED <<mg, files>>
      /\ pass' = [pass EXCEPT ![m].pc = "eastatus"]
      /\ mg[m].finalizer
  BY DEF ApplyExternalArtifact, At, TypeOK, FinalizerInv, PassKeepsFinalizer, Publishing
<1>1. PassKnowsOwned(m) /\ PassKeepsStored(m)
  BY DEF OwnPart
<1>2. PICK n \in pass[m].cur : ea' = [ea EXCEPT ![n].exists = TRUE, ![n].owner = {m}]
  BY DEF ApplyExternalArtifact
<1>3. pass[m].cur = {n} /\ n \in Name /\ n \in pass[m].obj.spec.artifacts
  BY <1>0, <1>2, PassType DEF HistoryInv, History, PassInOrder, PassHoldsArtifacts
<1>4. /\ pass'[m].pc = "eastatus" /\ pass'[m].obj = pass[m].obj
      /\ pass'[m].eaRefs = pass[m].eaRefs /\ pass'[m].rev = pass[m].rev
      /\ pass'[m].cur = {n}
  <2>1. pass'[m] = [pass[m] EXCEPT !.pc = "eastatus"]
    BY <1>0 DEF TypeOK
  <2> QED BY <1>0, <1>3, <2>1 DEF Pass
<1>5. /\ ea'[n].owner = {m}
      /\ \A x \in Name \ {n} : ea'[x] = ea[x]
      /\ \A x \in Name : ea'[x].content = ea[x].content
  BY <1>2, <1>3 DEF TypeOK, EA
<1>6. Owned(m)' = Owned(m) \cup {n}
  BY <1>3, <1>5 DEF Owned
<1>7. PassKnowsOwned(m)'
  BY <1>0, <1>1, <1>3, <1>4, <1>6 DEF PassKnowsOwned, Reserved
<1>8. ASSUME NEW refs \in SUBSET Ref, Stored(refs)
      PROVE  \A r \in refs : ea'[r.name].content = r.content /\ r.content \in files'[r.name]
  BY <1>0, <1>5, <1>8 DEF Stored, Ref
<1>9. mg[m].status.inventory \in SUBSET Ref /\ pass[m].eaRefs \in SUBSET Ref
  BY PassType DEF TypeOK, Object, Status
<1>10. Digest(m)' = Digest(m)
  BY <1>4 DEF Digest
<1>11. PassKeepsStored(m)'
  BY <1>0, <1>1, <1>4, <1>8, <1>9, <1>10 DEF PassKeepsStored, Stored
<1> QED BY <1>7, <1>11 DEF OwnPart

(* While a pass works on a live object, the object is not shown as Ready.  *)
LEMMA WorkingIsNotReady ==
    ASSUME TypeOK, FinalizerInv, NEW m \in MG, CalmPart(m),
           pass[m].pc \in {"observe", "prepare", "build", "apply", "eastatus",
                           "clean", "cleanea"}
    PROVE  mg[m].exists /\ ~mg[m].deleting => mg[m].conditions.ready.status = "Unknown"
<1> SUFFICES ASSUME mg[m].exists, ~mg[m].deleting
             PROVE  mg[m].conditions.ready.status = "Unknown"
  OBVIOUS
<1>1. ~pass[m].obj.deleting
  BY DEF FinalizerInv, PassKeepsFinalizer
<1>2. /\ pass[m].obj.conditions.ready.status = "Unknown"
      /\ pass[m].obj.conditions = pass[m].before.conditions
  BY <1>1 DEF CalmPart, PassIsConsistent, Publishing
<1>3. pass[m].before.conditions = mg[m].conditions
  BY DEF CalmPart, PassIsCurrent
<1> QED BY <1>2, <1>3

(* The status patch of an ExternalArtifact completes what m owns.          *)
LEMMA PublishOwns ==
    ASSUME TypeOK, FinalizerInv, HistoryInv, NEW m \in MG, CalmPart(m), OwnPart(m),
           PassHoldsArtifacts(m), PatchExternalArtifactStatus(m)
    PROVE  OwnPart(m)'
<1>0. /\ pass[m] \in Pass /\ pass[m].cur \in SUBSET Name /\ pass[m].eaRefs \in SUBSET Ref
      /\ pass[m].pc = "eastatus" /\ UNCHANGED <<mg, files>>
      /\ pass[m].obj.spec.artifacts \subseteq Name
  BY PassType DEF TypeOK, PatchExternalArtifactStatus, At
<1>1. PassKnowsOwned(m) /\ PassKeepsStored(m)
  BY DEF OwnPart
<1>2. PICK n \in pass[m].cur :
        LET refs == pass[m].eaRefs \cup {[name |-> n, content |-> Digest(m)]}
            todo == pass[m].todo \ {n}
        IN  /\ ea' = [ea EXCEPT ![n].content = Digest(m)]
            /\ pass' = [pass EXCEPT
                  ![m].pc = IF todo = {} THEN "clean" ELSE "build",
                  ![m].cur = {}, ![m].todo = todo, ![m].eaRefs = refs,
                  ![m].orphans = IF todo = {}
                      THEN FindOrphanedReferences(pass[m].obj.status.inventory, refs)
                      ELSE {}]
  BY Zenon DEF PatchExternalArtifactStatus
<1> DEFINE refs == pass[m].eaRefs \cup {[name |-> n, content |-> Digest(m)]}
<1>3. /\ pass'[m].obj = pass[m].obj /\ pass'[m].rev = pass[m].rev
      /\ pass'[m].eaRefs = refs
      /\ \/ pass'[m].pc = "build"
         \/ /\ pass'[m].pc = "clean"
            /\ pass'[m].orphans =
                  FindOrphanedReferences(pass[m].obj.status.inventory, refs)
  BY <1>0, <1>2 DEF TypeOK, Pass
<1>4. Names(refs) = Names(pass[m].eaRefs) \cup {n}
  <2>1. \A r \in refs : r \in pass[m].eaRefs \/ r.name = n
    OBVIOUS
  <2>2. [name |-> n, content |-> Digest(m)].name = n
    OBVIOUS
  <2>3. n \in Names(refs)
    BY <2>2 DEF Names
  <2> QED BY <2>1, <2>3 DEF Names
<1>5. pass[m].cur = {n} /\ Digest(m) \in files[n]
  BY <1>0 DEF HistoryInv, History, PassInOrder, PassHoldsArtifacts
<1>6. /\ ea'[n].content = Digest(m)
      /\ \A x \in Name \ {n} : ea'[x] = ea[x]
      /\ \A x \in Name : ea'[x].owner = ea[x].owner
  BY <1>0, <1>2 DEF TypeOK, EA
<1>7. Owned(m)' = Owned(m) /\ Digest(m)' = Digest(m)
  BY <1>3, <1>6 DEF Owned, Digest
<1>8. Owned(m) = Names(pass[m].obj.status.inventory) \cup Names(refs)
  BY <1>0, <1>1, <1>4, <1>5 DEF PassKnowsOwned
<1> HIDE DEF refs
<1>9. PassKnowsOwned(m)'
  BY <1>0, <1>1, <1>3, <1>7, <1>8 DEF PassKnowsOwned, Reserved, FindOrphanedReferences
<1>10. \A r \in refs : /\ r.content = Digest(m)
                       /\ ea'[r.name].content = r.content /\ r.content \in files[r.name]
  BY <1>0, <1>1, <1>5, <1>6 DEF refs, PassKeepsStored, Stored, Ref
<1>11. mg[m].exists /\ ~mg[m].deleting => mg[m].conditions.ready.status = "Unknown"
  BY <1>0, WorkingIsNotReady
<1>12. PassKeepsStored(m)'
  BY <1>0, <1>3, <1>7, <1>10, <1>11 DEF PassKeepsStored, Stored
<1> QED BY <1>9, <1>12 DEF OwnPart

(* The orphan cleanup takes away what it knows to be the generator's, and  *)
(* nothing that the pass has published.                                    *)
LEMMA CleanOwns ==
    ASSUME TypeOK, FinalizerInv, HistoryInv, NEW m \in MG, CalmPart(m), OwnPart(m),
           PassHoldsArtifacts(m), CleanStorage(m) \/ CleanExternalArtifact(m)
    PROVE  OwnPart(m)'
<1> DEFINE p == pass[m]
<1>0. /\ p \in Pass /\ p.pc \in {"clean", "cleanea"} /\ mg' = mg
      /\ p.orphans \in SUBSET Name /\ p.cur \in SUBSET Name /\ p.eaRefs \in SUBSET Ref
  BY PassType DEF TypeOK, CleanStorage, CleanExternalArtifact, At
<1>1. PassKnowsOwned(m) /\ PassKeepsStored(m)
  BY DEF OwnPart
<1>2. Names(p.eaRefs) \cap (p.orphans \cup p.cur) = {}
  <2>1. CASE p.obj.deleting
    BY <2>1, EmptyNames DEF PassHoldsArtifacts
  <2>2. CASE ~p.obj.deleting
    BY <1>0, <2>2 DEF PassHoldsArtifacts
  <2> QED BY <2>1, <2>2
<1>3. mg[m].exists /\ ~mg[m].deleting => mg[m].conditions.ready.status = "Unknown"
  BY <1>0, WorkingIsNotReady
<1>4. \A r \in p.eaRefs : r.name \notin p.orphans /\ r.name \notin p.cur /\ r.name \in Name
  BY <1>0, <1>2 DEF Names, Ref
<1>5. Owned(m) = Names(p.eaRefs) \cup p.orphans
  BY <1>0, <1>1 DEF PassKnowsOwned
<1>6. CASE CleanStorage(m)
  <2>1. PICK n \in p.orphans :
           /\ files' = [files EXCEPT ![n] = {}]
           /\ pass' = [pass EXCEPT ![m].pc = "cleanea", ![m].cur = {n}]
    BY <1>6 DEF CleanStorage
  <2>2. /\ pass'[m].pc = "cleanea" /\ pass'[m].cur = {n} /\ pass'[m].obj = p.obj
        /\ pass'[m].eaRefs = p.eaRefs /\ pass'[m].orphans = p.orphans
        /\ pass'[m].rev = p.rev
    BY <1>0, <2>1 DEF TypeOK, Pass
  <2>3. ea' = ea /\ \A x \in Name \ {n} : files'[x] = files[x]
    BY <1>6, <2>1 DEF CleanStorage, TypeOK
  <2>4. Owned(m)' = Owned(m) /\ Digest(m)' = Digest(m)
    BY <2>2, <2>3, UnchangedOwned DEF Digest
  <2>5. PassKnowsOwned(m)'
    BY <1>0, <1>1, <1>5, <2>2, <2>4 DEF PassKnowsOwned, Reserved
  <2>6. PassKeepsStored(m)'
    BY <1>0, <1>1, <1>3, <1>4, <2>2, <2>3, <2>4 DEF PassKeepsStored, Stored
  <2> QED BY <2>5, <2>6 DEF OwnPart
<1>7. CASE CleanExternalArtifact(m)
  <2>1. /\ p.pc = "cleanea" /\ files' = files
        /\ ea' = [n \in Name |-> IF n \in p.cur THEN NoEA ELSE ea[n]]
        /\ pass' = [pass EXCEPT ![m].pc = "clean", ![m].cur = {},
                                ![m].orphans = p.orphans \ p.cur]
    BY <1>7 DEF CleanExternalArtifact, CleanNext, At
  <2>2. /\ pass'[m].pc = "clean" /\ pass'[m].obj = p.obj
        /\ pass'[m].eaRefs = p.eaRefs /\ pass'[m].orphans = p.orphans \ p.cur
        /\ pass'[m].rev = p.rev
    BY <1>0, <2>1 DEF TypeOK, Pass
  <2>3. Owned(m)' = Owned(m) \ p.cur /\ Digest(m)' = Digest(m)
    BY <2>1, <2>2 DEF Owned, Digest, NoEA
  <2>4. Owned(m) \ p.cur = Names(p.eaRefs) \cup (p.orphans \ p.cur)
    BY <1>2, <1>5
  <2>5. PassKnowsOwned(m)'
    BY <1>0, <1>1, <2>2, <2>3, <2>4 DEF PassKnowsOwned, Reserved
  <2>6. PassKeepsStored(m)'
    BY <1>0, <1>1, <1>3, <1>4, <2>1, <2>2, <2>3 DEF PassKeepsStored, Stored
  <2> QED BY <2>5, <2>6 DEF OwnPart
<1> QED BY <1>6, <1>7

(* The pass comes to its end with what the generator owns in its object.   *)
LEMMA ReturnsOwned ==
    ASSUME TypeOK, FinalizerInv, HistoryInv, NEW m \in MG, CalmPart(m), OwnPart(m),
           UNCHANGED <<mg, ea>>,
           pass[m].pc \in {"observe", "clean"},
           NEW obj \in Object, NEW outcome, Return(m, obj, outcome),
           obj.spec = pass[m].obj.spec,
           IF obj.finalizer THEN obj.status.inventory = Served(m) ELSE Owned(m) = {},
           \/ obj.status = pass[m].obj.status
           \/ \A n \in Owned(m) : ea[n].content.by = {m} /\ ea[n].content.gen = obj.gen,
           ~obj.deleting /\ obj.conditions.ready.status = "True" =>
              \A r \in obj.status.inventory :
                 ea[r.name].content = r.content /\ r.content \in files'[r.name]
    PROVE  OwnPart(m)'
<1>1. pass'[m] = [Idle EXCEPT !.pc = "summarize", !.obj = obj,
                     !.before = pass[m].before, !.outcome = outcome,
                     !.expired = pass[m].expired]
  BY DEF Return, TypeOK
<1>2. /\ pass'[m].pc = "summarize" /\ pass'[m].obj = obj
      /\ pass'[m].before = pass[m].before /\ pass'[m].eaRefs = {}
  BY <1>1 DEF Idle
<1>3. pass[m].obj.status = pass[m].before.status
  BY DEF HistoryInv, History, PassInOrder
<1>4. Owned(m)' = Owned(m) /\ Served(m)' = Served(m)
  BY UnchangedOwned
<1>5. mg[m].exists /\ ~mg[m].deleting => mg[m].conditions.ready.status = "Unknown"
  BY WorkingIsNotReady
<1>6. PassKnowsOwned(m)'
  BY <1>2, <1>3, <1>4 DEF OwnPart, PassKnowsOwned, Reserved
<1>7. PassKeepsStored(m)'
  BY <1>2, <1>5 DEF PassKeepsStored, Stored
<1> QED BY <1>6, <1>7 DEF OwnPart

(* The sources are not ready: nothing has changed.                         *)
LEMMA NotReadyOwns ==
    ASSUME TypeOK, FinalizerInv, HistoryInv, NEW m \in MG, CalmPart(m), OwnPart(m),
           SourcesNotReady(m)
    PROVE  OwnPart(m)'
<1> DEFINE o == pass[m].obj
<1>1. /\ UNCHANGED <<mg, ea>> /\ pass[m].pc = "observe" /\ o \in Object
      /\ o.finalizer /\ o.status.inventory = Served(m)
  BY PassType DEF SourcesNotReady, At, FinalizerInv, PassKeepsFinalizer, Publishing,
                  OwnPart, PassKnowsOwned
<1>2. PICK f : f = MarkReady(o, "False")
  OBVIOUS
<1>3. /\ SameWork(MarkReady(o, "False"), o) /\ MarkReady(o, "False").finalizer = o.finalizer
      /\ MarkReady(o, "False").conditions.ready.status = "False"
      /\ MarkReady(o, "False") \in Object
  <2>1. MarkReady(o, "False") \in Object
    BY <1>1, MarkType
  <2>2. /\ SameWork(MarkReady(o, "False"), o) /\ MarkReady(o, "False").finalizer = o.finalizer
        /\ Shows(MarkReady(o, "False"), "False", o.gen, o.conditions.reconciling,
                 o.conditions.stalled)
    BY <1>1, MarkReadySets
  <2>3. MarkReady(o, "False").conditions.ready.status = "False"
    BY <2>2 DEF Shows
  <2> QED BY <2>1, <2>2, <2>3
<1>4. /\ f \in Object /\ f.spec = o.spec /\ f.status = o.status /\ f.finalizer
      /\ f.conditions.ready.status = "False"
  BY <1>1, <1>2, <1>3 DEF SameWork
<1>5. Return(m, f, "retry")
  BY <1>2 DEF SourcesNotReady, Failed
<1> QED BY <1>1, <1>4, <1>5, ReturnsOwned

(* Without orphans, what the pass has published is all there is.           *)
LEMMA CompleteOwns ==
    ASSUME TypeOK, FinalizerInv, HistoryInv, NEW m \in MG, CalmPart(m), OwnPart(m),
           PassHoldsArtifacts(m), Complete(m)
    PROVE  OwnPart(m)'
<1> DEFINE o == pass[m].obj
           refs == pass[m].eaRefs
<1>1. PICK s : s = Succeeded(o, refs)
  OBVIOUS
<1>2. /\ UNCHANGED <<mg, ea>> /\ pass[m].pc = "clean" /\ ~o.deleting
      /\ o \in Object /\ refs \in SUBSET Ref /\ pass[m].orphans = {}
      /\ Return(m, s, "interval")
  BY <1>1, PassType DEF Complete, At
<1>3. o.finalizer
  BY <1>2, WorksGuarded
<1>4. /\ s \in Object /\ s.gen = o.gen /\ s.spec = o.spec /\ s.finalizer
      /\ s.status.inventory = refs
  <2>1. LET t == Succeeded(o, refs) IN
          /\ t \in Object /\ t.gen = o.gen /\ t.spec = o.spec
          /\ t.finalizer = o.finalizer /\ t.status.inventory = refs
    BY <1>2, SucceededSets
  <2> QED BY <1>1, <1>3, <2>1
<1>5. /\ Stored(refs) /\ \A r \in refs : r.content = Digest(m)
      /\ Owned(m) = Names(refs)
  BY <1>2 DEF OwnPart, PassKnowsOwned, PassKeepsStored
<1>6. refs = Served(m)
  <2>1. ASSUME NEW r \in refs PROVE r \in Served(m)
    <3>1. r = [name |-> r.name, content |-> r.content] /\ r.name \in Owned(m)
      BY <1>2, <1>5 DEF Ref, Names
    <3>2. r.content = ea[r.name].content
      BY <1>5 DEF Stored
    <3> QED BY <3>1, <3>2 DEF Served
  <2>2. ASSUME NEW x \in Served(m) PROVE x \in refs
    <3>1. PICK n \in Owned(m) : x = [name |-> n, content |-> ea[n].content]
      BY DEF Served
    <3>2. PICK r \in refs : r.name = n
      BY <1>5 DEF Names
    <3>3. r = [name |-> r.name, content |-> r.content] /\ r.content = ea[n].content
      BY <1>2, <1>5, <3>2 DEF Ref, Stored
    <3> QED BY <3>1, <3>2, <3>3
  <2> QED BY <2>1, <2>2
<1>7. \A n \in Owned(m) : ea[n].content.by = {m} /\ ea[n].content.gen = s.gen
  <2>1. ASSUME NEW n \in Owned(m) PROVE ea[n].content = Digest(m)
    BY <1>5 DEF Names, Stored
  <2> QED BY <1>4, <2>1 DEF Digest
<1>8. \A r \in refs : ea[r.name].content = r.content /\ r.content \in files'[r.name]
  <2>1. \A x \in Name : files[x] \cap {Digest(m)} \subseteq files'[x]
    BY DEF Complete, GarbageCollect
  <2> QED BY <1>2, <1>5, <2>1 DEF Stored, Ref
<1> QED BY <1>2, <1>4, <1>6, <1>7, <1>8, ReturnsOwned

(* The finalizer goes when nothing is left.                                *)
LEMMA RemoveFinalizerOwns ==
    ASSUME TypeOK, FinalizerInv, HistoryInv, NEW m \in MG, CalmPart(m), OwnPart(m),
           PassHoldsArtifacts(m), RemoveFinalizer(m)
    PROVE  OwnPart(m)'
<1> DEFINE o == pass[m].obj
<1>1. PICK f : f = [o EXCEPT !.finalizer = FALSE]
  OBVIOUS
<1>2. /\ UNCHANGED <<mg, ea>> /\ pass[m].pc = "clean" /\ o.deleting /\ o \in Object
      /\ pass[m].orphans = {} /\ pass[m].eaRefs = {}
      /\ Return(m, f, "stop")
  BY <1>1, PassType DEF RemoveFinalizer, At, PassHoldsArtifacts
<1>3. /\ f \in Object /\ f.spec = o.spec /\ f.status = o.status
      /\ f.deleting = o.deleting /\ ~f.finalizer
  BY <1>1, <1>2 DEF Object
<1>4. Owned(m) = {}
  BY <1>2, EmptyNames DEF OwnPart, PassKnowsOwned
<1> QED BY <1>2, <1>3, <1>4, ReturnsOwned

(* The inventory is written.                                               *)
LEMMA SummarizeOwns ==
    ASSUME TypeOK, FinalizerInv, HistoryInv, NEW m \in MG, CalmPart(m), OwnPart(m),
           Summarize(m) \/ SummarizeGone(m)
    PROVE  OwnPart(m)'
<1>0. /\ UNCHANGED <<ea, files>> /\ pass[m].pc = "summarize"
      /\ pass'[m].pc = "idle" /\ pass'[m].eaRefs = {}
      /\ pass[m].obj.finalizer = ~pass[m].obj.deleting
      /\ Owned(m)' = Owned(m) /\ Served(m)' = Served(m)
  <2>1. UNCHANGED <<ea, files>> /\ pass[m].pc = "summarize" /\ pass'[m] = Idle
    BY DEF Summarize, SummarizeGone, At, TypeOK
  <2>2. Idle.pc = "idle" /\ Idle.eaRefs = {}
    BY DEF Idle
  <2> QED BY <2>1, <2>2, UnchangedOwned DEF CalmPart, PassIsCurrent
<1>1. PassKnowsOwned(m) /\ PassKeepsStored(m)
  BY DEF OwnPart
<1>2. CASE SummarizeGone(m)
  <2>1. mg' = mg /\ ~mg[m].exists
    BY <1>2 DEF SummarizeGone
  <2>2. ~mg[m].finalizer
    <3>1. mg[m] = Absent(mg[m].gen, mg[m].gen # 0)
      BY <2>1 DEF HistoryInv, History, GoneIsEmpty
    <3>2. ~Absent(mg[m].gen, mg[m].gen # 0).finalizer
      BY AbsentFields
    <3> QED BY <3>1, <3>2
  <2>3. Owned(m) = {}
    BY <1>1, <2>2 DEF PassKnowsOwned
  <2>4. PassKnowsOwned(m)'
    BY <1>0, <2>1, <2>3 DEF PassKnowsOwned
  <2>5. PassKeepsStored(m)'
    BY <1>0, <2>1 DEF PassKeepsStored, Stored
  <2> QED BY <2>4, <2>5 DEF OwnPart
<1>3. PICK o, s : o = pass[m].obj /\ s = Summary(o)
  OBVIOUS
<1>4. CASE Summarize(m) /\ ~o.finalizer
  <2>1. mg'[m] = Absent(mg[m].gen, TRUE)
    BY <1>3, <1>4, SummaryPatches
  <2>2. ~mg'[m].exists
    BY <2>1 DEF Absent
  <2>3. Owned(m) = {}
    BY <1>0, <1>1, <1>3, <1>4 DEF PassKnowsOwned
  <2>4. PassKnowsOwned(m)'
    BY <1>0, <2>2, <2>3 DEF PassKnowsOwned
  <2>5. PassKeepsStored(m)'
    BY <1>0, <2>2 DEF PassKeepsStored, Stored
  <2> QED BY <2>4, <2>5 DEF OwnPart
<1>5. CASE Summarize(m) /\ o.finalizer
  <2>1. /\ mg'[m].exists /\ mg'[m].finalizer
        /\ mg'[m].conditions = s.conditions /\ mg'[m].status = s.status
    BY <1>3, <1>5, SummaryPatches
  <2>2. o \in Object
    BY <1>3, PassType
  <2>3. /\ s.conditions.ready = o.conditions.ready
        /\ s.status.inventory = o.status.inventory
    BY <1>3, <2>2, SummarySets
  <2>4. o.status.inventory = Served(m)
    BY <1>0, <1>1, <1>3, <1>5 DEF PassKnowsOwned
  <2>5. PassKnowsOwned(m)'
    BY <1>0, <2>1, <2>3, <2>4, ServedNames DEF PassKnowsOwned, Reserved
  <2>6. PassKeepsStored(m)'
    BY <1>0, <1>1, <1>3, <1>5, <2>1, <2>3 DEF PassKeepsStored, Stored
  <2> QED BY <2>5, <2>6 DEF OwnPart
<1> QED BY <1>2, <1>4, <1>5

(* An ExternalArtifact does not vanish between its apply and its status    *)
(* patch.                                                                  *)
LEMMA NeverGone ==
    ASSUME TypeOK, HistoryInv, NEW m \in MG, PassHoldsArtifacts(m), LabelsExist,
           ExternalArtifactChanged(m)
    PROVE  FALSE
<1>1. pass[m].pc = "eastatus" /\ pass[m].cur \in SUBSET Name
  BY PassType DEF ExternalArtifactChanged, At
<1>2. PICK n \in Name : pass[m].cur = {n}
  BY <1>1 DEF HistoryInv, History, PassInOrder
<1>3. ea[n].owner = {m} /\ ~ea[n].exists
  BY <1>1, <1>2 DEF PassHoldsArtifacts, ExternalArtifactChanged
<1> QED BY <1>3 DEF LabelsExist

(* Every step of the pass of m.                                            *)
LEMMA WorkOwns ==
    ASSUME TypeOK, FinalizerInv, HistoryInv, NEW m \in MG, CalmPart(m), OwnPart(m),
           PassHoldsArtifacts(m), LabelsExist, Work(m)
    PROVE  OwnPart(m)'
BY PreparingOwns, NotReadyOwns, BuildOwns, ApplyOwns, PublishOwns, NeverGone, CleanOwns,
   CompleteOwns, RemoveFinalizerOwns, SummarizeOwns DEF Work

(* Labels are put on objects that exist, and go with them.                 *)
LEMMA NextLabels ==
    ASSUME TypeOK, LabelsExist, [Next]_vars
    PROVE  LabelsExist'
<1>1. CASE ea' = ea
  BY <1>1 DEF LabelsExist
<1>2. ASSUME NEW k \in MG, ApplyExternalArtifact(k) PROVE LabelsExist'
  <2>1. PICK n \in pass[k].cur : ea' = [ea EXCEPT ![n].exists = TRUE, ![n].owner = {k}]
    BY <1>2 DEF ApplyExternalArtifact
  <2>2. /\ \A x \in Name \ {n} : ea'[x] = ea[x]
        /\ n \in Name => ea'[n].exists
    BY <2>1 DEF TypeOK, EA
  <2> QED BY <2>2 DEF LabelsExist
<1>3. ASSUME NEW k \in MG, PatchExternalArtifactStatus(k) PROVE LabelsExist'
  <2>1. \E n \in pass[k].cur : \E c : ea' = [ea EXCEPT ![n].content = c]
    BY <1>3, Zenon DEF PatchExternalArtifactStatus
  <2> QED BY <2>1 DEF LabelsExist, TypeOK, EA
<1>4. ASSUME NEW k \in MG, CleanExternalArtifact(k) PROVE LabelsExist'
  BY <1>4 DEF CleanExternalArtifact, LabelsExist, NoEA
<1>5. ASSUME NEW k \in MG,
             \/ User(k) \/ DeliverManifestGenerator(k)
             \/ RetryTimerFires(k) \/ IntervalTimerFires(k) \/ Start(k)
             \/ Fails(k) \/ TimeoutExpires(k)
      PROVE  ea' = ea
  BY <1>5 DEF User, Create, EditSpec, Annotate, Request, Delete, UNCHANGED_Controller,
              DeliverManifestGenerator, RetryTimerFires, IntervalTimerFires, TimerFires,
              Start, StartGone, StartFinalize, StartAddFinalizer, StartDisabled, StartInvalid,
              StartReconcile, Begin, Take, TimeoutExpires, Fails, StartTmpDirFails,
              PatchProgressFails, PrepareFails, BuildFails, ExternalArtifactFails,
              CleanStorageFails, CleanExternalArtifactFails, SummarizeFails, CompleteSlowly,
              BuildCollides, Panic
<1>6. ASSUME NEW k \in MG,
             \/ PatchProgress(k) \/ ObserveSources(k) \/ SourcesNotReady(k) \/ Prepare(k)
             \/ Build(k) \/ ExternalArtifactChanged(k) \/ CleanStorage(k) \/ Complete(k)
             \/ RemoveFinalizer(k) \/ Summarize(k) \/ SummarizeGone(k)
      PROVE  ea' = ea
  BY <1>6 DEF PatchProgress, ObserveSources, SourcesNotReady, Prepare, Build,
              ExternalArtifactChanged, CleanStorage, Complete, RemoveFinalizer, Summarize,
              SummarizeGone
<1>7. CASE SourceChange \/ DeliverSource \/ Restart("crash") \/ Restart("podloss") \/ UNCHANGED vars
  BY <1>1, <1>7 DEF SourceChange, DeliverSource, Restart, UNCHANGED_Controller, vars
<1> QED BY <1>1, <1>2, <1>3, <1>4, <1>5, <1>6, <1>7 DEF Next, Work

(* A pass puts no label but its own.                                       *)
LEMMA LabelsItsOwn ==
    ASSUME TypeOK, NEW k \in MG, Work(k), NEW x \in Name
    PROVE  ea'[x].owner \subseteq ea[x].owner \cup {k}
<1>1. CASE ApplyExternalArtifact(k)
  <2>1. PICK n \in pass[k].cur : ea' = [ea EXCEPT ![n].exists = TRUE, ![n].owner = {k}]
    BY <1>1 DEF ApplyExternalArtifact
  <2>2. x # n => ea'[x] = ea[x]
    BY <2>1 DEF TypeOK
  <2>3. x = n => ea'[x].owner = {k}
    BY <2>1 DEF TypeOK, EA
  <2> QED BY <2>2, <2>3
<1>2. CASE PatchExternalArtifactStatus(k)
  <2>1. \E n \in pass[k].cur : \E c : ea' = [ea EXCEPT ![n].content = c]
    BY <1>2, Zenon DEF PatchExternalArtifactStatus
  <2> QED BY <2>1 DEF TypeOK, EA
<1>3. CASE CleanExternalArtifact(k)
  BY <1>3 DEF CleanExternalArtifact, NoEA
<1>4. CASE \/ PatchProgress(k) \/ ObserveSources(k) \/ SourcesNotReady(k) \/ Prepare(k)
           \/ Build(k) \/ ExternalArtifactChanged(k) \/ CleanStorage(k) \/ Complete(k)
           \/ RemoveFinalizer(k) \/ Summarize(k) \/ SummarizeGone(k)
  BY <1>4 DEF PatchProgress, ObserveSources, SourcesNotReady, Prepare, Build,
              ExternalArtifactChanged, CleanStorage, Complete, RemoveFinalizer, Summarize,
              SummarizeGone
<1> QED BY <1>1, <1>2, <1>3, <1>4 DEF Work

(* A step of another pass, which is at none of the names of this one.      *)
LEMMA NeighbourOwns ==
    ASSUME TypeOK, NEW m \in MG, NEW k \in MG \ {m}, OwnPart(m), CalmPart(m),
           PassHoldsArtifacts(m), Reserved(m) \cap Touches(k) = {}, Work(k)
    PROVE  OwnPart(m)'
<1>1. pass'[m] = pass[m]
  BY OtherPass
<1>2. mg'[m] = mg[m]
  BY DEF Work, PatchProgress, ObserveSources, SourcesNotReady, Prepare, Build,
         ApplyExternalArtifact, PatchExternalArtifactStatus, ExternalArtifactChanged,
         CleanStorage, CleanExternalArtifact, Complete, RemoveFinalizer, Summarize,
         SummarizeGone, TypeOK
<1>3. Reserved(m) \subseteq Name
  <2>1. mg[m].status.inventory \in SUBSET Ref
    BY DEF TypeOK, Object, Status
  <2> QED BY <2>1, NamesType, PassType DEF Reserved
<1>4. \A x \in Reserved(m) : ea'[x] = ea[x] /\ files'[x] = files[x]
  BY <1>3, TouchesOwn
<1>5. \A x \in Name : m \in ea'[x].owner => m \in ea[x].owner
  BY LabelsItsOwn
<1> QED BY <1>1, <1>2, <1>4, <1>5, OtherOwns

(* Every step while nothing fails and generators keep to themselves.       *)
LEMMA NextOwnership ==
    /\ TypeOK /\ FinalizerInv /\ HistoryInv /\ PublishingInv /\ Calm /\ Calm' /\ Exclusive
    /\ CalmInv /\ OwnershipInv /\ [Next]_vars
    => OwnershipInv'
<1> SUFFICES ASSUME TypeOK, FinalizerInv, HistoryInv, PublishingInv, Calm, Calm', Exclusive,
                    CalmInv, OwnershipInv, [Next]_vars
             PROVE  OwnershipInv'
  OBVIOUS
<1>1. LabelsExist'
  BY NextLabels DEF OwnershipInv, LabelsExist
<1> SUFFICES ASSUME NEW m \in MG PROVE OwnPart(m)'
  BY <1>1 DEF OwnershipInv, OwnPart, LabelsExist
<1>0. /\ CalmPart(m) /\ OwnPart(m) /\ PassHoldsArtifacts(m) /\ LabelsExist
      /\ \A k \in MG : ~pass[k].expired
  BY DEF CalmInv, CalmPart, PassIsCurrent, OwnershipInv, OwnPart, PublishingInv, LabelsExist
<1>2. ASSUME UNCHANGED <<ea, files>>, mg'[m] = mg[m], pass'[m] = pass[m]
      PROVE  OwnPart(m)'
  BY <1>0, <1>2, OtherOwns
<1>3. CASE \/ UNCHANGED vars \/ SourceChange \/ DeliverSource
           \/ \E k \in MG : \/ DeliverManifestGenerator(k)
                            \/ RetryTimerFires(k) \/ IntervalTimerFires(k)
  BY <1>2, <1>3 DEF vars, SourceChange, DeliverSource, UNCHANGED_Controller,
                    DeliverManifestGenerator, RetryTimerFires, IntervalTimerFires, TimerFires
<1>4. ASSUME NEW k \in MG, User(k) PROVE OwnPart(m)'
  <2>1. CASE k = m
    BY <1>0, <1>4, <2>1, UserOwns
  <2>2. CASE k # m
    BY <1>2, <1>4, <2>2 DEF User, Create, EditSpec, Annotate, Request, Delete,
                            UNCHANGED_Controller, TypeOK
  <2> QED BY <2>1, <2>2
<1>5. ASSUME NEW k \in MG, Start(k) PROVE OwnPart(m)'
  <2>1. CASE k = m
    BY <1>0, <1>5, <2>1, StartOwns
  <2>2. CASE k # m
    BY <1>2, <1>5, <2>2, BeginsCurrent
  <2> QED BY <2>1, <2>2
<1>6. ASSUME NEW k \in MG, Work(k) PROVE OwnPart(m)'
  <2>1. CASE k = m
    BY <1>0, <1>6, <2>1, WorkOwns
  <2>2. CASE k # m
    BY <1>0, <1>6, <2>2, NeighbourOwns DEF Exclusive
  <2> QED BY <2>1, <2>2
<1> QED BY <1>0, <1>3, <1>4, <1>5, <1>6, CalmSteps

(* In a new world nobody owns anything.                                    *)
LEMMA InitOwnership == Init => OwnershipInv
<1> SUFFICES ASSUME Init PROVE OwnershipInv
  OBVIOUS
<1>1. LabelsExist /\ \A m \in MG : Owned(m) = {}
  BY DEF Init, LabelsExist, Owned, NoEA
<1>2. ASSUME NEW m \in MG PROVE OwnPart(m)
  <2>1. mg[m] = Absent(0, FALSE) /\ pass[m] = Idle
    BY DEF Init
  <2>2. ~mg[m].exists /\ pass[m].pc = "idle" /\ pass[m].eaRefs = {}
    BY <2>1 DEF Absent, Idle
  <2> QED BY <1>1, <2>2 DEF OwnPart, PassKnowsOwned, PassKeepsStored, Stored
<1> QED BY <1>1, <1>2 DEF OwnershipInv, OwnPart, LabelsExist

(* Generators that keep to themselves do not contend.                      *)
LEMMA ExclusiveUncontended == Exclusive => Uncontended
BY DEF Exclusive, Reserved, Uncontended

(* As long as nothing fails and no generator is at another's names, it is  *)
(* known at every step of a pass what the generator owns, although its     *)
(* inventory is written only at the end, and all of it is served.          *)
THEOREM LifecycleInvariant == Spec /\ []Calm /\ []Exclusive => []LifecycleInv
<1>1. Spec => []TypeOK
  BY TypeCorrect
<1>2. Spec /\ []Exclusive => []PublishingInv
  BY ExclusiveUncontended, PublishingInvariant, PTL
<1>3. Spec /\ []Calm /\ []Exclusive => []OwnershipInv
  BY <1>1, <1>2, InitOwnership, NextOwnership, CalmInvariant, FinalizerInvariant,
     HistoryInvariant, PTL DEF Spec
<1>4. CalmInv /\ OwnershipInv => LifecycleInv
  BY DEF LifecycleInv
<1> QED BY <1>3, <1>4, CalmInvariant, PTL

(* The finalizer is held until nothing is left.                            *)
THEOREM FinalizersGuardArtifacts ==
    Spec /\ []Calm /\ []Exclusive => []FinalizerGuardsArtifacts
<1>1. HistoryInv /\ LifecycleInv => FinalizerGuardsArtifacts
  <2> SUFFICES ASSUME HistoryInv, LifecycleInv, NEW m \in MG, ~mg[m].exists
               PROVE  Owned(m) = {}
    BY DEF FinalizerGuardsArtifacts
  <2>1. mg[m] = Absent(mg[m].gen, mg[m].gen # 0)
    BY DEF HistoryInv, History, GoneIsEmpty
  <2>2. ~Absent(mg[m].gen, mg[m].gen # 0).finalizer
    BY AbsentFields
  <2>3. ~mg[m].finalizer
    BY <2>1, <2>2
  <2> QED BY <2>3 DEF LifecycleInv, OwnershipInv, PassKnowsOwned
<1> QED BY <1>1, HistoryInvariant, LifecycleInvariant, PTL

(* Between passes the inventory is what the generator owns and serves.     *)
THEOREM InventoriesAreOwned == Spec /\ []Calm /\ []Exclusive => []InventoryIsOwned
<1>1. LifecycleInv => InventoryIsOwned
  BY DEF LifecycleInv, OwnershipInv, PassKnowsOwned, InventoryIsOwned, Served, At
<1> QED BY <1>1, LifecycleInvariant, PTL

(* What is shown as Ready can be downloaded, at every step of every pass.  *)
THEOREM ReadyAreServed == Spec /\ []Calm /\ []Exclusive => []ReadyIsServed
<1>1. LifecycleInv => ReadyIsServed
  BY DEF LifecycleInv, OwnershipInv, PassKeepsStored, ReadyIsServed
<1> QED BY <1>1, LifecycleInvariant, PTL

(* A namespace with one ManifestGenerator, where nothing fails.            *)
THEOREM AloneAndCalm ==
    ASSUME \A m, k \in MG : m = k, MaxFaults = 0, "stale" \notin Env
    PROVE  Spec => [](/\ FinalizerGuardsArtifacts /\ InventoryIsOwned
                      /\ ConditionsConsistent /\ ReadyIsServed /\ ParkedIsAccounted)
<1>1. Exclusive
  BY DEF Exclusive
<1>2. TypeOK => Calm
  BY DEF TypeOK, Calm
<1>3. Spec => []TypeOK
  BY TypeCorrect
<1> QED BY <1>1, <1>2, <1>3, FinalizersGuardArtifacts, InventoriesAreOwned,
           ConditionsAreConsistent, ReadyAreServed, ParkedAreAccounted, PTL
=============================================================================
