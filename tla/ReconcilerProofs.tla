-------------------------- MODULE ReconcilerProofs --------------------------
(***************************************************************************)
(* What the reconcile loop keeps whatever is stale, fails or restarts: the  *)
(* types, what a pass believes of the finalizer (FinalizerInv), and that    *)
(* nothing it records or publishes goes backwards (HistoryInv).  For any    *)
(* sets of ManifestGenerators and artifact names, any environment and any   *)
(* bounds.                                                                  *)
(***************************************************************************)
EXTENDS Reconciler, TLAPS

-----------------------------------------------------------------------------
(* What the operators on objects return.                                   *)

(* Zero is a generation and a revision.                                    *)
LEMMA ZeroType == 0 \in Gen /\ 0 \in Rev /\ 0 \in 0 .. MaxReq
BY BoundsAssumption DEF Gen, Rev

(* An absent object is an object of the API.                               *)
LEMMA AbsentType ==
    ASSUME NEW g \in Gen, NEW d \in BOOLEAN
    PROVE  Absent(g, d) \in Object
BY BoundsAssumption
   DEF Absent, Object, Annotation, MGSpec, NoSpec, Verdict, Conditions, NoConditions, Status, NoStatus, Gen

(* Taking a finished deletion out of the API keeps the type.               *)
LEMMA ReapType ==
    ASSUME NEW o \in Object
    PROVE  Reap(o) \in Object
<1>1. o.gen \in Gen /\ TRUE \in BOOLEAN
  BY DEF Object
<1> QED BY <1>1, AbsentType DEF Reap

(* The condition helpers keep the type.                                    *)
LEMMA MarkType ==
    ASSUME NEW o \in Object, NEW st \in {"Unknown", "True", "False"}
    PROVE  /\ MarkReady(o, st) \in Object
           /\ MarkReconciling(o) \in Object
           /\ MarkStalled(o) \in Object
<1>1. o.conditions \in Conditions /\ o.gen \in Gen
  BY DEF Object
<1>2. ASSUME NEW c \in Conditions
      PROVE  [o EXCEPT !.conditions = c] \in Object
  BY DEF Object
<1>3. [o.conditions EXCEPT !.ready = [status |-> st, gen |-> o.gen]] \in Conditions
  BY <1>1 DEF Conditions
<1>4. [o.conditions EXCEPT !.reconciling = o.gen, !.stalled = 0] \in Conditions
  BY <1>1, ZeroType DEF Conditions
<1>5. [o.conditions EXCEPT !.stalled = o.gen, !.reconciling = 0] \in Conditions
  BY <1>1, ZeroType DEF Conditions
<1>6. MarkReady(o, st) =
        [o EXCEPT !.conditions = [o.conditions EXCEPT !.ready = [status |-> st, gen |-> o.gen]]]
  BY DEF MarkReady, Object
<1>7. MarkReconciling(o) =
        [o EXCEPT !.conditions = [o.conditions EXCEPT !.reconciling = o.gen, !.stalled = 0]]
  BY DEF MarkReconciling, Object, Conditions
<1>8. MarkStalled(o) =
        [o EXCEPT !.conditions = [o.conditions EXCEPT !.stalled = o.gen, !.reconciling = 0]]
  BY DEF MarkStalled, Object, Conditions
<1> QED BY <1>2, <1>3, <1>4, <1>5, <1>6, <1>7, <1>8

(* addFinalizer returns an object of the API.                              *)
LEMMA AddFinalizerType ==
    ASSUME NEW o \in Object
    PROVE  AddFinalizer(o) \in Object
<1> DEFINE f == [o EXCEPT !.finalizer = TRUE]
<1>1. f \in Object BY DEF Object
<1> HIDE DEF f
<1>2. MarkReady(f, "True") \in Object BY <1>1, MarkType
<1>3. MarkReady(f, "Unknown") \in Object BY <1>1, MarkType
<1>4. MarkReconciling(MarkReady(f, "Unknown")) \in Object BY <1>3, MarkType
<1> QED BY <1>2, <1>4 DEF AddFinalizer, f

(* summarizeStatus keeps the type of the object it summarises.             *)
LEMMA SummaryType ==
    ASSUME NEW o \in Object
    PROVE  Summary(o) \in Object
<1> DEFINE h == IF o.requestedAt # 0 THEN o.requestedAt ELSE o.status.lastHandled
           r == IF o.conditions.ready.status = "True" \/ o.conditions.stalled # 0
                THEN 0 ELSE o.conditions.reconciling
<1>1. h \in 0 .. MaxReq /\ r \in Gen
  BY ZeroType DEF Object, Status, Conditions
<1>2. Summary(o) = [o EXCEPT !.status.lastHandled = h, !.conditions.reconciling = r]
  BY DEF Summary
<1> HIDE DEF h, r
<1>3. [o.status EXCEPT !.lastHandled = h] \in Status
  BY <1>1 DEF Object, Status
<1>4. [o.conditions EXCEPT !.reconciling = r] \in Conditions
  BY <1>1 DEF Object, Conditions
<1>5. Summary(o) = [o EXCEPT !.status = [o.status EXCEPT !.lastHandled = h],
                             !.conditions = [o.conditions EXCEPT !.reconciling = r]]
  BY <1>2 DEF Object
<1> QED BY <1>3, <1>4, <1>5 DEF Object

(* A successful pass records a generation and an inventory of the right type.*)
LEMMA SucceededType ==
    ASSUME NEW o \in Object, NEW refs \in SUBSET Ref
    PROVE  Succeeded(o, refs) \in Object
<1> DEFINE s == [o EXCEPT !.status.inventory = refs, !.status.observedGeneration = o.gen]
<1>1. s \in Object BY DEF Object, Status
<1> HIDE DEF s
<1>2. MarkReady(s, "True") \in Object BY <1>1, MarkType
<1> QED BY <1>2 DEF Succeeded, s

(* Whatever parts of a patch succeed, the object stays an object of the API.*)
LEMMA PatchedType ==
    ASSUME NEW before \in Object, NEW obj \in Object, NEW api \in Object, NEW parts
    PROVE  Patched(before, obj, api, parts) \in Object
<1>1. MergeConditions(before.conditions, obj.conditions, api.conditions) \in Conditions
  BY DEF MergeConditions, Merge, Conditions, Object
<1>2. MergeStatus(before.status, obj.status, api.status) \in Status
  BY DEF MergeStatus, Merge, Status, Object
<1>3. Merge(before.finalizer, obj.finalizer, api.finalizer) \in BOOLEAN
  BY Zenon DEF Merge, Object
<1>4. ASSUME NEW c \in Conditions, NEW f \in BOOLEAN, NEW s \in Status
      PROVE  [api EXCEPT !.conditions = c, !.finalizer = f, !.status = s] \in Object
  BY DEF Object
<1>5. api.conditions \in Conditions /\ api.finalizer \in BOOLEAN /\ api.status \in Status
  BY DEF Object
<1> QED BY <1>1, <1>2, <1>3, <1>4, <1>5, ReapType DEF Patched

(* The empty pass is a pass.                                               *)
LEMMA IdleType == Idle \in Pass
<1>1. FALSE \in BOOLEAN
  OBVIOUS
<1>2. Absent(0, FALSE) \in Object
  BY <1>1, AbsentType, ZeroType
<1> QED BY <1>2, ZeroType DEF Idle, Pass, PC, Outcome

-----------------------------------------------------------------------------
(* Type correctness.                                                       *)

(* The names of a set of references are artifact names.                    *)
LEMMA NamesType ==
    ASSUME NEW refs \in SUBSET Ref
    PROVE  Names(refs) \in SUBSET Name
BY DEF Names, Ref

(* An injected failure keeps the counter within its bound.                 *)
LEMMA FaultType ==
    ASSUME TypeOK, NEW kind, Fault(kind)
    PROVE  faults' \in 0 .. MaxFaults
BY BoundsAssumption DEF TypeOK, Fault

(* So does a failing call.                                                 *)
LEMMA CallFailsType ==
    ASSUME TypeOK, NEW m \in MG, NEW kind, CallFails(m, kind)
    PROVE  faults' \in 0 .. MaxFaults
BY FaultType DEF TypeOK, CallFails

(* The objects and locals of a pass have their types.                      *)
LEMMA PassType ==
    ASSUME TypeOK, NEW m \in MG
    PROVE  /\ pass[m].obj \in Object /\ pass[m].before \in Object
           /\ pass[m].eaRefs \in SUBSET Ref /\ pass[m].orphans \in SUBSET Name
           /\ pass[m].todo \in SUBSET Name /\ pass[m].cur \in SUBSET Name
           /\ pass[m].rev \in Rev /\ pass[m].outcome \in Outcome
           /\ pass[m].expired \in BOOLEAN
           /\ pass[m].obj.gen \in Gen /\ pass[m].obj.status.inventory \in SUBSET Ref
           /\ pass[m].obj.spec.artifacts \in SUBSET Name
           /\ Digest(m) \in Content
BY DEF TypeOK, Pass, Object, Status, MGSpec, Digest, Content

(* A pass that begins, and one that returns, is a pass.                    *)
LEMMA BeginType ==
    ASSUME TypeOK, NEW m \in MG, NEW pc \in PC, NEW obj \in Object,
           NEW orphans \in SUBSET Name, NEW outcome \in Outcome,
           Begin(m, pc, obj, orphans, outcome), faults' \in 0 .. MaxFaults
    PROVE  TypeOK'
<1>1. cache[m] \in Object
  BY DEF TypeOK
<1>2. [Idle EXCEPT !.pc = pc, !.obj = obj, !.before = cache[m],
                   !.orphans = orphans, !.outcome = outcome] \in Pass
  BY <1>1, IdleType DEF Pass
<1>3. pass' \in [MG -> Pass]
  BY <1>2 DEF TypeOK, Begin
<1> QED BY <1>3 DEF TypeOK, Begin, Take

(* A pass that returns is a pass.                                          *)
LEMMA ReturnType ==
    ASSUME TypeOK, NEW m \in MG, NEW obj \in Object, NEW outcome \in Outcome,
           Return(m, obj, outcome)
    PROVE  pass' \in [MG -> Pass]
<1>1. [Idle EXCEPT !.pc = "summarize", !.obj = obj, !.before = pass[m].before,
                   !.outcome = outcome, !.expired = pass[m].expired] \in Pass
  BY PassType, IdleType DEF Pass, PC
<1> QED BY <1>1 DEF TypeOK, Return

(* A pass that fails is a pass.                                            *)
LEMMA FailedType ==
    ASSUME TypeOK, NEW m \in MG, Failed(m)
    PROVE  pass' \in [MG -> Pass]
<1>1. MarkReady(pass[m].obj, "False") \in Object
  BY PassType, MarkType
<1>2. Return(m, MarkReady(pass[m].obj, "False"), "retry") /\ "retry" \in Outcome
  BY DEF Failed, Outcome
<1> QED BY <1>1, <1>2, ReturnType

(* The requeue decision leaves one delay per key.                          *)
LEMMA RequeueType ==
    ASSUME TypeOK, NEW m \in MG, NEW outcome, NEW failed, Requeue(m, outcome, failed)
    PROVE  timer' \in [MG -> {"none", "retry", "interval"}]
BY DEF TypeOK, Requeue

(* Users keep the API well typed.                                          *)
LEMMA UserType ==
    ASSUME TypeOK, NEW m \in MG, User(m)
    PROVE  TypeOK'
<1>1. mg[m] \in Object /\ mg[m].gen \in Gen /\ mg[m].requestedAt \in 0 .. MaxReq
  BY DEF TypeOK, Object
<1>2. CASE Create(m)
  <2>1. PICK s \in Specs :
           mg' = [mg EXCEPT ![m] = [Absent(1, FALSE) EXCEPT !.exists = TRUE, !.spec = s]]
    BY <1>2 DEF Create
  <2>2. s \in MGSpec /\ 1 \in Gen /\ FALSE \in BOOLEAN
    BY BoundsAssumption DEF Specs, Gen
  <2>3. Absent(1, FALSE) \in Object
    BY <2>2, AbsentType
  <2>4. [Absent(1, FALSE) EXCEPT !.exists = TRUE, !.spec = s] \in Object
    BY <2>2, <2>3 DEF Object
  <2> QED BY <1>2, <2>1, <2>4 DEF TypeOK, Create, UNCHANGED_Controller
<1>3. CASE EditSpec(m)
  <2>1. PICK s \in Specs :
           mg' = [mg EXCEPT ![m].spec = s, ![m].gen = mg[m].gen + 1]
    BY <1>3 DEF EditSpec
  <2>2. s \in MGSpec /\ mg[m].gen + 1 \in Gen
    BY <1>1, <1>3, BoundsAssumption DEF Specs, Gen, EditSpec
  <2>3. [mg[m] EXCEPT !.spec = s, !.gen = mg[m].gen + 1] \in Object
    BY <1>1, <2>2 DEF Object
  <2>4. mg' = [mg EXCEPT ![m] = [mg[m] EXCEPT !.spec = s, !.gen = mg[m].gen + 1]]
    BY <1>1, <2>1 DEF TypeOK, Object
  <2> QED BY <1>3, <2>3, <2>4 DEF TypeOK, EditSpec, UNCHANGED_Controller
<1>4. CASE Annotate(m)
  <2>1. PICK a \in Annotation : mg' = [mg EXCEPT ![m].annotation = a]
    BY <1>4 DEF Annotate, Annotation
  <2>2. [mg[m] EXCEPT !.annotation = a] \in Object
    BY <1>1 DEF Object
  <2>3. mg' = [mg EXCEPT ![m] = [mg[m] EXCEPT !.annotation = a]]
    BY <1>1, <2>1 DEF TypeOK, Object
  <2> QED BY <1>4, <2>2, <2>3 DEF TypeOK, Annotate, UNCHANGED_Controller
<1>5. CASE Request(m)
  <2>1. mg[m].requestedAt + 1 \in 0 .. MaxReq
    BY <1>1, <1>5, BoundsAssumption DEF Request
  <2> QED BY <1>1, <1>5, <2>1 DEF TypeOK, Request, UNCHANGED_Controller, Object
<1>6. CASE Delete(m)
  <2>1. mg[m].gen + 1 \in Gen
    BY <1>1, <1>6, BoundsAssumption DEF Delete, Gen
  <2>2. [mg[m] EXCEPT !.deleting = TRUE, !.gen = mg[m].gen + 1] \in Object
    BY <1>1, <2>1 DEF Object
  <2>3. Reap([mg[m] EXCEPT !.deleting = TRUE, !.gen = mg[m].gen + 1]) \in Object
    BY <2>2, ReapType
  <2> QED BY <1>6, <2>3 DEF TypeOK, Delete, UNCHANGED_Controller
<1> QED BY <1>2, <1>3, <1>4, <1>5, <1>6 DEF User

(* The head of Reconcile keeps the types.                                  *)
LEMMA StartType ==
    ASSUME TypeOK, NEW m \in MG, Start(m) \/ StartTmpDirFails(m)
    PROVE  TypeOK'
<1>0. cache[m] \in Object /\ faults \in 0 .. MaxFaults
  BY DEF TypeOK
<1>1. CASE StartGone(m)
  BY <1>1 DEF TypeOK, StartGone, Take
<1>2. CASE StartFinalize(m)
  <2>1. Names(cache[m].status.inventory) \in SUBSET Name
    BY <1>0, NamesType DEF Object, Status
  <2>2. Begin(m, "clean", cache[m], Names(cache[m].status.inventory), "stop")
        /\ faults' \in 0 .. MaxFaults /\ "clean" \in PC /\ "stop" \in Outcome
    BY <1>0, <1>2 DEF StartFinalize, PC, Outcome
  <2> QED BY <1>0, <2>1, <2>2, BeginType
<1>3. CASE StartAddFinalizer(m)
  <2>1. AddFinalizer(cache[m]) \in Object
    BY <1>0, AddFinalizerType
  <2>2. Begin(m, "summarize", AddFinalizer(cache[m]), {}, "retry")
        /\ faults' \in 0 .. MaxFaults /\ "summarize" \in PC /\ "retry" \in Outcome
    BY <1>0, <1>3 DEF StartAddFinalizer, PC, Outcome
  <2> QED BY <2>1, <2>2, BeginType
<1>4. CASE StartDisabled(m)
  <2>1. Begin(m, "summarize", cache[m], {}, "stop")
        /\ faults' \in 0 .. MaxFaults /\ "summarize" \in PC /\ "stop" \in Outcome
    BY <1>0, <1>4 DEF StartDisabled, PC, Outcome
  <2> QED BY <1>0, <2>1, BeginType
<1>5. CASE StartInvalid(m)
  <2>1. MarkReady(cache[m], "False") \in Object
    BY <1>0, MarkType
  <2>2. NewTerminalErrorFor(cache[m]) \in Object
    BY <2>1, MarkType DEF NewTerminalErrorFor
  <2>3. Begin(m, "summarize", NewTerminalErrorFor(cache[m]), {}, "terminal")
        /\ faults' \in 0 .. MaxFaults /\ "summarize" \in PC /\ "terminal" \in Outcome
    BY <1>0, <1>5 DEF StartInvalid, PC, Outcome
  <2> QED BY <2>2, <2>3, BeginType
<1>6. CASE StartReconcile(m)
  <2>1. MarkReconciling(cache[m]) \in Object
    BY <1>0, MarkType
  <2>2. MarkReady(MarkReconciling(cache[m]), "Unknown") \in Object
    BY <2>1, MarkType
  <2>3. Begin(m, "progress", MarkReady(MarkReconciling(cache[m]), "Unknown"), {}, "none")
        /\ faults' \in 0 .. MaxFaults /\ "progress" \in PC /\ "none" \in Outcome
    BY <1>0, <1>6 DEF StartReconcile, PC, Outcome
  <2> QED BY <2>2, <2>3, BeginType
<1>7. CASE StartTmpDirFails(m)
  <2>1. Begin(m, "summarize", cache[m], {}, "retry")
        /\ faults' \in 0 .. MaxFaults /\ "summarize" \in PC /\ "retry" \in Outcome
    BY <1>7, FaultType DEF StartTmpDirFails, PC, Outcome
  <2> QED BY <1>0, <2>1, BeginType
<1> QED BY <1>1, <1>2, <1>3, <1>4, <1>5, <1>6, <1>7 DEF Start

(* Writing back part of a pass's object keeps the API well typed.          *)
LEMMA MgPatchType ==
    ASSUME TypeOK, NEW m \in MG, NEW parts
    PROVE  /\ Patched(pass[m].before, pass[m].obj, mg[m], parts) \in Object
           /\ Patched(pass[m].before, Summary(pass[m].obj), mg[m], parts) \in Object
<1>1. mg[m] \in Object /\ pass[m].before \in Object /\ pass[m].obj \in Object
  BY PassType DEF TypeOK
<1>2. Summary(pass[m].obj) \in Object
  BY <1>1, SummaryType
<1> QED BY <1>1, <1>2, PatchedType

(* Every step of reconcile, finalize and summarizeStatus keeps the types.  *)
LEMMA WorkType ==
    ASSUME TypeOK, NEW m \in MG, Work(m)
    PROVE  TypeOK'
<1> USE DEF At
<1>0. pass[m] \in Pass
  BY DEF TypeOK
<1>1. CASE PatchProgress(m)
  <2>1. mg' \in [MG -> Object]
    BY <1>1, MgPatchType DEF TypeOK, PatchProgress
  <2>2. pass' \in [MG -> Pass]
    BY <1>0, <1>1, PassType DEF TypeOK, PatchProgress, Pass, PC
  <2> QED BY <1>1, <2>1, <2>2 DEF TypeOK, PatchProgress
<1>2. CASE ObserveSources(m)
  BY <1>0, <1>2 DEF TypeOK, ObserveSources, Pass, PC
<1>3. CASE SourcesNotReady(m)
  BY <1>3, FailedType DEF TypeOK, SourcesNotReady
<1>4. CASE Prepare(m)
  BY <1>0, <1>4, PassType DEF TypeOK, Prepare, Pass, PC
<1>6. CASE Build(m)
  <2>1. PICK n \in pass[m].todo :
          /\ files' = [files EXCEPT ![n] = @ \cup {Digest(m)}]
          /\ pass' = [pass EXCEPT ![m].pc = "apply", ![m].cur = {n}]
    BY <1>6 DEF Build
  <2>2. n \in Name /\ Digest(m) \in Content
    BY <2>1, PassType
  <2>3. files' \in [Name -> SUBSET Content]
    BY <2>1, <2>2 DEF TypeOK
  <2>4. pass' \in [MG -> Pass]
    BY <1>0, <2>1, <2>2 DEF TypeOK, Pass, PC
  <2> QED BY <1>6, <2>3, <2>4 DEF TypeOK, Build
<1>7. CASE ApplyExternalArtifact(m)
  <2>1. PICK n \in pass[m].cur : ea' = [ea EXCEPT ![n].exists = TRUE, ![n].owner = {m}]
    BY <1>7 DEF ApplyExternalArtifact
  <2>2. n \in Name
    BY <2>1, PassType
  <2>3. ea' \in [Name -> EA]
    BY <2>1, <2>2 DEF TypeOK, EA
  <2>4. pass' \in [MG -> Pass]
    BY <1>0, <1>7 DEF TypeOK, ApplyExternalArtifact, Pass, PC
  <2> QED BY <1>7, <2>3, <2>4 DEF TypeOK, ApplyExternalArtifact
<1>8. CASE PatchExternalArtifactStatus(m)
  <2>1. PICK n \in pass[m].cur :
          LET refs == pass[m].eaRefs \cup {[name |-> n, content |-> Digest(m)]}
              todo == pass[m].todo \ {n}
          IN  /\ ea' = [ea EXCEPT ![n].content = Digest(m)]
              /\ pass' = [pass EXCEPT
                    ![m].pc = IF todo = {} THEN "clean" ELSE "build",
                    ![m].cur = {}, ![m].todo = todo, ![m].eaRefs = refs,
                    ![m].orphans = IF todo = {}
                        THEN FindOrphanedReferences(pass[m].obj.status.inventory, refs)
                        ELSE {}]
    BY <1>8 DEF PatchExternalArtifactStatus
  <2> DEFINE refs == pass[m].eaRefs \cup {[name |-> n, content |-> Digest(m)]}
             todo == pass[m].todo \ {n}
             orph == IF todo = {}
                     THEN FindOrphanedReferences(pass[m].obj.status.inventory, refs) ELSE {}
             pc == IF todo = {} THEN "clean" ELSE "build"
  <2>2. n \in Name /\ Digest(m) \in Content
    BY <2>1, PassType
  <2>3. refs \in SUBSET Ref /\ todo \in SUBSET Name /\ pc \in PC
    BY <2>2, PassType DEF Ref, PC
  <2>4. orph \in SUBSET Name
    BY PassType, NamesType DEF FindOrphanedReferences
  <2>5. pass' = [pass EXCEPT ![m].pc = pc, ![m].cur = {}, ![m].todo = todo,
                             ![m].eaRefs = refs, ![m].orphans = orph]
    BY <2>1
  <2>6. ea' \in [Name -> EA]
    BY <2>1, <2>2 DEF TypeOK, EA
  <2> HIDE DEF refs, todo, orph, pc
  <2>7. pass' \in [MG -> Pass]
    BY <1>0, <2>3, <2>4, <2>5 DEF TypeOK, Pass
  <2> QED BY <1>8, <2>6, <2>7 DEF TypeOK, PatchExternalArtifactStatus
<1>9. CASE ExternalArtifactChanged(m)
  BY <1>9, FailedType DEF TypeOK, ExternalArtifactChanged
<1>10. CASE CleanStorage(m)
  <2>1. PICK n \in pass[m].orphans :
          /\ files' = [files EXCEPT ![n] = {}]
          /\ pass' = [pass EXCEPT ![m].pc = "cleanea", ![m].cur = {n}]
    BY <1>10 DEF CleanStorage
  <2>2. n \in Name
    BY <2>1, PassType
  <2>3. pass' \in [MG -> Pass]
    BY <1>0, <2>1, <2>2 DEF TypeOK, Pass, PC
  <2> QED BY <1>10, <2>1, <2>3 DEF TypeOK, CleanStorage
<1>11. CASE CleanExternalArtifact(m)
  <2>1. NoEA \in EA
    BY ZeroType DEF NoEA, EA, NoContent, Content
  <2>2. ea' \in [Name -> EA]
    BY <1>11, <2>1 DEF TypeOK, CleanExternalArtifact
  <2>3. pass' \in [MG -> Pass]
    BY <1>0, <1>11 DEF TypeOK, CleanExternalArtifact, CleanNext, Pass, PC
  <2> QED BY <1>11, <2>2, <2>3 DEF TypeOK, CleanExternalArtifact
<1>12. CASE Complete(m)
  <2>1. files' \in [Name -> SUBSET Content]
    BY <1>12 DEF TypeOK, Complete, GarbageCollect
  <2>2. Succeeded(pass[m].obj, pass[m].eaRefs) \in Object /\ "interval" \in Outcome
    BY PassType, SucceededType DEF Outcome
  <2>3. pass' \in [MG -> Pass]
    BY <1>12, <2>2, ReturnType DEF Complete
  <2> QED BY <1>12, <2>1, <2>3 DEF TypeOK, Complete
<1>13. CASE RemoveFinalizer(m)
  <2>1. [pass[m].obj EXCEPT !.finalizer = FALSE] \in Object /\ "stop" \in Outcome
    BY PassType DEF Object, Outcome
  <2>2. pass' \in [MG -> Pass]
    BY <1>13, <2>1, ReturnType DEF RemoveFinalizer
  <2> QED BY <1>13, <2>2 DEF TypeOK, RemoveFinalizer
<1>14. CASE Summarize(m)
  <2>1. mg' \in [MG -> Object]
    BY <1>14, MgPatchType DEF TypeOK, Summarize
  <2>2. timer' \in [MG -> {"none", "retry", "interval"}]
    BY <1>14, RequeueType DEF Summarize
  <2>3. pass' \in [MG -> Pass]
    BY <1>14, IdleType DEF TypeOK, Summarize
  <2> QED BY <1>14, <2>1, <2>2, <2>3 DEF TypeOK, Summarize
<1>15. CASE SummarizeGone(m)
  <2>1. timer' \in [MG -> {"none", "retry", "interval"}]
    BY <1>15, RequeueType DEF SummarizeGone
  <2>2. pass' \in [MG -> Pass]
    BY <1>15, IdleType DEF TypeOK, SummarizeGone
  <2> QED BY <1>15, <2>1, <2>2 DEF TypeOK, SummarizeGone
<1> QED
  BY <1>1, <1>2, <1>3, <1>4, <1>6, <1>7, <1>8, <1>9, <1>10, <1>11, <1>12,
     <1>13, <1>14, <1>15 DEF Work

(* Every failing call keeps the types.                                     *)
LEMMA FailsType ==
    ASSUME TypeOK, NEW m \in MG, Fails(m)
    PROVE  TypeOK'
<1>0. pass[m] \in Pass
  BY DEF TypeOK
<1>1. CASE StartTmpDirFails(m)
  BY <1>1, StartType
<1>2. CASE PatchProgressFails(m)
  <2>1. pass' \in [MG -> Pass]
    BY <1>2, PassType, ReturnType DEF PatchProgressFails, Outcome
  <2> QED BY <1>2, <2>1, CallFailsType DEF TypeOK, PatchProgressFails
<1>3. CASE PrepareFails(m) \/ BuildFails(m) \/ ExternalArtifactFails(m)
  BY <1>3, FailedType, FaultType, CallFailsType
     DEF TypeOK, PrepareFails, BuildFails, ExternalArtifactFails
<1>4. CASE CleanStorageFails(m)
  <2>1. PICK n \in pass[m].orphans :
          pass' = [pass EXCEPT ![m].pc = "cleanea", ![m].cur = {n}]
    BY <1>4 DEF CleanStorageFails
  <2>2. n \in Name
    BY <2>1, PassType
  <2>3. pass' \in [MG -> Pass]
    BY <1>0, <2>1, <2>2 DEF TypeOK, Pass, PC
  <2> QED BY <1>4, <2>3, FaultType DEF TypeOK, CleanStorageFails
<1>5. CASE CleanExternalArtifactFails(m)
  <2>1. pass' \in [MG -> Pass]
    BY <1>0, <1>5 DEF TypeOK, CleanExternalArtifactFails, CleanNext, Pass, PC
  <2> QED BY <1>5, <2>1, CallFailsType DEF TypeOK, CleanExternalArtifactFails
<1>6. CASE SummarizeFails(m)
  <2>1. mg' \in [MG -> Object]
    BY <1>6, MgPatchType DEF TypeOK, SummarizeFails
  <2>2. timer' \in [MG -> {"none", "retry", "interval"}]
    BY <1>6, RequeueType DEF SummarizeFails
  <2>3. pass' \in [MG -> Pass]
    BY <1>6, IdleType DEF TypeOK, SummarizeFails
  <2> QED BY <1>6, <2>1, <2>2, <2>3, CallFailsType DEF TypeOK, SummarizeFails
<1>7. CASE CompleteSlowly(m)
  <2>1. files' \in [Name -> SUBSET Content]
    BY <1>7 DEF TypeOK, CompleteSlowly, GarbageCollect
  <2>2. Succeeded(pass[m].obj, pass[m].eaRefs) \in Object /\ "interval" \in Outcome
    BY PassType, SucceededType DEF Outcome
  <2>3. pass' \in [MG -> Pass]
    BY <1>7, <2>2, ReturnType DEF CompleteSlowly
  <2> QED BY <1>7, <2>1, <2>3, FaultType DEF TypeOK, CompleteSlowly
<1>8. CASE Panic(m)
  <2>1. pass' \in [MG -> Pass]
    BY <1>8, PassType, ReturnType DEF Panic, Outcome
  <2> QED BY <1>8, <2>1, FaultType DEF TypeOK, Panic
<1>9. CASE BuildCollides(m)
  <2>1. PICK n \in pass[m].todo :
          /\ files' = [files EXCEPT ![n] = {Digest(m)}]
          /\ pass' = [pass EXCEPT ![m].pc = "apply", ![m].cur = {n}]
    BY <1>9 DEF BuildCollides
  <2>2. n \in Name /\ Digest(m) \in Content
    BY <2>1, PassType
  <2>3. files' \in [Name -> SUBSET Content]
    BY <2>1, <2>2 DEF TypeOK
  <2>4. pass' \in [MG -> Pass]
    BY <1>0, <2>1, <2>2 DEF TypeOK, Pass, PC
  <2> QED BY <1>9, <2>3, <2>4, FaultType DEF TypeOK, BuildCollides
<1> QED BY <1>1, <1>2, <1>3, <1>4, <1>5, <1>6, <1>7, <1>8, <1>9 DEF Fails

(* The context of a pass expires.                                          *)
LEMMA TimeoutType ==
    ASSUME TypeOK, NEW m \in MG, TimeoutExpires(m)
    PROVE  TypeOK'
<1>1. pass[m] \in Pass
  BY DEF TypeOK
<1>2. pass' \in [MG -> Pass]
  BY <1>1 DEF TypeOK, TimeoutExpires, Pass
<1> QED BY <1>2, FaultType DEF TypeOK, TimeoutExpires

(* The initial state has the types.                                        *)
LEMMA InitType == Init => TypeOK
<1> SUFFICES ASSUME Init PROVE TypeOK
  OBVIOUS
<1>1. FALSE \in BOOLEAN
  OBVIOUS
<1>2. Absent(0, FALSE) \in Object
  BY <1>1, ZeroType, AbsentType
<1>3. NoEA \in EA
  BY ZeroType DEF NoEA, EA, NoContent, Content
<1>4. src \in Rev /\ srcCache \in Rev /\ faults \in 0 .. MaxFaults
  BY BoundsAssumption DEF Init, Rev
<1> QED BY <1>2, <1>3, <1>4, IdleType DEF Init, TypeOK

(* Every step keeps the types.                                             *)
LEMMA NextType == TypeOK /\ [Next]_vars => TypeOK'
<1> SUFFICES ASSUME TypeOK, [Next]_vars PROVE TypeOK'
  OBVIOUS
<1>1. CASE SourceChange
  <2>1. src' \in Rev
    BY <1>1, BoundsAssumption DEF TypeOK, SourceChange, Rev
  <2> QED BY <1>1, <2>1 DEF TypeOK, SourceChange, UNCHANGED_Controller
<1>2. CASE DeliverSource
  BY <1>2 DEF TypeOK, DeliverSource, RequestsForSourceChange
<1>3. CASE \E kind \in {"crash", "podloss"} : Restart(kind)
  <2>1. PICK kind \in {"crash", "podloss"} : Restart(kind)
    BY <1>3
  <2>2. faults' \in 0 .. MaxFaults
    BY <2>1, FaultType DEF Restart
  <2> QED BY <2>1, <2>2, IdleType DEF TypeOK, Restart
<1>4. ASSUME NEW m \in MG, User(m)
      PROVE  TypeOK'
  BY <1>4, UserType
<1>5. ASSUME NEW m \in MG, DeliverManifestGenerator(m)
      PROVE  TypeOK'
  BY <1>5 DEF TypeOK, DeliverManifestGenerator
<1>6. ASSUME NEW m \in MG, RetryTimerFires(m) \/ IntervalTimerFires(m)
      PROVE  TypeOK'
  BY <1>6 DEF TypeOK, RetryTimerFires, IntervalTimerFires, TimerFires
<1>7. ASSUME NEW m \in MG, Start(m) \/ Work(m) \/ Fails(m) \/ TimeoutExpires(m)
      PROVE  TypeOK'
  BY <1>7, StartType, WorkType, FailsType, TimeoutType
<1>8. CASE UNCHANGED vars
  BY <1>8 DEF TypeOK, vars
<1> QED BY <1>1, <1>2, <1>3, <1>4, <1>5, <1>6, <1>7, <1>8 DEF Next

(* Every variable keeps its type in every behaviour: the objects of the    *)
(* API, the cache and the running passes are well formed, generations and  *)
(* revisions stay within their bounds, and observedGeneration is one.      *)
THEOREM TypeCorrect == Spec => []TypeOK
BY InitType, NextType, PTL DEF Spec

-----------------------------------------------------------------------------
(* Nothing is published without the finalizer.                             *)

(* The helpers on the in-memory object leave its metadata alone.           *)
LEMMA MetadataKept ==
    ASSUME NEW o \in Object, NEW st, NEW refs
    PROVE  /\ MarkReady(o, st).finalizer = o.finalizer
           /\ MarkReady(o, st).deleting = o.deleting
           /\ MarkReconciling(o).finalizer = o.finalizer
           /\ MarkReconciling(o).deleting = o.deleting
           /\ MarkStalled(o).finalizer = o.finalizer
           /\ MarkStalled(o).deleting = o.deleting
           /\ Summary(o).finalizer = o.finalizer
           /\ Summary(o).deleting = o.deleting
           /\ Succeeded(o, refs).finalizer = o.finalizer
           /\ Succeeded(o, refs).deleting = o.deleting
BY DEF MarkReady, MarkReconciling, MarkStalled, Summary, Succeeded, Object

(* A patch never undeletes an object, and takes the finalizer off only     *)
(* when the pass did.                                                      *)
LEMMA PatchedMetadata ==
    ASSUME NEW before \in Object, NEW obj \in Object, NEW api \in Object, NEW parts
    PROVE  /\ Patched(before, obj, api, parts).deleting = api.deleting
           /\ (api.exists /\ api.finalizer /\ (before.finalizer => obj.finalizer))
              => /\ Patched(before, obj, api, parts).exists
                 /\ Patched(before, obj, api, parts).finalizer
<1> DEFINE f == IF "metadata" \in parts
                THEN Merge(before.finalizer, obj.finalizer, api.finalizer)
                ELSE api.finalizer
           c == IF "conditions" \in parts
                THEN MergeConditions(before.conditions, obj.conditions, api.conditions)
                ELSE api.conditions
           s == IF "status" \in parts
                THEN MergeStatus(before.status, obj.status, api.status)
                ELSE api.status
           w == [api EXCEPT !.conditions = c, !.finalizer = f, !.status = s]
<1>1. Patched(before, obj, api, parts) = Reap(w)
  BY DEF Patched
<1>2. before.finalizer \in BOOLEAN /\ obj.finalizer \in BOOLEAN /\ api.deleting \in BOOLEAN
  BY DEF Object
<1>3. api.finalizer /\ (before.finalizer => obj.finalizer) => f
  BY <1>2, Zenon DEF Merge
<1> HIDE DEF f, c, s
<1>4. w.finalizer = f /\ w.deleting = api.deleting /\ w.exists = api.exists
  BY DEF Object
<1> HIDE DEF w
<1>5. Reap(w).deleting = api.deleting
  BY <1>2, <1>4 DEF Reap, Absent
<1>6. f => Reap(w) = w
  BY <1>4 DEF Reap
<1> QED BY <1>1, <1>3, <1>4, <1>5, <1>6

(* A step inside a pass that changes neither the API objects nor what the  *)
(* pass remembers of the metadata, and does not begin to publish.          *)
LEMMA LocalStep ==
    ASSUME FinalizerInv, NEW m \in MG, UNCHANGED <<mg, cache>>,
           \A k \in MG \ {m} : pass'[k] = pass[k],
           pass'[m].obj.deleting = pass[m].obj.deleting,
           pass'[m].obj.finalizer = pass[m].obj.finalizer,
           pass'[m].before.finalizer = pass[m].before.finalizer,
           pass'[m].pc \in Publishing => pass[m].pc \in Publishing
    PROVE  FinalizerInv'
<1> SUFFICES ASSUME NEW k \in MG
             PROVE  (CacheKnowsFinalizer(k) /\ PassKeepsFinalizer(k))'
  BY DEF FinalizerInv
<1>1. CASE k = m
  BY <1>1 DEF FinalizerInv, CacheKnowsFinalizer, PassKeepsFinalizer, Reconcilable
<1>2. CASE k # m
  BY <1>2 DEF FinalizerInv, CacheKnowsFinalizer, PassKeepsFinalizer, Reconcilable
<1> QED BY <1>1, <1>2

(* Returning early is such a step.                                         *)
LEMMA ReturnStep ==
    ASSUME TypeOK, FinalizerInv, NEW m \in MG, UNCHANGED <<mg, cache>>,
           NEW obj \in Object, NEW outcome, Return(m, obj, outcome),
           obj.finalizer = pass[m].obj.finalizer, obj.deleting = pass[m].obj.deleting
    PROVE  FinalizerInv'
<1>1. pass'[m] = [Idle EXCEPT !.pc = "summarize", !.obj = obj,
                     !.before = pass[m].before, !.outcome = outcome,
                     !.expired = pass[m].expired]
  BY DEF Return, TypeOK
<1>2. /\ pass'[m].pc = "summarize"
      /\ pass'[m].obj = obj
      /\ pass'[m].before = pass[m].before
  BY <1>1 DEF Idle
<1>3. \A k \in MG \ {m} : pass'[k] = pass[k]
  BY DEF Return, TypeOK
<1>4. pass'[m].pc \notin Publishing
  BY <1>2 DEF Publishing
<1> QED BY <1>2, <1>3, <1>4, LocalStep

(* A failing branch keeps what the pass knows of the finalizer.            *)
LEMMA FailedStep ==
    ASSUME TypeOK, FinalizerInv, NEW m \in MG, UNCHANGED <<mg, cache>>, Failed(m)
    PROVE  FinalizerInv'
<1>1. pass[m].obj \in Object
  BY PassType
<1>2. MarkReady(pass[m].obj, "False") \in Object
  BY <1>1, MarkType
<1> QED BY <1>1, <1>2, MetadataKept, ReturnStep DEF Failed

(* A pass begins with what the cache says; it may publish only an object   *)
(* the cache shows reconcilable.                                           *)
LEMMA BeginStep ==
    ASSUME TypeOK, FinalizerInv, NEW m \in MG, NEW pc, NEW obj \in Object,
           NEW orphans, NEW outcome, Begin(m, pc, obj, orphans, outcome),
           obj.deleting = cache[m].deleting,
           cache[m].finalizer => obj.finalizer,
           pc \in Publishing => Reconcilable(cache[m])
    PROVE  FinalizerInv'
<1> SUFFICES ASSUME NEW k \in MG
             PROVE  (CacheKnowsFinalizer(k) /\ PassKeepsFinalizer(k))'
  BY DEF FinalizerInv
<1>1. mg' = mg /\ cache' = cache
  BY DEF Begin, Take
<1>2. CacheKnowsFinalizer(k) /\ PassKeepsFinalizer(k)
  BY DEF FinalizerInv
<1>3. CASE k # m
  <2>1. pass'[k] = pass[k]
    BY <1>3 DEF Begin, TypeOK
  <2> QED BY <1>1, <1>2, <2>1 DEF CacheKnowsFinalizer, PassKeepsFinalizer, Reconcilable
<1>4. CASE k = m
  <2>1. pass'[m] = [Idle EXCEPT !.pc = pc, !.obj = obj, !.before = cache[m],
                                !.orphans = orphans, !.outcome = outcome]
    BY DEF Begin, TypeOK
  <2>2. pass'[m].pc = pc /\ pass'[m].obj = obj /\ pass'[m].before = cache[m]
    BY <2>1 DEF Idle
  <2> QED BY <1>1, <1>2, <1>4, <2>2 DEF CacheKnowsFinalizer, PassKeepsFinalizer, Reconcilable
<1> QED BY <1>3, <1>4

(* The head of Reconcile keeps the finalizer invariant.                    *)
LEMMA StartStep ==
    ASSUME TypeOK, FinalizerInv, NEW m \in MG, Start(m) \/ StartTmpDirFails(m)
    PROVE  FinalizerInv'
<1> DEFINE c == cache[m]
<1>0. c \in Object
  BY DEF TypeOK
<1>p. "clean" \notin Publishing /\ "summarize" \notin Publishing
  BY DEF Publishing
<1>1. CASE StartGone(m)
  BY <1>1 DEF StartGone, Take, FinalizerInv, CacheKnowsFinalizer, PassKeepsFinalizer, Reconcilable
<1>2. CASE StartFinalize(m)
  BY <1>0, <1>p, <1>2, BeginStep DEF StartFinalize
<1>3. CASE StartAddFinalizer(m)
  <2> DEFINE f == [c EXCEPT !.finalizer = TRUE]
  <2>1. f \in Object /\ f.finalizer /\ f.deleting = c.deleting
    BY <1>0 DEF Object
  <2> HIDE DEF f
  <2>2. MarkReady(f, "Unknown") \in Object
    BY <2>1, MarkType
  <2>3. /\ MarkReady(f, "True").finalizer /\ MarkReady(f, "True").deleting = c.deleting
        /\ MarkReconciling(MarkReady(f, "Unknown")).finalizer
        /\ MarkReconciling(MarkReady(f, "Unknown")).deleting = c.deleting
    BY <2>1, <2>2, MetadataKept
  <2>4. AddFinalizer(c).finalizer /\ AddFinalizer(c).deleting = c.deleting
    BY <2>3 DEF AddFinalizer, f
  <2>5. AddFinalizer(c) \in Object
    BY <1>0, AddFinalizerType
  <2> QED BY <1>p, <1>3, <2>4, <2>5, BeginStep DEF StartAddFinalizer
<1>4. CASE StartDisabled(m)
  BY <1>0, <1>p, <1>4, BeginStep DEF StartDisabled
<1>5. CASE StartInvalid(m)
  <2>1. MarkReady(c, "False") \in Object
    BY <1>0, MarkType
  <2>2. NewTerminalErrorFor(c) \in Object
    BY <2>1, MarkType DEF NewTerminalErrorFor
  <2>3. /\ NewTerminalErrorFor(c).finalizer = c.finalizer
        /\ NewTerminalErrorFor(c).deleting = c.deleting
    BY <1>0, <2>1, MetadataKept DEF NewTerminalErrorFor
  <2> QED BY <1>p, <1>5, <2>2, <2>3, BeginStep DEF StartInvalid
<1>6. CASE StartReconcile(m)
  <2>1. MarkReconciling(c) \in Object
    BY <1>0, MarkType
  <2>2. MarkReady(MarkReconciling(c), "Unknown") \in Object
    BY <2>1, MarkType
  <2>3. /\ MarkReady(MarkReconciling(c), "Unknown").finalizer = c.finalizer
        /\ MarkReady(MarkReconciling(c), "Unknown").deleting = c.deleting
    BY <1>0, <2>1, MetadataKept
  <2> QED BY <1>6, <2>2, <2>3, BeginStep DEF StartReconcile
<1>7. CASE StartTmpDirFails(m)
  BY <1>0, <1>p, <1>7, BeginStep DEF StartTmpDirFails
<1> QED BY <1>1, <1>2, <1>3, <1>4, <1>5, <1>6, <1>7 DEF Start

(* The end of a pass: the finalizer goes only if the pass, and so the      *)
(* cache, saw the deletion.                                                *)
LEMMA SummarizeStep ==
    ASSUME TypeOK, FinalizerInv, NEW m \in MG, NEW parts, UNCHANGED cache,
           mg' = [mg EXCEPT ![m] =
                    Patched(pass[m].before, Summary(pass[m].obj), mg[m], parts)],
           pass' = [pass EXCEPT ![m] = Idle]
    PROVE  FinalizerInv'
<1> SUFFICES ASSUME NEW k \in MG
             PROVE  (CacheKnowsFinalizer(k) /\ PassKeepsFinalizer(k))'
  BY DEF FinalizerInv
<1>1. CacheKnowsFinalizer(k) /\ PassKeepsFinalizer(k)
  BY DEF FinalizerInv
<1>2. CASE k # m
  <2>1. pass'[k] = pass[k] /\ mg'[k] = mg[k] /\ cache'[k] = cache[k]
    BY <1>2 DEF TypeOK
  <2> QED BY <1>1, <2>1 DEF CacheKnowsFinalizer, PassKeepsFinalizer, Reconcilable
<1>3. CASE k = m
  <2> DEFINE s == Summary(pass[m].obj)
             b == pass[m].before
             r == Patched(b, s, mg[m], parts)
  <2>1. mg[m] \in Object /\ b \in Object /\ pass[m].obj \in Object
    BY PassType DEF TypeOK
  <2>2. s \in Object /\ s.finalizer = pass[m].obj.finalizer
    BY <2>1, SummaryType, MetadataKept
  <2> HIDE DEF s, b
  <2>3. /\ r.deleting = mg[m].deleting
        /\ (mg[m].exists /\ mg[m].finalizer /\ (b.finalizer => s.finalizer))
           => r.exists /\ r.finalizer
    BY <2>1, <2>2, PatchedMetadata
  <2>4. mg'[m] = r /\ cache'[m] = cache[m] /\ pass'[m] = Idle
    BY DEF TypeOK, s, b
  <2> HIDE DEF r
  <2>5. Reconcilable(cache[m]) => (b.finalizer => s.finalizer)
    BY <1>1, <1>3, <2>2 DEF PassKeepsFinalizer, Reconcilable, b
  <2>6. CacheKnowsFinalizer(m)'
    BY <1>1, <1>3, <2>3, <2>4, <2>5 DEF CacheKnowsFinalizer, Reconcilable
  <2>7. PassKeepsFinalizer(m)'
    BY <2>4 DEF PassKeepsFinalizer, Idle, Absent, Publishing
  <2> QED BY <1>3, <2>6, <2>7
<1> QED BY <1>2, <1>3

(* The steps of a pass keep the finalizer invariant.                       *)
LEMMA WorkStep ==
    ASSUME TypeOK, FinalizerInv, NEW m \in MG, Work(m)
    PROVE  FinalizerInv'
<1>0. pass[m] \in Pass /\ pass[m].obj \in Object
  BY PassType DEF TypeOK
<1>p. /\ {"observe", "prepare", "build", "apply", "eastatus"} \subseteq Publishing
      /\ "progress" \in Publishing
      /\ "clean" \notin Publishing /\ "cleanea" \notin Publishing
  BY DEF Publishing
<1>1. CASE PatchProgress(m)
  <2> DEFINE o == pass[m].obj
             b == pass[m].before
             r == Patched(b, o, mg[m], Parts)
  <2>1. mg[m] \in Object /\ b \in Object /\ o \in Object
    BY PassType DEF TypeOK
  <2>2. mg[m].exists /\ mg[m].finalizer /\ o.finalizer
    BY <1>1, <1>p DEF FinalizerInv, PassKeepsFinalizer, PatchProgress, At
  <2>3. r.deleting = mg[m].deleting /\ r.exists /\ r.finalizer
    BY <2>1, <2>2, PatchedMetadata
  <2>4. mg'[m] = r /\ cache' = cache
    BY <1>1 DEF PatchProgress, TypeOK
  <2>5. pass'[m].pc = "observe" /\ pass'[m].obj = o /\ pass'[m].before = o
    BY <1>0, <1>1 DEF PatchProgress, TypeOK, Pass
  <2>6. ASSUME NEW k \in MG, k # m
        PROVE  mg'[k] = mg[k] /\ pass'[k] = pass[k]
    BY <1>1, <2>6 DEF PatchProgress, TypeOK
  <2> HIDE DEF o, b, r
  <2>7. ASSUME NEW k \in MG
        PROVE  (CacheKnowsFinalizer(k) /\ PassKeepsFinalizer(k))'
    <3>1. CacheKnowsFinalizer(k) /\ PassKeepsFinalizer(k)
      BY DEF FinalizerInv
    <3>2. CASE k = m
      BY <2>2, <2>3, <2>4, <2>5, <3>1, <3>2
         DEF CacheKnowsFinalizer, PassKeepsFinalizer, Reconcilable, o
    <3>3. CASE k # m
      BY <2>4, <2>6, <3>1, <3>3 DEF CacheKnowsFinalizer, PassKeepsFinalizer, Reconcilable
    <3> QED BY <3>2, <3>3
  <2> QED BY <2>7 DEF FinalizerInv
<1>2. CASE ObserveSources(m) \/ Prepare(m)
  BY <1>0, <1>p, <1>2, LocalStep DEF ObserveSources, Prepare, TypeOK, Pass, At
<1>3. CASE SourcesNotReady(m) \/ ExternalArtifactChanged(m)
  BY <1>3, FailedStep DEF SourcesNotReady, ExternalArtifactChanged
<1>5. CASE Build(m)
  <2>1. PICK n \in pass[m].todo :
           pass' = [pass EXCEPT ![m].pc = "apply", ![m].cur = {n}]
    BY <1>5 DEF Build
  <2> QED BY <1>0, <1>p, <1>5, <2>1, LocalStep DEF Build, TypeOK, Pass, At
<1>6. CASE ApplyExternalArtifact(m)
  BY <1>0, <1>p, <1>6, LocalStep DEF ApplyExternalArtifact, TypeOK, Pass, At
<1>7. CASE PatchExternalArtifactStatus(m)
  <2>1. /\ pass'[m].obj = pass[m].obj /\ pass'[m].before = pass[m].before
        /\ \A k \in MG \ {m} : pass'[k] = pass[k]
    <3>1. PICK n \in pass[m].cur :
             LET refs == pass[m].eaRefs \cup {[name |-> n, content |-> Digest(m)]}
                 todo == pass[m].todo \ {n}
             IN  pass' = [pass EXCEPT
                    ![m].pc = IF todo = {} THEN "clean" ELSE "build",
                    ![m].cur = {}, ![m].todo = todo, ![m].eaRefs = refs,
                    ![m].orphans = IF todo = {}
                        THEN FindOrphanedReferences(pass[m].obj.status.inventory, refs)
                        ELSE {}]
      BY <1>7 DEF PatchExternalArtifactStatus
    <3> QED BY <1>0, <3>1 DEF TypeOK, Pass
  <2>2. UNCHANGED <<mg, cache>> /\ pass[m].pc \in Publishing
    BY <1>p, <1>7 DEF PatchExternalArtifactStatus, At
  <2> QED BY <2>1, <2>2, LocalStep
<1>8. CASE CleanStorage(m)
  <2>1. PICK n \in pass[m].orphans :
           pass' = [pass EXCEPT ![m].pc = "cleanea", ![m].cur = {n}]
    BY <1>8 DEF CleanStorage
  <2> QED BY <1>0, <1>p, <1>8, <2>1, LocalStep DEF CleanStorage, TypeOK, Pass
<1>9. CASE CleanExternalArtifact(m)
  BY <1>0, <1>p, <1>9, LocalStep DEF CleanExternalArtifact, CleanNext, TypeOK, Pass
<1>10. CASE Complete(m)
  <2>1. Succeeded(pass[m].obj, pass[m].eaRefs) \in Object
    BY PassType, SucceededType
  <2> QED BY <1>0, <1>10, <2>1, MetadataKept, ReturnStep DEF Complete
<1>11. CASE RemoveFinalizer(m)
  <2>1. pass'[m].pc = "summarize" /\ pass'[m].obj.deleting = pass[m].obj.deleting
    BY <1>0, <1>11 DEF RemoveFinalizer, Return, TypeOK, Idle, Object
  <2>2. pass[m].obj.deleting
    BY <1>11 DEF RemoveFinalizer
  <2>3. mg' = mg /\ cache' = cache /\ \A k \in MG \ {m} : pass'[k] = pass[k]
    BY <1>11 DEF RemoveFinalizer, Return, TypeOK
  <2>4. ASSUME NEW k \in MG
        PROVE  (CacheKnowsFinalizer(k) /\ PassKeepsFinalizer(k))'
    <3>1. CacheKnowsFinalizer(k) /\ PassKeepsFinalizer(k)
      BY DEF FinalizerInv
    <3>2. CASE k = m
      BY <2>1, <2>2, <2>3, <3>1, <3>2
         DEF CacheKnowsFinalizer, PassKeepsFinalizer, Reconcilable, Publishing
    <3>3. CASE k # m
      BY <2>3, <3>1, <3>3 DEF CacheKnowsFinalizer, PassKeepsFinalizer, Reconcilable
    <3> QED BY <3>2, <3>3
  <2> QED BY <2>4 DEF FinalizerInv
<1>12. CASE Summarize(m)
  BY <1>12, SummarizeStep DEF Summarize
<1>13. CASE SummarizeGone(m)
  <2>1. mg' = mg /\ cache' = cache /\ pass'[m] = Idle /\ \A k \in MG \ {m} : pass'[k] = pass[k]
    BY <1>13 DEF SummarizeGone, TypeOK
  <2>2. ASSUME NEW k \in MG
        PROVE  (CacheKnowsFinalizer(k) /\ PassKeepsFinalizer(k))'
    BY <2>1 DEF FinalizerInv, CacheKnowsFinalizer, PassKeepsFinalizer, Reconcilable,
                Idle, Absent, Publishing
  <2> QED BY <2>2 DEF FinalizerInv
<1> QED
  BY <1>1, <1>2, <1>3, <1>5, <1>6, <1>7, <1>8, <1>9, <1>10, <1>11, <1>12, <1>13 DEF Work

(* Failing calls keep the finalizer invariant.                             *)
LEMMA FailsStep ==
    ASSUME TypeOK, FinalizerInv, NEW m \in MG, Fails(m)
    PROVE  FinalizerInv'
<1>0. pass[m] \in Pass /\ pass[m].obj \in Object
  BY PassType DEF TypeOK
<1>p. "cleanea" \notin Publishing /\ "clean" \notin Publishing
  BY DEF Publishing
<1>1. CASE StartTmpDirFails(m)
  BY <1>1, StartStep
<1>2. CASE PatchProgressFails(m)
  BY <1>0, <1>2, ReturnStep DEF PatchProgressFails
<1>3. CASE PrepareFails(m) \/ BuildFails(m) \/ ExternalArtifactFails(m)
  BY <1>3, FailedStep DEF PrepareFails, BuildFails, ExternalArtifactFails
<1>4. CASE CleanStorageFails(m)
  <2>1. PICK n \in pass[m].orphans :
           pass' = [pass EXCEPT ![m].pc = "cleanea", ![m].cur = {n}]
    BY <1>4 DEF CleanStorageFails
  <2> QED BY <1>0, <1>p, <1>4, <2>1, LocalStep DEF CleanStorageFails, TypeOK, Pass
<1>5. CASE CleanExternalArtifactFails(m)
  BY <1>0, <1>p, <1>5, LocalStep DEF CleanExternalArtifactFails, CleanNext, TypeOK, Pass
<1>6. CASE SummarizeFails(m)
  BY <1>6, SummarizeStep DEF SummarizeFails
<1>7. CASE CompleteSlowly(m)
  <2>1. Succeeded(pass[m].obj, pass[m].eaRefs) \in Object
    BY PassType, SucceededType
  <2> QED BY <1>0, <1>7, <2>1, MetadataKept, ReturnStep DEF CompleteSlowly
<1>8. CASE Panic(m)
  BY <1>0, <1>8, ReturnStep DEF Panic
<1>9. CASE BuildCollides(m)
  <2>1. PICK n \in pass[m].todo :
           pass' = [pass EXCEPT ![m].pc = "apply", ![m].cur = {n}]
    BY <1>9 DEF BuildCollides
  <2>2. "build" \in Publishing
    BY DEF Publishing
  <2> QED BY <1>0, <1>9, <2>1, <2>2, LocalStep DEF BuildCollides, TypeOK, Pass, At
<1> QED BY <1>1, <1>2, <1>3, <1>4, <1>5, <1>6, <1>7, <1>8, <1>9 DEF Fails

(* An expiring context changes nothing a pass knows of the finalizer.      *)
LEMMA TimeoutStep ==
    ASSUME TypeOK, FinalizerInv, NEW m \in MG, TimeoutExpires(m)
    PROVE  FinalizerInv'
<1>1. pass[m] \in Pass
  BY DEF TypeOK
<1> QED BY <1>1, LocalStep DEF TimeoutExpires, TypeOK, Pass

(* Users: an object with the finalizer stays, and a deletion is final.     *)
LEMMA UserStep ==
    ASSUME TypeOK, FinalizerInv, NEW m \in MG, User(m)
    PROVE  FinalizerInv'
<1>1. mg[m] \in Object
  BY DEF TypeOK
<1>2. /\ pass' = pass /\ cache' = cache
      /\ \A k \in MG \ {m} : mg'[k] = mg[k]
  BY DEF User, Create, EditSpec, Annotate, Request, Delete, UNCHANGED_Controller, TypeOK
<1>3. /\ mg[m].exists /\ mg[m].finalizer => mg'[m].exists /\ mg'[m].finalizer
      /\ mg[m].deleting => mg'[m].deleting
  <2>1. CASE Create(m)
    BY <2>1 DEF Create
  <2>2. CASE EditSpec(m)
    <3>1. PICK s : mg' = [mg EXCEPT ![m].spec = s, ![m].gen = mg[m].gen + 1]
      BY <2>2 DEF EditSpec
    <3>2. mg'[m] = [mg[m] EXCEPT !.spec = s, !.gen = mg[m].gen + 1]
      BY <1>1, <3>1 DEF TypeOK, Object
    <3> QED BY <1>1, <3>2 DEF Object
  <2>4. CASE Annotate(m)
    <3>1. PICK a : mg' = [mg EXCEPT ![m].annotation = a]
      BY <2>4 DEF Annotate
    <3> QED BY <1>1, <3>1 DEF TypeOK, Object
  <2>5. CASE Request(m)
    BY <1>1, <2>5 DEF Request, TypeOK, Object
  <2>3. CASE Delete(m)
    <3> DEFINE d == [mg[m] EXCEPT !.deleting = TRUE, !.gen = mg[m].gen + 1]
    <3>1. mg'[m] = Reap(d)
      BY <2>3 DEF Delete, TypeOK
    <3>2. d.deleting /\ d.exists = mg[m].exists /\ d.finalizer = mg[m].finalizer
      BY <1>1 DEF Object
    <3> HIDE DEF d
    <3> QED BY <3>1, <3>2 DEF Reap, Absent
  <2> QED BY <2>1, <2>2, <2>3, <2>4, <2>5 DEF User
<1>4. ASSUME NEW k \in MG
      PROVE  (CacheKnowsFinalizer(k) /\ PassKeepsFinalizer(k))'
  <2>1. CacheKnowsFinalizer(k) /\ PassKeepsFinalizer(k)
    BY DEF FinalizerInv
  <2>2. CASE k = m
    BY <1>2, <1>3, <2>1, <2>2 DEF CacheKnowsFinalizer, PassKeepsFinalizer, Reconcilable
  <2>3. CASE k # m
    BY <1>2, <2>1, <2>3 DEF CacheKnowsFinalizer, PassKeepsFinalizer, Reconcilable
  <2> QED BY <2>2, <2>3
<1> QED BY <1>4 DEF FinalizerInv

(* Nothing is cached and nothing runs at first.                            *)
LEMMA InitFinalizer == Init => FinalizerInv
BY DEF Init, FinalizerInv, CacheKnowsFinalizer, PassKeepsFinalizer, Reconcilable,
       Idle, Absent, Publishing

(* Every step keeps the finalizer invariant.                               *)
LEMMA NextFinalizer == TypeOK /\ FinalizerInv /\ [Next]_vars => FinalizerInv'
<1> SUFFICES ASSUME TypeOK, FinalizerInv, [Next]_vars PROVE FinalizerInv'
  OBVIOUS
<1> USE DEF CacheKnowsFinalizer, PassKeepsFinalizer, Reconcilable
<1>1. CASE SourceChange \/ DeliverSource
  BY <1>1 DEF SourceChange, DeliverSource, UNCHANGED_Controller, FinalizerInv
<1>2. CASE \E kind \in {"crash", "podloss"} : Restart(kind)
  BY <1>2 DEF Restart, FinalizerInv, Idle, Absent, Publishing
<1>3. ASSUME NEW m \in MG, DeliverManifestGenerator(m)
      PROVE  FinalizerInv'
  <2>1. ASSUME NEW k \in MG
        PROVE  (CacheKnowsFinalizer(k) /\ PassKeepsFinalizer(k))'
    BY <1>3 DEF DeliverManifestGenerator, FinalizerInv, TypeOK
  <2> QED BY <2>1 DEF FinalizerInv
<1>4. ASSUME NEW m \in MG, RetryTimerFires(m) \/ IntervalTimerFires(m)
      PROVE  FinalizerInv'
  BY <1>4 DEF RetryTimerFires, IntervalTimerFires, TimerFires, FinalizerInv
<1>5. ASSUME NEW m \in MG,
             User(m) \/ Start(m) \/ Work(m) \/ Fails(m) \/ TimeoutExpires(m)
      PROVE  FinalizerInv'
  BY <1>5, UserStep, StartStep, WorkStep, FailsStep, TimeoutStep
<1>6. CASE UNCHANGED vars
  BY <1>6 DEF FinalizerInv, vars
<1> QED BY <1>1, <1>2, <1>3, <1>4, <1>5, <1>6 DEF Next

(* What the cache and a running pass believe of the finalizer is true, in  *)
(* every reachable state.                                                  *)
THEOREM FinalizerInvariant == Spec => []FinalizerInv
<1>1. Spec => []TypeOK
  BY TypeCorrect
<1> QED BY <1>1, InitFinalizer, NextFinalizer, PTL DEF Spec

(* However stale the cache, and whatever fails or restarts in between, no  *)
(* ExternalArtifact is applied or published for a ManifestGenerator that   *)
(* is gone or does not hold the finalizer.                                 *)
THEOREM PublishesUnderFinalizer == Spec => PublishedUnderFinalizer
<1>1. FinalizerInv =>
        [\A m \in MG : (ApplyExternalArtifact(m) \/ PatchExternalArtifactStatus(m))
                          => mg[m].exists /\ mg[m].finalizer]_vars
  BY DEF FinalizerInv, PassKeepsFinalizer, ApplyExternalArtifact,
         PatchExternalArtifactStatus, At, Publishing
<1> QED BY <1>1, FinalizerInvariant, PTL DEF PublishedUnderFinalizer

-----------------------------------------------------------------------------
(* Types of the numbers that are compared.                                 *)

(* The numbers and flags of an object.                                     *)
LEMMA ObjectFields ==
    ASSUME NEW o \in Object
    PROVE  /\ o.gen \in Nat /\ o.requestedAt \in Nat
           /\ o.status.observedGeneration \in Nat /\ o.status.lastHandled \in Nat
           /\ o.exists \in BOOLEAN /\ o.deleting \in BOOLEAN /\ o.finalizer \in BOOLEAN
BY BoundsAssumption DEF Object, Status, Gen

(* The numbers in the state.                                               *)
LEMMA StateNumbers ==
    ASSUME TypeOK
    PROVE  /\ src \in Nat /\ srcCache \in Nat
           /\ \A m \in MG : /\ mg[m] \in Object /\ cache[m] \in Object
                            /\ pass[m] \in Pass
                            /\ pass[m].obj \in Object /\ pass[m].before \in Object
                            /\ pass[m].rev \in Nat
           /\ \A n \in Name : ea[n].content.gen \in Nat /\ ea[n].content.rev \in Nat
<1>1. \A m \in MG : /\ mg[m] \in Object /\ cache[m] \in Object /\ pass[m] \in Pass
  BY DEF TypeOK
<1>2. \A m \in MG : /\ pass[m].obj \in Object /\ pass[m].before \in Object
                    /\ pass[m].rev \in Nat
  BY <1>1, BoundsAssumption DEF Pass, Rev
<1>3. \A n \in Name : ea[n].content.gen \in Nat /\ ea[n].content.rev \in Nat
  BY BoundsAssumption DEF TypeOK, EA, Content, Gen, Rev
<1>4. src \in Nat /\ srcCache \in Nat
  BY BoundsAssumption DEF TypeOK, Rev
<1> QED BY <1>1, <1>2, <1>3, <1>4

-----------------------------------------------------------------------------
(* What the operators on objects leave alone.                              *)

(* The condition helpers change conditions only.                           *)
LEMMA MarkKeeps ==
    ASSUME NEW o \in Object, NEW st
    PROVE  /\ MarkReady(o, st).gen = o.gen
           /\ MarkReady(o, st).requestedAt = o.requestedAt
           /\ MarkReady(o, st).status = o.status
           /\ MarkReconciling(o).gen = o.gen
           /\ MarkReconciling(o).requestedAt = o.requestedAt
           /\ MarkReconciling(o).status = o.status
           /\ MarkStalled(o).gen = o.gen
           /\ MarkStalled(o).requestedAt = o.requestedAt
           /\ MarkStalled(o).status = o.status
BY DEF MarkReady, MarkReconciling, MarkStalled, Object

(* addFinalizer touches neither the spec's version nor the status.         *)
LEMMA AddFinalizerKeeps ==
    ASSUME NEW o \in Object
    PROVE  /\ AddFinalizer(o).gen = o.gen
           /\ AddFinalizer(o).requestedAt = o.requestedAt
           /\ AddFinalizer(o).status = o.status
           /\ AddFinalizer(o).deleting = o.deleting
           /\ AddFinalizer(o).finalizer
<1> DEFINE f == [o EXCEPT !.finalizer = TRUE]
<1>1. /\ f \in Object /\ f.gen = o.gen /\ f.requestedAt = o.requestedAt
      /\ f.status = o.status /\ f.deleting = o.deleting /\ f.finalizer
  BY DEF Object
<1>2. AddFinalizer(o) = IF IsDisabled(o) THEN MarkReady(f, "True")
                        ELSE MarkReconciling(MarkReady(f, "Unknown"))
  BY DEF AddFinalizer
<1> HIDE DEF f
<1>3. MarkReady(f, "Unknown") \in Object
  BY <1>1, MarkType
<1> QED BY <1>1, <1>2, <1>3, MarkKeeps, MetadataKept

(* A successful pass records its own generation and no request.            *)
LEMMA SucceededRecords ==
    ASSUME NEW o \in Object, NEW refs \in SUBSET Ref
    PROVE  /\ Succeeded(o, refs).gen = o.gen
           /\ Succeeded(o, refs).requestedAt = o.requestedAt
           /\ Succeeded(o, refs).status.observedGeneration = o.gen
           /\ Succeeded(o, refs).status.lastHandled = o.status.lastHandled
<1> DEFINE s == [o EXCEPT !.status.inventory = refs, !.status.observedGeneration = o.gen]
<1>1. /\ s \in Object /\ s.gen = o.gen /\ s.requestedAt = o.requestedAt
      /\ s.status.observedGeneration = o.gen
      /\ s.status.lastHandled = o.status.lastHandled
  BY DEF Object, Status
<1>2. Succeeded(o, refs) = MarkReady(s, "True")
  BY DEF Succeeded
<1> HIDE DEF s
<1> QED BY <1>1, <1>2, MarkKeeps

(* summarizeStatus records at most the request the pass has read.          *)
LEMMA SummaryRecords ==
    ASSUME NEW o \in Object
    PROVE  /\ Summary(o).status.observedGeneration = o.status.observedGeneration
           /\ Summary(o).status.lastHandled \in {o.status.lastHandled, o.requestedAt}
BY DEF Summary, Object, Status

(* What a patch can do to an object of the API server: take it away, if it *)
(* was being deleted, or write values the pass changed.                    *)
WrittenBack(b, s, api, r) ==
    \/ r = Absent(api.gen, TRUE) /\ api.deleting
    \/ /\ r.gen = api.gen /\ r.requestedAt = api.requestedAt
       /\ (r.exists <=> api.exists) /\ (r.deleting <=> api.deleting)
       /\ r.deleting => r.finalizer
       /\ r.finalizer # api.finalizer =>
             r.finalizer = s.finalizer /\ s.finalizer # b.finalizer
       /\ r.status.observedGeneration # api.status.observedGeneration =>
             /\ r.status.observedGeneration = s.status.observedGeneration
             /\ s.status.observedGeneration # b.status.observedGeneration
       /\ r.status.lastHandled # api.status.lastHandled =>
             /\ r.status.lastHandled = s.status.lastHandled
             /\ s.status.lastHandled # b.status.lastHandled

(* Whatever parts of the patch succeed.                                    *)
LEMMA PatchedWrites ==
    ASSUME NEW b \in Object, NEW s \in Object, NEW api \in Object, NEW parts
    PROVE  WrittenBack(b, s, api, Patched(b, s, api, parts))
<1> DEFINE f == IF "metadata" \in parts
                THEN Merge(b.finalizer, s.finalizer, api.finalizer)
                ELSE api.finalizer
           c == IF "conditions" \in parts
                THEN MergeConditions(b.conditions, s.conditions, api.conditions)
                ELSE api.conditions
           t == IF "status" \in parts
                THEN MergeStatus(b.status, s.status, api.status)
                ELSE api.status
           w == [api EXCEPT !.conditions = c, !.finalizer = f, !.status = t]
<1>1. Patched(b, s, api, parts) = Reap(w)
  BY DEF Patched
<1>2. f # api.finalizer => f = s.finalizer /\ s.finalizer # b.finalizer
  BY Zenon DEF Merge
<1>3. /\ t.observedGeneration # api.status.observedGeneration =>
            /\ t.observedGeneration = s.status.observedGeneration
            /\ s.status.observedGeneration # b.status.observedGeneration
      /\ t.lastHandled # api.status.lastHandled =>
            /\ t.lastHandled = s.status.lastHandled
            /\ s.status.lastHandled # b.status.lastHandled
  BY DEF MergeStatus, Merge
<1> HIDE DEF f, c, t
<1>4. /\ w.gen = api.gen /\ w.requestedAt = api.requestedAt /\ w.exists = api.exists
      /\ w.deleting = api.deleting /\ w.finalizer = f /\ w.status = t
  BY DEF Object
<1> HIDE DEF w
<1>5. CASE w.deleting /\ ~w.finalizer
  BY <1>1, <1>4, <1>5 DEF Reap, WrittenBack
<1>6. CASE ~(w.deleting /\ ~w.finalizer)
  <2>1. Patched(b, s, api, parts) = w
    BY <1>1, <1>6 DEF Reap
  <2> QED BY <1>2, <1>3, <1>4, <1>6, <2>1 DEF WrittenBack
<1> QED BY <1>5, <1>6

-----------------------------------------------------------------------------
(* Steps, by what they touch.                                              *)

(* A generator none of whose copies changes, and under whose digest        *)
(* nothing new is published, keeps its history.                            *)
LEMMA OtherHistory ==
    ASSUME NEW k \in MG, History(k), mg'[k] = mg[k], cache'[k] = cache[k],
           pass'[k] = pass[k], srcCache' = srcCache,
           \A n \in Name : ea'[n].content.by = {k} => ea'[n].content = ea[n].content
    PROVE  History(k)'
BY DEF History, CopiesInOrder, GoneIsEmpty, HandledWasRead, PublishedWasRead, PassInOrder,
       At, Idle, Absent

(* A step inside the pass of m that leaves the API object and the cache    *)
(* alone, and the version of the object it works on.                       *)
LEMMA PassHistory ==
    ASSUME HistoryInv, NEW m \in MG, UNCHANGED <<mg, cache, src, srcCache>>,
           \A k \in MG \ {m} : pass'[k] = pass[k],
           \A n \in Name : \A k \in MG : ea'[n].content.by = {k} => ea'[n].content = ea[n].content,
           pass[m].pc # "idle", pass'[m].pc # "idle",
           pass'[m].obj.gen = pass[m].obj.gen,
           pass'[m].obj.requestedAt = pass[m].obj.requestedAt,
           pass'[m].rev <= srcCache,
           pass'[m].pc \in HasRevision =>
              pass[m].pc \in HasRevision /\ pass'[m].rev = pass[m].rev,
           PassInOrder(m)'
    PROVE  HistoryInv'
<1>1. History(m)
  BY DEF HistoryInv
<1>2. mg[m].gen # 0
  BY <1>1 DEF History, CopiesInOrder, Idle
<1>3. CopiesInOrder(m)' /\ GoneIsEmpty(m)' /\ HandledWasRead(m)'
  BY <1>1, <1>2 DEF History, CopiesInOrder, GoneIsEmpty, HandledWasRead, At, Absent
<1>4. PublishedWasRead(m)'
  BY <1>1 DEF History, PublishedWasRead, At
<1>5. History(m)'
  BY <1>3, <1>4 DEF History
<1>6. \A k \in MG \ {m} : History(k)'
  BY OtherHistory DEF HistoryInv
<1>7. (srcCache <= src)'
  BY DEF HistoryInv
<1> QED BY <1>5, <1>6, <1>7 DEF HistoryInv

(* One that leaves the object and the one it is compared with alone.       *)
LEMMA LocalHistory ==
    ASSUME HistoryInv, NEW m \in MG, UNCHANGED <<mg, cache, src, srcCache>>,
           \A k \in MG \ {m} : pass'[k] = pass[k],
           \A n \in Name : \A k \in MG : ea'[n].content.by = {k} => ea'[n].content = ea[n].content,
           pass'[m].obj = pass[m].obj, pass'[m].before = pass[m].before,
           pass[m].pc # "idle", pass'[m].pc # "idle",
           pass'[m].pc = pass[m].pc \/ "summarize" \notin {pass[m].pc, pass'[m].pc},
           pass'[m].pc \in {"apply", "eastatus", "cleanea"} =>
              \E n \in Name : pass'[m].cur = {n},
           pass'[m].rev <= srcCache,
           pass'[m].pc \in HasRevision =>
              pass[m].pc \in HasRevision /\ pass'[m].rev = pass[m].rev
    PROVE  HistoryInv'
<1>1. PassInOrder(m)
  BY DEF HistoryInv, History
<1>2. PassInOrder(m)'
  BY <1>1 DEF PassInOrder
<1> QED BY <1>2, PassHistory

(* A pass returns with the object it has, conditions apart, or, after the  *)
(* cleanup of a live object, with its generation recorded.                 *)
LEMMA ReturnHistory ==
    ASSUME TypeOK, HistoryInv, NEW m \in MG,
           UNCHANGED <<mg, cache, src, srcCache, ea>>,
           NEW obj \in Object, NEW outcome, Return(m, obj, outcome),
           pass[m].pc \notin {"idle", "summarize"},
           obj.gen = pass[m].obj.gen, obj.requestedAt = pass[m].obj.requestedAt,
           obj.deleting = pass[m].obj.deleting,
           obj.finalizer = pass[m].obj.finalizer \/ obj.deleting,
           obj.status.lastHandled = pass[m].obj.status.lastHandled,
           \/ obj.status.observedGeneration = pass[m].obj.status.observedGeneration
           \/ obj.status.observedGeneration = obj.gen /\ ~obj.deleting
    PROVE  HistoryInv'
<1>1. pass'[m] = [Idle EXCEPT !.pc = "summarize", !.obj = obj,
                     !.before = pass[m].before, !.outcome = outcome,
                     !.expired = pass[m].expired]
  BY DEF Return, TypeOK
<1>2. /\ pass'[m].pc = "summarize" /\ pass'[m].obj = obj
      /\ pass'[m].before = pass[m].before /\ pass'[m].rev = 0
  BY <1>1 DEF Idle
<1>3. \A k \in MG \ {m} : pass'[k] = pass[k]
  BY DEF Return, TypeOK
<1>4. PassInOrder(m)
  BY DEF HistoryInv, History
<1>5. PassInOrder(m)'
  BY <1>2, <1>4 DEF PassInOrder
<1>6. pass'[m].pc \notin HasRevision /\ pass'[m].rev <= srcCache
  BY <1>2, StateNumbers DEF HasRevision
<1> QED BY <1>2, <1>3, <1>5, <1>6, PassHistory

(* A failing branch.                                                       *)
LEMMA FailedHistory ==
    ASSUME TypeOK, HistoryInv, NEW m \in MG,
           UNCHANGED <<mg, cache, src, srcCache, ea>>, Failed(m),
           pass[m].pc \notin {"idle", "summarize"}
    PROVE  HistoryInv'
<1>1. pass[m].obj \in Object
  BY PassType
<1>2. MarkReady(pass[m].obj, "False") \in Object
  BY <1>1, MarkType
<1> QED BY <1>1, <1>2, MarkKeeps, MetadataKept, ReturnHistory DEF Failed

(* A pass begins on the cached object.                                     *)
LEMMA BeginHistory ==
    ASSUME TypeOK, FinalizerInv, HistoryInv, NEW m \in MG,
           NEW pc \in {"progress", "clean", "summarize"}, NEW obj \in Object,
           NEW orphans, NEW outcome, Begin(m, pc, obj, orphans, outcome),
           cache[m].exists,
           obj.gen = cache[m].gen, obj.requestedAt = cache[m].requestedAt,
           obj.status = cache[m].status, obj.deleting = cache[m].deleting,
           cache[m].finalizer => obj.finalizer,
           pc # "summarize" => cache[m].finalizer \/ cache[m].deleting
    PROVE  HistoryInv'
<1>1. /\ UNCHANGED <<mg, cache, src, srcCache, ea>>
      /\ \A k \in MG \ {m} : pass'[k] = pass[k]
  BY DEF Begin, Take, TypeOK
<1>2. pass'[m] = [Idle EXCEPT !.pc = pc, !.obj = obj, !.before = cache[m],
                              !.orphans = orphans, !.outcome = outcome]
  BY DEF Begin, TypeOK
<1>3. /\ pass'[m].pc = pc /\ pass'[m].obj = obj /\ pass'[m].before = cache[m]
      /\ pass'[m].rev = 0
  BY <1>2 DEF Idle
<1>4. History(m) /\ CacheKnowsFinalizer(m)
  BY DEF HistoryInv, FinalizerInv
<1>5. mg[m].gen # 0
  BY <1>4 DEF History, CopiesInOrder, GoneIsEmpty, Absent
<1>t. /\ cache[m].gen \in Nat /\ cache[m].requestedAt \in Nat /\ mg[m].gen \in Nat
      /\ cache[m].exists \in BOOLEAN /\ cache[m].deleting \in BOOLEAN
      /\ cache[m].finalizer \in BOOLEAN /\ srcCache \in Nat
  BY StateNumbers, ObjectFields
<1>6. CopiesInOrder(m)' /\ GoneIsEmpty(m)'
  BY <1>1, <1>3, <1>4, <1>5, <1>t DEF History, CopiesInOrder, GoneIsEmpty, Absent
<1>7. HandledWasRead(m)'
  BY <1>1, <1>3, <1>4 DEF History, HandledWasRead, At
<1>8. PublishedWasRead(m)'
  BY <1>1, <1>3, <1>4, <1>t DEF History, PublishedWasRead, At, HasRevision
<1>9. PassInOrder(m)'
  BY <1>1, <1>3, <1>4, <1>t DEF PassInOrder, CacheKnowsFinalizer, Reconcilable
<1>10. \A k \in MG \ {m} : History(k)'
  BY <1>1, OtherHistory DEF HistoryInv
<1> QED BY <1>1, <1>6, <1>7, <1>8, <1>9, <1>10 DEF HistoryInv, History

-----------------------------------------------------------------------------
(* The actions.                                                            *)

(* The head of Reconcile: whatever it marks, it works on the cached spec   *)
(* and status.                                                             *)
LEMMA StartHistory ==
    ASSUME TypeOK, FinalizerInv, HistoryInv, NEW m \in MG, Start(m) \/ StartTmpDirFails(m)
    PROVE  HistoryInv'
<1> DEFINE c == cache[m]
<1>0. c \in Object
  BY DEF TypeOK
<1>1. CASE StartGone(m)
  BY <1>1, OtherHistory DEF StartGone, Take, HistoryInv
<1>2. CASE StartFinalize(m)
  BY <1>0, <1>2, BeginHistory DEF StartFinalize
<1>3. CASE StartAddFinalizer(m)
  BY <1>0, <1>3, AddFinalizerType, AddFinalizerKeeps, BeginHistory DEF StartAddFinalizer
<1>4. CASE StartDisabled(m)
  BY <1>0, <1>4, BeginHistory DEF StartDisabled, Reconcilable
<1>5. CASE StartInvalid(m)
  <2>1. MarkReady(c, "False") \in Object
    BY <1>0, MarkType
  <2>2. NewTerminalErrorFor(c) \in Object
    BY <2>1, MarkType DEF NewTerminalErrorFor
  <2>3. /\ NewTerminalErrorFor(c).finalizer = c.finalizer
        /\ NewTerminalErrorFor(c).deleting = c.deleting
        /\ NewTerminalErrorFor(c).gen = c.gen
        /\ NewTerminalErrorFor(c).requestedAt = c.requestedAt
        /\ NewTerminalErrorFor(c).status = c.status
    BY <1>0, <2>1, MetadataKept, MarkKeeps DEF NewTerminalErrorFor
  <2> QED BY <1>5, <2>2, <2>3, BeginHistory DEF StartInvalid, Reconcilable
<1>6. CASE StartReconcile(m)
  <2> DEFINE o == MarkReady(MarkReconciling(c), "Unknown")
  <2>1. MarkReconciling(c) \in Object
    BY <1>0, MarkType
  <2>2. /\ o \in Object /\ o.finalizer = c.finalizer /\ o.deleting = c.deleting
        /\ o.gen = c.gen /\ o.requestedAt = c.requestedAt /\ o.status = c.status
    BY <1>0, <2>1, MarkType, MetadataKept, MarkKeeps
  <2>3. Begin(m, "progress", o, {}, "none") /\ c.exists /\ c.finalizer
    BY <1>6 DEF StartReconcile, Reconcilable
  <2> HIDE DEF o
  <2> QED BY <2>2, <2>3, BeginHistory
<1>7. CASE StartTmpDirFails(m)
  BY <1>0, <1>7, BeginHistory DEF StartTmpDirFails, Reconcilable
<1> QED BY <1>1, <1>2, <1>3, <1>4, <1>5, <1>6, <1>7 DEF Start

(* summarizeStatus writes back a generation and a request that the pass    *)
(* has read, and nothing older than the API has.                           *)
LEMMA SummarizeHistory ==
    ASSUME TypeOK, HistoryInv, NEW m \in MG, NEW parts,
           UNCHANGED <<cache, src, srcCache, ea>>,
           pass[m].pc = "summarize", mg[m].exists,
           mg' = [mg EXCEPT ![m] =
                    Patched(pass[m].before, Summary(pass[m].obj), mg[m], parts)],
           pass' = [pass EXCEPT ![m] = Idle]
    PROVE  HistoryInv'
<1> DEFINE o == pass[m].obj
           b == pass[m].before
           s == Summary(o)
           r == Patched(b, s, mg[m], parts)
<1>1. History(m)
  BY DEF HistoryInv
<1>2. mg[m] \in Object /\ cache[m] \in Object /\ b \in Object /\ o \in Object /\ srcCache \in Nat
  BY StateNumbers
<1>3. /\ s \in Object
      /\ s.status.observedGeneration = o.status.observedGeneration
      /\ s.status.lastHandled \in {o.status.lastHandled, o.requestedAt}
  BY <1>2, SummaryType, SummaryRecords
<1>4. mg'[m] = r /\ pass'[m] = Idle /\ \A k \in MG \ {m} : mg'[k] = mg[k] /\ pass'[k] = pass[k]
  BY DEF TypeOK
<1>w. WrittenBack(b, s, mg[m], r)
  BY <1>2, <1>3, PatchedWrites
<1> HIDE DEF r, s
<1>5. \A k \in MG \ {m} : History(k)'
  BY <1>4, OtherHistory DEF HistoryInv
<1>6. /\ o.gen <= cache[m].gen /\ o.requestedAt <= cache[m].requestedAt
      /\ cache[m].requestedAt <= mg[m].requestedAt /\ cache[m].gen <= mg[m].gen
      /\ mg[m].status.observedGeneration <= cache[m].gen
      /\ mg[m].status.lastHandled <= cache[m].requestedAt
      /\ mg[m].gen # 0
  BY <1>1 DEF History, CopiesInOrder, HandledWasRead, At
<1>7. /\ o.status.observedGeneration # b.status.observedGeneration =>
             o.status.observedGeneration = o.gen
      /\ o.status.lastHandled = b.status.lastHandled
  BY <1>1 DEF History, PassInOrder
<1>8. Idle.obj.gen = 0 /\ Idle.obj.requestedAt = 0 /\ Idle.rev = 0 /\ Idle.pc = "idle"
  BY DEF Idle, Absent
<1>t. /\ cache[m].gen \in Nat /\ cache[m].requestedAt \in Nat /\ mg[m].gen \in Nat
      /\ mg[m].requestedAt \in Nat
  BY <1>2, ObjectFields
<1>9. CopiesInOrder(m)' /\ GoneIsEmpty(m)' /\ HandledWasRead(m)'
  <2>1. CASE r = Absent(mg[m].gen, TRUE)
    <3>1. /\ r.gen = mg[m].gen /\ ~r.exists /\ r.deleting
          /\ r.status.observedGeneration = 0 /\ r.status.lastHandled = 0
      BY <2>1 DEF Absent, NoStatus
    <3>2. r = Absent(r.gen, r.gen # 0)
      BY <1>6, <2>1, <3>1
    <3> QED BY <1>4, <1>6, <1>8, <1>t, <3>1, <3>2
            DEF CopiesInOrder, GoneIsEmpty, HandledWasRead, At
  <2>2. CASE r # Absent(mg[m].gen, TRUE)
    <3>1. /\ r.gen = mg[m].gen /\ r.requestedAt = mg[m].requestedAt
          /\ r.exists /\ (r.deleting => r.finalizer)
      BY <1>w, <2>2 DEF WrittenBack
    <3>2. /\ r.status.observedGeneration <= cache[m].gen
          /\ r.status.lastHandled <= cache[m].requestedAt
      BY <1>3, <1>6, <1>7, <1>w, <2>2 DEF WrittenBack
    <3> QED BY <1>4, <1>6, <1>8, <1>t, <3>1, <3>2
            DEF CopiesInOrder, GoneIsEmpty, HandledWasRead, At
  <2> QED BY <2>1, <2>2
<1>11. PublishedWasRead(m)'
  BY <1>1, <1>2, <1>4, <1>8 DEF History, PublishedWasRead, At, HasRevision
<1>12. PassInOrder(m)'
  BY <1>4 DEF PassInOrder, Idle, Absent
<1>13. History(m)'
  BY <1>9, <1>11, <1>12 DEF History
<1> QED BY <1>5, <1>13 DEF HistoryInv

(* The progress patch writes conditions only.                              *)
LEMMA ProgressHistory ==
    ASSUME TypeOK, FinalizerInv, HistoryInv, NEW m \in MG, PatchProgress(m)
    PROVE  HistoryInv'
<1> DEFINE o == pass[m].obj
           b == pass[m].before
           r == Patched(b, o, mg[m], Parts)
<1>1. History(m) /\ PassKeepsFinalizer(m)
  BY DEF HistoryInv, FinalizerInv
<1>2. mg[m] \in Object /\ cache[m] \in Object /\ b \in Object /\ o \in Object /\ pass[m] \in Pass
  BY StateNumbers
<1>3. /\ UNCHANGED <<cache, src, srcCache, ea>>
      /\ mg'[m] = r /\ \A k \in MG \ {m} : mg'[k] = mg[k] /\ pass'[k] = pass[k]
      /\ pass[m].pc = "progress"
  BY DEF PatchProgress, TypeOK, At
<1>4. /\ pass'[m].pc = "observe" /\ pass'[m].obj = o /\ pass'[m].before = o
      /\ pass'[m].rev = pass[m].rev
  BY <1>2 DEF PatchProgress, TypeOK, Pass
<1>5. \A k \in MG \ {m} : History(k)'
  BY <1>3, OtherHistory DEF HistoryInv
<1>6. mg[m].exists /\ mg[m].finalizer /\ o.finalizer
  BY <1>1, <1>3 DEF PassKeepsFinalizer, Publishing
<1>7. r.exists /\ r.finalizer
  BY <1>2, <1>6, PatchedMetadata
<1>8. o.status = b.status
  BY <1>1, <1>3 DEF History, PassInOrder
<1>9. /\ r.gen = mg[m].gen /\ r.requestedAt = mg[m].requestedAt
      /\ r.status.observedGeneration = mg[m].status.observedGeneration
      /\ r.status.lastHandled = mg[m].status.lastHandled
  <2>1. r # Absent(mg[m].gen, TRUE)
    BY <1>7 DEF Absent
  <2>2. WrittenBack(b, o, mg[m], r)
    BY <1>2, PatchedWrites
  <2> HIDE DEF o, b, r
  <2> QED BY <1>8, <2>1, <2>2 DEF WrittenBack
<1> HIDE DEF o, b, r
<1>10. CopiesInOrder(m)' /\ GoneIsEmpty(m)' /\ HandledWasRead(m)'
  BY <1>1, <1>3, <1>4, <1>6, <1>7, <1>9
     DEF History, CopiesInOrder, GoneIsEmpty, HandledWasRead, At, o, Idle
<1>11. PublishedWasRead(m)'
  BY <1>1, <1>3, <1>4 DEF History, PublishedWasRead, At, HasRevision, o
<1>12. PassInOrder(m)'
  BY <1>3, <1>4, <1>6, <1>7 DEF PassInOrder, o
<1> QED BY <1>3, <1>5, <1>10, <1>11, <1>12 DEF HistoryInv, History

(* Publishing: the new content is the pass's own, which is no older than   *)
(* anything it has published before.                                       *)
LEMMA PublishHistory ==
    ASSUME TypeOK, HistoryInv, NEW m \in MG, PatchExternalArtifactStatus(m)
    PROVE  HistoryInv'
<1>1. PICK n \in pass[m].cur :
        LET refs == pass[m].eaRefs \cup {[name |-> n, content |-> Digest(m)]}
            todo == pass[m].todo \ {n}
        IN  /\ ea' = [ea EXCEPT ![n].content = Digest(m)]
            /\ pass' = [pass EXCEPT
                  ![m].pc = IF todo = {} THEN "clean" ELSE "build",
                  ![m].cur = {}, ![m].todo = todo, ![m].eaRefs = refs,
                  ![m].orphans = IF todo = {}
                      THEN FindOrphanedReferences(pass[m].obj.status.inventory, refs)
                      ELSE {}]
  BY DEF PatchExternalArtifactStatus
<1>2. /\ UNCHANGED <<mg, cache, src, srcCache>> /\ pass[m].pc = "eastatus"
      /\ \A k \in MG \ {m} : pass'[k] = pass[k]
  BY <1>1 DEF PatchExternalArtifactStatus, TypeOK, At
<1>3. n \in Name /\ pass[m] \in Pass
  BY <1>1, PassType DEF TypeOK
<1>4. /\ pass'[m].pc \in {"clean", "build"} /\ pass'[m].obj = pass[m].obj
      /\ pass'[m].before = pass[m].before /\ pass'[m].rev = pass[m].rev
  BY <1>1, <1>3 DEF TypeOK, Pass
<1>5. /\ \A x \in Name \ {n} : ea'[x] = ea[x]
      /\ ea'[n].content = Digest(m)
  BY <1>1, <1>3 DEF TypeOK, EA
<1>6. /\ Digest(m).by = {m} /\ Digest(m).gen = pass[m].obj.gen
      /\ Digest(m).rev = pass[m].rev
  BY DEF Digest
<1>7. History(m)
  BY DEF HistoryInv
<1>8. ASSUME NEW k \in MG \ {m}
      PROVE  History(k)'
  <2>1. \A x \in Name : ea'[x].content.by = {k} => ea'[x].content = ea[x].content
    BY <1>5, <1>6
  <2>2. History(k)
    BY DEF HistoryInv
  <2> QED BY <1>2, <2>1, <2>2, OtherHistory
<1>9. CopiesInOrder(m)' /\ GoneIsEmpty(m)' /\ HandledWasRead(m)' /\ PassInOrder(m)'
  BY <1>2, <1>4, <1>7
     DEF History, CopiesInOrder, GoneIsEmpty, HandledWasRead, PassInOrder, At, Idle
<1>10. PublishedWasRead(m)'
  <2>1. pass[m].obj.gen \in Nat /\ pass[m].rev \in Nat
    BY StateNumbers, ObjectFields
  <2>2. /\ pass[m].obj.gen <= cache[m].gen /\ pass[m].rev <= srcCache
    BY <1>7 DEF History, CopiesInOrder, PublishedWasRead
  <2> QED BY <1>2, <1>4, <1>5, <1>6, <1>7, <2>1, <2>2 DEF History, PublishedWasRead, At, HasRevision
<1> QED BY <1>2, <1>8, <1>9, <1>10 DEF HistoryInv, History

(* The steps of a pass.                                                    *)
LEMMA WorkHistory ==
    ASSUME TypeOK, FinalizerInv, HistoryInv, NEW m \in MG, Work(m)
    PROVE  HistoryInv'
<1> USE DEF At
<1>0. /\ pass[m] \in Pass /\ pass[m].obj \in Object /\ pass[m].rev \in Nat /\ srcCache \in Nat
      /\ pass[m].rev <= srcCache
  BY StateNumbers DEF HistoryInv, History, PublishedWasRead
<1>1. CASE PatchProgress(m)
  BY <1>1, ProgressHistory
<1>2. CASE ObserveSources(m)
  <2>1. /\ pass'[m].pc = "prepare" /\ pass'[m].rev = srcCache
        /\ pass'[m].obj = pass[m].obj /\ pass'[m].before = pass[m].before
        /\ \A k \in MG \ {m} : pass'[k] = pass[k]
    BY <1>0, <1>2 DEF ObserveSources, TypeOK, Pass
  <2>2. UNCHANGED <<mg, cache, src, srcCache, ea>> /\ pass[m].pc = "observe"
    BY <1>2 DEF ObserveSources
  <2>3. History(m)
    BY DEF HistoryInv
  <2>4. CopiesInOrder(m)' /\ GoneIsEmpty(m)' /\ HandledWasRead(m)' /\ PassInOrder(m)'
    BY <2>1, <2>2, <2>3
       DEF History, CopiesInOrder, GoneIsEmpty, HandledWasRead, PassInOrder, Idle
  <2>5. PublishedWasRead(m)'
    BY <1>0, <2>1, <2>2, <2>3 DEF History, PublishedWasRead
  <2>6. \A k \in MG \ {m} : History(k)'
    BY <2>1, <2>2, OtherHistory DEF HistoryInv
  <2> QED BY <2>2, <2>4, <2>5, <2>6 DEF HistoryInv, History
<1>3. CASE SourcesNotReady(m) \/ ExternalArtifactChanged(m)
  BY <1>3, FailedHistory DEF SourcesNotReady, ExternalArtifactChanged
<1>4. CASE Prepare(m)
  BY <1>0, <1>4, LocalHistory DEF Prepare, TypeOK, Pass, HasRevision
<1>5. CASE Build(m)
  <2>1. PICK n \in pass[m].todo :
           pass' = [pass EXCEPT ![m].pc = "apply", ![m].cur = {n}]
    BY <1>5 DEF Build
  <2>2. n \in Name
    BY <2>1, PassType
  <2> QED BY <1>0, <1>5, <2>1, <2>2, LocalHistory DEF Build, TypeOK, Pass, HasRevision
<1>6. CASE ApplyExternalArtifact(m)
  <2>1. PICK n \in pass[m].cur : ea' = [ea EXCEPT ![n].exists = TRUE, ![n].owner = {m}]
    BY <1>6 DEF ApplyExternalArtifact
  <2>2. \A x \in Name : ea'[x].content = ea[x].content
    BY <2>1 DEF TypeOK, EA
  <2>3. \E x \in Name : pass[m].cur = {x}
    BY <1>6 DEF HistoryInv, History, PassInOrder, ApplyExternalArtifact
  <2> QED BY <1>0, <1>6, <2>2, <2>3, LocalHistory
          DEF ApplyExternalArtifact, TypeOK, Pass, HasRevision
<1>7. CASE PatchExternalArtifactStatus(m)
  BY <1>7, PublishHistory
<1>8. CASE CleanStorage(m)
  <2>1. PICK n \in pass[m].orphans :
           pass' = [pass EXCEPT ![m].pc = "cleanea", ![m].cur = {n}]
    BY <1>8 DEF CleanStorage
  <2>2. n \in Name
    BY <2>1, PassType
  <2> QED BY <1>0, <1>8, <2>1, <2>2, LocalHistory DEF CleanStorage, TypeOK, Pass, HasRevision
<1>9. CASE CleanExternalArtifact(m)
  <2>1. ASSUME NEW x \in Name, NEW k \in MG, ea'[x].content.by = {k}
        PROVE  ea'[x].content = ea[x].content
    BY <1>9, <2>1 DEF CleanExternalArtifact, NoEA, NoContent
  <2>2. /\ UNCHANGED <<mg, cache, src, srcCache>> /\ pass[m].pc = "cleanea"
        /\ \A k \in MG \ {m} : pass'[k] = pass[k]
        /\ pass'[m].pc = "clean" /\ pass'[m].rev = pass[m].rev
        /\ pass'[m].obj = pass[m].obj /\ pass'[m].before = pass[m].before
    BY <1>0, <1>9 DEF CleanExternalArtifact, CleanNext, TypeOK, Pass
  <2> QED BY <1>0, <2>1, <2>2, LocalHistory DEF HasRevision
<1>10. CASE Complete(m)
  <2> DEFINE o == Succeeded(pass[m].obj, pass[m].eaRefs)
  <2>1. pass[m].eaRefs \in SUBSET Ref
    BY PassType
  <2>2. /\ o \in Object /\ o.gen = pass[m].obj.gen
        /\ o.requestedAt = pass[m].obj.requestedAt
        /\ o.status.observedGeneration = o.gen
        /\ o.status.lastHandled = pass[m].obj.status.lastHandled
        /\ o.finalizer = pass[m].obj.finalizer /\ o.deleting = pass[m].obj.deleting
    BY <1>0, <2>1, SucceededType, SucceededRecords, MetadataKept
  <2>3. /\ Return(m, o, "interval") /\ ~pass[m].obj.deleting /\ pass[m].pc = "clean"
        /\ UNCHANGED <<mg, cache, src, srcCache, ea>>
    BY <1>10 DEF Complete
  <2> HIDE DEF o
  <2> QED BY <2>2, <2>3, ReturnHistory
<1>11. CASE RemoveFinalizer(m)
  <2> DEFINE o == [pass[m].obj EXCEPT !.finalizer = FALSE]
  <2>1. /\ o \in Object /\ o.gen = pass[m].obj.gen
        /\ o.requestedAt = pass[m].obj.requestedAt
        /\ o.status = pass[m].obj.status /\ o.deleting = pass[m].obj.deleting
    BY <1>0 DEF Object
  <2>2. /\ Return(m, o, "stop") /\ pass[m].obj.deleting /\ pass[m].pc = "clean"
        /\ UNCHANGED <<mg, cache, src, srcCache, ea>>
    BY <1>11 DEF RemoveFinalizer
  <2> HIDE DEF o
  <2>3. o.deleting
    BY <2>1, <2>2
  <2> QED BY <2>1, <2>2, <2>3, ReturnHistory
<1>12. CASE Summarize(m)
  BY <1>12, SummarizeHistory DEF Summarize
<1>13. CASE SummarizeGone(m)
  <2>1. /\ UNCHANGED <<mg, cache, src, srcCache, ea>> /\ pass[m].pc = "summarize"
        /\ pass'[m] = Idle /\ \A k \in MG \ {m} : pass'[k] = pass[k]
    BY <1>13 DEF SummarizeGone, TypeOK
  <2>2. /\ Idle.obj.gen = 0 /\ Idle.obj.requestedAt = 0 /\ Idle.rev = 0 /\ Idle.pc = "idle"
    BY DEF Idle, Absent
  <2>3. History(m) /\ cache[m].gen \in Nat /\ cache[m].requestedAt \in Nat
    BY StateNumbers, ObjectFields DEF HistoryInv
  <2>4. CopiesInOrder(m)' /\ GoneIsEmpty(m)' /\ HandledWasRead(m)'
    BY <2>1, <2>2, <2>3 DEF History, CopiesInOrder, GoneIsEmpty, HandledWasRead
  <2>5. PublishedWasRead(m)'
    BY <1>0, <2>1, <2>2, <2>3 DEF History, PublishedWasRead, HasRevision
  <2>6. PassInOrder(m)'
    BY <2>1 DEF PassInOrder, Idle, Absent
  <2>7. \A k \in MG \ {m} : History(k)'
    BY <2>1, OtherHistory DEF HistoryInv
  <2> QED BY <2>1, <2>4, <2>5, <2>6, <2>7 DEF HistoryInv, History
<1> QED
  BY <1>1, <1>2, <1>3, <1>4, <1>5, <1>6, <1>7, <1>8, <1>9, <1>10, <1>11, <1>12, <1>13
     DEF Work

(* Failing calls record and publish nothing.                               *)
LEMMA FailsHistory ==
    ASSUME TypeOK, FinalizerInv, HistoryInv, NEW m \in MG, Fails(m)
    PROVE  HistoryInv'
<1> USE DEF At
<1>0. /\ pass[m] \in Pass /\ pass[m].obj \in Object /\ pass[m].rev \in Nat /\ srcCache \in Nat
      /\ pass[m].rev <= srcCache
  BY StateNumbers DEF HistoryInv, History, PublishedWasRead
<1>1. CASE StartTmpDirFails(m)
  BY <1>1, StartHistory
<1>2. CASE PatchProgressFails(m)
  BY <1>0, <1>2, ReturnHistory DEF PatchProgressFails
<1>3. CASE PrepareFails(m) \/ BuildFails(m) \/ ExternalArtifactFails(m)
  BY <1>3, FailedHistory DEF PrepareFails, BuildFails, ExternalArtifactFails
<1>4. CASE CleanStorageFails(m)
  <2>1. PICK n \in pass[m].orphans :
           pass' = [pass EXCEPT ![m].pc = "cleanea", ![m].cur = {n}]
    BY <1>4 DEF CleanStorageFails
  <2>2. n \in Name
    BY <2>1, PassType
  <2> QED BY <1>0, <1>4, <2>1, <2>2, LocalHistory
          DEF CleanStorageFails, TypeOK, Pass, HasRevision
<1>5. CASE CleanExternalArtifactFails(m)
  BY <1>0, <1>5, LocalHistory
     DEF CleanExternalArtifactFails, CleanNext, TypeOK, Pass, HasRevision
<1>6. CASE SummarizeFails(m)
  <2>1. PICK parts : mg' = [mg EXCEPT ![m] =
                   Patched(pass[m].before, Summary(pass[m].obj), mg[m], parts)]
    BY <1>6 DEF SummarizeFails
  <2> QED BY <1>6, <2>1, SummarizeHistory DEF SummarizeFails
<1>7. CASE CompleteSlowly(m)
  <2> DEFINE o == Succeeded(pass[m].obj, pass[m].eaRefs)
  <2>1. pass[m].eaRefs \in SUBSET Ref
    BY PassType
  <2>2. /\ o \in Object /\ o.gen = pass[m].obj.gen
        /\ o.requestedAt = pass[m].obj.requestedAt
        /\ o.status.observedGeneration = o.gen
        /\ o.status.lastHandled = pass[m].obj.status.lastHandled
        /\ o.finalizer = pass[m].obj.finalizer /\ o.deleting = pass[m].obj.deleting
    BY <1>0, <2>1, SucceededType, SucceededRecords, MetadataKept
  <2>3. /\ Return(m, o, "interval") /\ ~pass[m].obj.deleting /\ pass[m].pc = "clean"
        /\ UNCHANGED <<mg, cache, src, srcCache, ea>>
    BY <1>7 DEF CompleteSlowly
  <2> HIDE DEF o
  <2> QED BY <2>2, <2>3, ReturnHistory
<1>8. CASE BuildCollides(m)
  <2>1. PICK n \in pass[m].todo :
           pass' = [pass EXCEPT ![m].pc = "apply", ![m].cur = {n}]
    BY <1>8 DEF BuildCollides
  <2>2. n \in Name
    BY <2>1, PassType
  <2> QED BY <1>0, <1>8, <2>1, <2>2, LocalHistory DEF BuildCollides, TypeOK, Pass, HasRevision
<1>9. CASE Panic(m)
  BY <1>0, <1>9, ReturnHistory DEF Panic
<1> QED BY <1>1, <1>2, <1>3, <1>4, <1>5, <1>6, <1>7, <1>8, <1>9 DEF Fails

(* An expiring context changes nothing a pass has read.                    *)
LEMMA TimeoutHistory ==
    ASSUME TypeOK, HistoryInv, NEW m \in MG, TimeoutExpires(m)
    PROVE  HistoryInv'
<1>1. pass[m] \in Pass /\ PassInOrder(m) /\ pass[m].rev <= srcCache
  BY DEF TypeOK, HistoryInv, History, PublishedWasRead
<1>2. /\ UNCHANGED <<mg, cache, src, srcCache, ea>> /\ pass[m].pc # "idle"
      /\ \A k \in MG \ {m} : pass'[k] = pass[k]
      /\ pass'[m].pc = pass[m].pc /\ pass'[m].obj = pass[m].obj
      /\ pass'[m].before = pass[m].before /\ pass'[m].rev = pass[m].rev
      /\ pass'[m].cur = pass[m].cur
  BY <1>1 DEF TimeoutExpires, TypeOK, Pass, At
<1>3. pass'[m].pc \in {"apply", "eastatus", "cleanea"} => \E n \in Name : pass'[m].cur = {n}
  BY <1>1, <1>2 DEF PassInOrder
<1> QED BY <1>1, <1>2, <1>3, LocalHistory

(* Users only move an object forward.                                      *)
LEMMA UserHistory ==
    ASSUME TypeOK, HistoryInv, NEW m \in MG, User(m)
    PROVE  HistoryInv'
<1>1. /\ UNCHANGED <<cache, src, srcCache, ea, pass>>
      /\ \A k \in MG \ {m} : mg'[k] = mg[k]
  BY DEF User, Create, EditSpec, Annotate, Request, Delete, UNCHANGED_Controller, TypeOK
<1>2. \A k \in MG \ {m} : History(k)'
  BY <1>1, OtherHistory DEF HistoryInv
<1>3. History(m)
  BY DEF HistoryInv
<1>4. PublishedWasRead(m)'
  BY <1>1, <1>3 DEF History, PublishedWasRead, At
<1>t. /\ mg[m] \in Object /\ mg[m].gen \in Nat /\ mg[m].requestedAt \in Nat
      /\ cache[m].gen \in Nat /\ cache[m].requestedAt \in Nat
      /\ pass[m].obj.gen \in Nat /\ pass[m].obj.requestedAt \in Nat
      /\ mg[m].status.observedGeneration \in Nat /\ mg[m].status.lastHandled \in Nat
  BY StateNumbers, ObjectFields
<1>5. CASE Create(m)
  <2>1. PICK s \in Specs :
           mg' = [mg EXCEPT ![m] = [Absent(1, FALSE) EXCEPT !.exists = TRUE, !.spec = s]]
    BY <1>5 DEF Create
  <2>2. /\ mg'[m].gen = 1 /\ mg'[m].exists /\ ~mg'[m].deleting /\ mg'[m].requestedAt = 0
        /\ mg'[m].status.observedGeneration = 0 /\ mg'[m].status.lastHandled = 0
    BY <2>1 DEF TypeOK, Absent, NoStatus
  <2>3. mg[m].gen = 0
    <3>1. ~mg[m].exists /\ ~mg[m].deleting
      BY <1>5 DEF Create
    <3>2. mg[m] = Absent(mg[m].gen, mg[m].gen # 0)
      BY <1>3, <3>1 DEF History, GoneIsEmpty
    <3>3. Absent(mg[m].gen, mg[m].gen # 0).deleting = (mg[m].gen # 0)
      BY DEF Absent
    <3>4. mg[m].deleting = (mg[m].gen # 0)
      BY <3>2, <3>3, Zenon
    <3> QED BY <3>1, <3>4, Zenon
  <2>4. cache[m] = mg[m] /\ pass[m] = Idle /\ mg[m] = Absent(0, 0 # 0)
    BY <1>3, <2>3 DEF History, CopiesInOrder, GoneIsEmpty
  <2>5. /\ cache[m].gen = 0 /\ cache[m].requestedAt = 0
        /\ pass[m].obj.gen = 0 /\ pass[m].obj.requestedAt = 0 /\ pass[m].pc = "idle"
        /\ pass[m].before.finalizer = FALSE /\ pass[m].obj.status = pass[m].before.status
    BY <2>4 DEF Absent, Idle
  <2>6. CopiesInOrder(m)' /\ GoneIsEmpty(m)' /\ HandledWasRead(m)' /\ PassInOrder(m)'
    BY <1>1, <2>2, <2>5 DEF CopiesInOrder, GoneIsEmpty, HandledWasRead, PassInOrder, At
  <2> QED BY <1>1, <1>2, <1>4, <2>6 DEF HistoryInv, History
<1>6. CASE Delete(m)
  <2> DEFINE d == [mg[m] EXCEPT !.deleting = TRUE, !.gen = mg[m].gen + 1]
  <2>1. mg'[m] = Reap(d)
    BY <1>6 DEF Delete, TypeOK
  <2>2. /\ d.deleting /\ d.exists /\ (d.finalizer <=> mg[m].finalizer)
        /\ d.gen = mg[m].gen + 1 /\ d.status = mg[m].status
        /\ d.requestedAt = mg[m].requestedAt
    BY <1>t, <1>6 DEF Object, Delete
  <2>3. mg[m].exists
    BY <1>6 DEF Delete
  <2> HIDE DEF d
  <2>4. CASE mg[m].finalizer
    <3>1. mg'[m] = d
      BY <2>1, <2>2, <2>4 DEF Reap
    <3>2. CopiesInOrder(m)' /\ GoneIsEmpty(m)' /\ HandledWasRead(m)' /\ PassInOrder(m)'
      BY <1>1, <1>3, <1>t, <2>2, <2>3, <2>4, <3>1
         DEF History, CopiesInOrder, GoneIsEmpty, HandledWasRead, PassInOrder, At
    <3> QED BY <1>1, <1>2, <1>4, <3>2 DEF HistoryInv, History
  <2>5. CASE ~mg[m].finalizer
    <3>1. mg'[m] = Absent(mg[m].gen + 1, TRUE)
      BY <2>1, <2>2, <2>5 DEF Reap
    <3>2. /\ mg'[m].gen = mg[m].gen + 1 /\ ~mg'[m].exists
          /\ mg'[m].status.observedGeneration = 0 /\ mg'[m].status.lastHandled = 0
      BY <3>1 DEF Absent, NoStatus
    <3>3. (mg'[m].gen # 0) = TRUE
      BY <1>t, <3>2
    <3>4. mg'[m] = Absent(mg'[m].gen, mg'[m].gen # 0)
      BY <3>1, <3>2, <3>3, Zenon
    <3>5. CopiesInOrder(m)' /\ GoneIsEmpty(m)' /\ HandledWasRead(m)' /\ PassInOrder(m)'
      BY <1>1, <1>3, <1>t, <2>3, <2>5, <3>2, <3>4
         DEF History, CopiesInOrder, GoneIsEmpty, HandledWasRead, PassInOrder, At
    <3> QED BY <1>1, <1>2, <1>4, <3>5 DEF HistoryInv, History
  <2> QED BY <2>4, <2>5
<1>7. CASE EditSpec(m) \/ Annotate(m) \/ Request(m)
  <2>1. /\ mg[m].exists /\ mg'[m].exists
        /\ mg'[m].gen \in {mg[m].gen, mg[m].gen + 1}
        /\ mg'[m].requestedAt \in {mg[m].requestedAt, mg[m].requestedAt + 1}
        /\ mg'[m].status = mg[m].status
        /\ mg'[m].finalizer = mg[m].finalizer /\ mg'[m].deleting = mg[m].deleting
    <3>1. CASE EditSpec(m)
      <4>1. PICK s : mg' = [mg EXCEPT ![m].spec = s, ![m].gen = mg[m].gen + 1]
        BY <3>1 DEF EditSpec
      <4>2. mg'[m] = [mg[m] EXCEPT !.spec = s, !.gen = mg[m].gen + 1]
        BY <1>t, <4>1 DEF TypeOK, Object
      <4> QED BY <1>t, <3>1, <4>2 DEF EditSpec, Object
    <3>2. CASE Annotate(m)
      <4>1. PICK a : mg' = [mg EXCEPT ![m].annotation = a]
        BY <3>2 DEF Annotate
      <4> QED BY <1>t, <3>2, <4>1 DEF Annotate, TypeOK, Object
    <3>3. CASE Request(m)
      BY <1>t, <3>3 DEF Request, TypeOK, Object
    <3> QED BY <1>7, <3>1, <3>2, <3>3
  <2>2. CopiesInOrder(m)' /\ GoneIsEmpty(m)' /\ HandledWasRead(m)' /\ PassInOrder(m)'
    BY <1>1, <1>3, <1>t, <2>1
       DEF History, CopiesInOrder, GoneIsEmpty, HandledWasRead, PassInOrder, At
  <2> QED BY <1>1, <1>2, <1>4, <2>2 DEF HistoryInv, History
<1> QED BY <1>5, <1>6, <1>7 DEF User

(* An informer, or a restart, makes copies equal to the original.          *)
LEMMA CopyHistory ==
    ASSUME TypeOK, HistoryInv, NEW m \in MG, UNCHANGED <<mg, ea>>,
           cache'[m] = mg[m], pass'[m] = pass[m] \/ pass'[m] = Idle,
           srcCache' \in Nat, srcCache <= srcCache'
    PROVE  History(m)'
<1>1. History(m)
  BY DEF HistoryInv
<1>2. /\ Idle.obj.gen = 0 /\ Idle.obj.requestedAt = 0 /\ Idle.rev = 0 /\ Idle.pc = "idle"
      /\ Idle.before.finalizer = FALSE /\ Idle.obj.status = Idle.before.status
  BY DEF Idle, Absent
<1>t. /\ mg[m].gen \in Nat /\ mg[m].requestedAt \in Nat
      /\ cache[m].gen \in Nat /\ cache[m].requestedAt \in Nat
      /\ pass[m].obj.gen \in Nat /\ pass[m].obj.requestedAt \in Nat
      /\ mg[m].status.observedGeneration \in Nat /\ mg[m].status.lastHandled \in Nat
      /\ pass[m].rev \in Nat /\ srcCache \in Nat
      /\ \A n \in Name : ea[n].content.gen \in Nat /\ ea[n].content.rev \in Nat
  BY StateNumbers, ObjectFields
<1>3. ~mg[m].exists => mg[m].status.lastHandled = 0
  BY <1>1 DEF History, GoneIsEmpty, Absent, NoStatus
<1>4. mg[m].status.lastHandled <= mg[m].requestedAt
  BY <1>1, <1>3, <1>t DEF History, CopiesInOrder, HandledWasRead
<1>5. CASE pass'[m] = pass[m]
  <2>1. CopiesInOrder(m)' /\ GoneIsEmpty(m)' /\ HandledWasRead(m)'
    BY <1>1, <1>4, <1>5, <1>t
       DEF History, CopiesInOrder, GoneIsEmpty, HandledWasRead, At, Idle, Absent
  <2>2. PublishedWasRead(m)' /\ PassInOrder(m)'
    BY <1>1, <1>5, <1>t DEF History, CopiesInOrder, PublishedWasRead, PassInOrder, At
  <2> QED BY <2>1, <2>2 DEF History
<1>6. CASE pass'[m] = Idle
  <2>1. CopiesInOrder(m)' /\ GoneIsEmpty(m)' /\ HandledWasRead(m)'
    BY <1>1, <1>2, <1>4, <1>6, <1>t
       DEF History, CopiesInOrder, GoneIsEmpty, HandledWasRead, At
  <2>2. PublishedWasRead(m)'
    BY <1>1, <1>2, <1>6, <1>t DEF History, CopiesInOrder, PublishedWasRead, At, HasRevision
  <2>3. PassInOrder(m)'
    BY <1>2, <1>6 DEF PassInOrder
  <2> QED BY <2>1, <2>2, <2>3 DEF History
<1> QED BY <1>5, <1>6

(* Nothing has been read or published at first.                            *)
LEMMA InitHistory == Init => HistoryInv
<1> SUFFICES ASSUME Init PROVE HistoryInv
  OBVIOUS
<1>1. srcCache = src /\ src \in Nat
  BY DEF Init
<1> SUFFICES ASSUME NEW m \in MG PROVE History(m)
  BY <1>1 DEF HistoryInv
<1>2. mg[m] = Absent(0, FALSE) /\ cache[m] = mg[m] /\ pass[m] = Idle
  BY DEF Init
<1>3. /\ mg[m].gen = 0 /\ mg[m].requestedAt = 0 /\ ~mg[m].exists
      /\ mg[m].status.observedGeneration = 0 /\ mg[m].status.lastHandled = 0
  BY <1>2 DEF Absent, NoStatus
<1>4. /\ pass[m].obj.gen = 0 /\ pass[m].obj.requestedAt = 0 /\ pass[m].rev = 0
      /\ pass[m].pc = "idle" /\ pass[m].before.finalizer = FALSE
      /\ pass[m].obj.status = pass[m].before.status
  BY <1>2 DEF Idle, Absent
<1>5. mg[m] = Absent(mg[m].gen, mg[m].gen # 0)
  <2>1. (mg[m].gen # 0) = FALSE
    BY <1>3
  <2> QED BY <1>2, <1>3, <2>1, Zenon
<1>6. \A n \in Name : ea[n].content.by = {}
  BY DEF Init, NoEA, NoContent
<1>7. CopiesInOrder(m) /\ HandledWasRead(m)
  <2>1. cache[m] = mg[m] /\ pass[m] = Idle
    BY <1>2
  <2> QED BY <1>3, <1>4, <2>1 DEF CopiesInOrder, HandledWasRead, At
<1>8. GoneIsEmpty(m)
  BY <1>3, <1>5 DEF GoneIsEmpty
<1>9. PassInOrder(m)
  BY <1>4 DEF PassInOrder
<1>10. PublishedWasRead(m)
  BY <1>1, <1>4, <1>6 DEF PublishedWasRead
<1> QED BY <1>7, <1>8, <1>9, <1>10 DEF History

(* Every step keeps the history.                                           *)
LEMMA NextHistory == TypeOK /\ TypeOK' /\ FinalizerInv /\ HistoryInv /\ [Next]_vars => HistoryInv'
<1> SUFFICES ASSUME TypeOK, TypeOK', FinalizerInv, HistoryInv, [Next]_vars PROVE HistoryInv'
  OBVIOUS
<1>0. src \in Nat /\ srcCache \in Nat /\ src' \in Nat /\ srcCache' \in Nat /\ srcCache <= src
  BY BoundsAssumption DEF TypeOK, Rev, HistoryInv
<1>1. CASE SourceChange
  <2>1. \A k \in MG : History(k)'
    BY <1>1, OtherHistory DEF SourceChange, UNCHANGED_Controller, HistoryInv
  <2> QED BY <1>0, <1>1, <2>1 DEF SourceChange, UNCHANGED_Controller, HistoryInv
<1>2. CASE DeliverSource
  <2>1. UNCHANGED <<mg, cache, ea, pass, src>> /\ srcCache' = src
    BY <1>2 DEF DeliverSource
  <2>2. ASSUME NEW k \in MG PROVE History(k)'
    <3>1. /\ History(k) /\ pass[k].rev \in Nat
          /\ \A n \in Name : ea[n].content.rev \in Nat
      BY StateNumbers DEF HistoryInv
    <3>2. PublishedWasRead(k)'
      BY <1>0, <2>1, <3>1 DEF History, PublishedWasRead, At
    <3>3. CopiesInOrder(k)' /\ GoneIsEmpty(k)' /\ HandledWasRead(k)' /\ PassInOrder(k)'
      BY <2>1, <3>1
         DEF History, CopiesInOrder, GoneIsEmpty, HandledWasRead, PassInOrder, At, Idle, Absent
    <3> QED BY <3>2, <3>3 DEF History
  <2> QED BY <1>0, <2>1, <2>2 DEF HistoryInv
<1>3. CASE \E kind \in {"crash", "podloss"} : Restart(kind)
  <2>1. \A k \in MG : cache'[k] = mg[k] /\ pass'[k] = Idle
    BY <1>3 DEF Restart
  <2>2. UNCHANGED <<mg, ea, src>> /\ srcCache' = src
    BY <1>3 DEF Restart
  <2>3. \A k \in MG : History(k)'
    BY <1>0, <2>1, <2>2, CopyHistory
  <2> QED BY <1>0, <2>2, <2>3 DEF HistoryInv
<1>4. ASSUME NEW m \in MG, DeliverManifestGenerator(m)
      PROVE  HistoryInv'
  <2>1. /\ UNCHANGED <<mg, ea, src, srcCache, pass>> /\ cache'[m] = mg[m]
        /\ \A k \in MG \ {m} : cache'[k] = cache[k]
    BY <1>4 DEF DeliverManifestGenerator, TypeOK
  <2>2. History(m)'
    BY <1>0, <2>1, CopyHistory
  <2>3. \A k \in MG \ {m} : History(k)'
    BY <2>1, OtherHistory DEF HistoryInv
  <2> QED BY <2>1, <2>2, <2>3 DEF HistoryInv
<1>5. ASSUME NEW m \in MG, RetryTimerFires(m) \/ IntervalTimerFires(m)
      PROVE  HistoryInv'
  <2>1. UNCHANGED <<mg, cache, ea, src, srcCache, pass>>
    BY <1>5 DEF RetryTimerFires, IntervalTimerFires, TimerFires
  <2> QED BY <2>1, OtherHistory DEF HistoryInv
<1>6. ASSUME NEW m \in MG,
             User(m) \/ Start(m) \/ Work(m) \/ Fails(m) \/ TimeoutExpires(m)
      PROVE  HistoryInv'
  BY <1>6, UserHistory, StartHistory, WorkHistory, FailsHistory, TimeoutHistory
<1>7. CASE UNCHANGED vars
  BY <1>7, OtherHistory DEF vars, HistoryInv
<1> QED BY <1>1, <1>2, <1>3, <1>4, <1>5, <1>6, <1>7 DEF Next

(* No copy of an object or a revision runs ahead of the API server, and    *)
(* what is recorded or published was read by the pass now running, in      *)
(* every reachable state.                                                  *)
THEOREM HistoryInvariant == Spec => []HistoryInv
<1>1. Spec => []TypeOK
  BY TypeCorrect
<1>2. Spec => []FinalizerInv
  BY FinalizerInvariant
<1> QED BY <1>1, <1>2, InitHistory, NextHistory, PTL DEF Spec

-----------------------------------------------------------------------------
(* Status only advances.                                                   *)

(* The actions that write an object of the API server.                     *)
LEMMA WhoWrites ==
    ASSUME TypeOK, [Next]_vars, NEW m \in MG
    PROVE  \/ mg'[m] = mg[m]
           \/ User(m)
           \/ PatchProgress(m) \/ Summarize(m) \/ SummarizeFails(m)
<1>1. ASSUME NEW k \in MG, User(k)
      PROVE  k = m \/ mg'[m] = mg[m]
  BY <1>1 DEF User, Create, EditSpec, Annotate, Request, Delete, TypeOK
<1>2. ASSUME NEW k \in MG, Start(k) \/ StartTmpDirFails(k)
      PROVE  mg' = mg
  BY <1>2 DEF Start, StartGone, StartFinalize, StartAddFinalizer, StartDisabled,
              StartInvalid, StartReconcile, StartTmpDirFails, Begin, Take
<1>3. ASSUME NEW k \in MG, Work(k) \/ Fails(k)
      PROVE  \/ mg' = mg
             \/ /\ k = m \/ mg'[m] = mg[m]
                /\ PatchProgress(k) \/ Summarize(k) \/ SummarizeFails(k)
  <2>1. ASSUME PatchProgress(k) \/ Summarize(k) \/ SummarizeFails(k)
        PROVE  k = m \/ mg'[m] = mg[m]
    BY <2>1 DEF PatchProgress, Summarize, SummarizeFails, TypeOK
  <2>2. ASSUME Work(k), ~PatchProgress(k), ~Summarize(k)
        PROVE  mg' = mg
    BY <2>2 DEF Work, ObserveSources, SourcesNotReady, Prepare, Build, ApplyExternalArtifact,
                PatchExternalArtifactStatus, ExternalArtifactChanged, CleanStorage,
                CleanExternalArtifact, Complete, RemoveFinalizer, SummarizeGone
  <2>3. ASSUME Fails(k), ~SummarizeFails(k), ~StartTmpDirFails(k)
        PROVE  mg' = mg
    BY <2>3 DEF Fails, PatchProgressFails, PrepareFails, BuildFails, ExternalArtifactFails,
                CleanStorageFails, CleanExternalArtifactFails, CompleteSlowly,
                BuildCollides, Panic
  <2> QED BY <1>2, <1>3, <2>1, <2>2, <2>3
<1>4. ASSUME NEW k \in MG,
             \/ DeliverManifestGenerator(k) \/ RetryTimerFires(k)
             \/ IntervalTimerFires(k) \/ TimeoutExpires(k)
      PROVE  mg' = mg
  BY <1>4 DEF DeliverManifestGenerator, RetryTimerFires, IntervalTimerFires, TimerFires,
              TimeoutExpires
<1>5. SourceChange \/ DeliverSource \/ Restart("crash") \/ Restart("podloss")
        \/ UNCHANGED vars => mg' = mg
  BY DEF SourceChange, DeliverSource, Restart, vars
<1> QED BY <1>1, <1>2, <1>3, <1>4, <1>5 DEF Next

(* A user's change leaves the status as it is, or takes the object away.   *)
LEMMA UserKeepsStatus ==
    ASSUME TypeOK, HistoryInv, NEW m \in MG, User(m), mg'[m].exists
    PROVE  /\ mg'[m].status.observedGeneration = mg[m].status.observedGeneration
           /\ mg'[m].status.lastHandled = mg[m].status.lastHandled
<1>t. mg[m] \in Object /\ History(m)
  BY DEF TypeOK, HistoryInv
<1>1. CASE Create(m)
  <2>1. PICK s \in Specs :
           mg' = [mg EXCEPT ![m] = [Absent(1, FALSE) EXCEPT !.exists = TRUE, !.spec = s]]
    BY <1>1 DEF Create
  <2>2. mg'[m].status = NoStatus
    BY <2>1 DEF TypeOK, Absent
  <2>3. mg[m] = Absent(mg[m].gen, mg[m].gen # 0)
    BY <1>1, <1>t DEF Create, History, GoneIsEmpty
  <2>4. Absent(mg[m].gen, mg[m].gen # 0).status = NoStatus
    BY DEF Absent
  <2> QED BY <2>2, <2>3, <2>4
<1>2. CASE Delete(m)
  <2> DEFINE d == [mg[m] EXCEPT !.deleting = TRUE, !.gen = mg[m].gen + 1]
  <2>1. mg'[m] = Reap(d)
    BY <1>2 DEF Delete, TypeOK
  <2>2. d.status = mg[m].status
    BY <1>t DEF Object
  <2> HIDE DEF d
  <2> QED BY <2>1, <2>2 DEF Reap, Absent
<1>3. CASE EditSpec(m)
  <2>1. PICK s : mg' = [mg EXCEPT ![m].spec = s, ![m].gen = mg[m].gen + 1]
    BY <1>3 DEF EditSpec
  <2>2. mg'[m] = [mg[m] EXCEPT !.spec = s, !.gen = mg[m].gen + 1]
    BY <1>t, <2>1 DEF TypeOK, Object
  <2> QED BY <1>t, <2>2 DEF Object
<1>4. CASE Annotate(m)
  <2>1. PICK a : mg' = [mg EXCEPT ![m].annotation = a]
    BY <1>4 DEF Annotate
  <2> QED BY <1>t, <2>1 DEF TypeOK, Object
<1>5. CASE Request(m)
  BY <1>t, <1>5 DEF Request, TypeOK, Object
<1> QED BY <1>1, <1>2, <1>3, <1>4, <1>5 DEF User

(* A status patch leaves each of the two markers as it is, or writes one   *)
(* the pass has read; the generation only for a guarded object.            *)
LEMMA PatchAdvances ==
    ASSUME TypeOK, HistoryInv, NEW m \in MG, mg'[m].exists,
           PatchProgress(m) \/ Summarize(m) \/ SummarizeFails(m)
    PROVE  /\ \/ mg'[m].status.observedGeneration = mg[m].status.observedGeneration
              \/ /\ mg'[m].status.observedGeneration = pass[m].obj.gen
                 /\ pass[m].pc = "summarize" /\ pass[m].before.finalizer
                 /\ ~pass[m].obj.deleting
                 /\ pass[m].obj.status.observedGeneration = pass[m].obj.gen
                 /\ pass[m].before.status.observedGeneration # pass[m].obj.gen
           /\ \/ mg'[m].status.lastHandled = mg[m].status.lastHandled
              \/ mg'[m].status.lastHandled = pass[m].obj.requestedAt
<1> DEFINE o == pass[m].obj
           b == pass[m].before
<1>1. mg[m] \in Object /\ o \in Object /\ b \in Object
  BY StateNumbers
<1>2. PassInOrder(m)
  BY DEF HistoryInv, History
<1>3. CASE PatchProgress(m)
  <2>1. mg'[m] = Patched(b, o, mg[m], Parts)
    BY <1>3 DEF PatchProgress, TypeOK
  <2>2. WrittenBack(b, o, mg[m], mg'[m])
    BY <1>1, <2>1, PatchedWrites
  <2>3. o.status = b.status
    BY <1>2, <1>3 DEF PassInOrder, PatchProgress, At
  <2>4. mg'[m] # Absent(mg[m].gen, TRUE)
    BY DEF Absent
  <2> HIDE DEF o, b
  <2> QED BY <2>2, <2>3, <2>4 DEF WrittenBack
<1>4. CASE Summarize(m) \/ SummarizeFails(m)
  <2> DEFINE s == Summary(o)
  <2>1. PICK parts : mg'[m] = Patched(b, s, mg[m], parts)
    BY <1>4 DEF Summarize, SummarizeFails, TypeOK
  <2>2. /\ s \in Object
        /\ s.status.observedGeneration = o.status.observedGeneration
        /\ s.status.lastHandled \in {o.status.lastHandled, o.requestedAt}
    BY <1>1, SummaryType, SummaryRecords
  <2> HIDE DEF s
  <2>3. WrittenBack(b, s, mg[m], mg'[m])
    BY <1>1, <2>1, <2>2, PatchedWrites
  <2>4. mg'[m] # Absent(mg[m].gen, TRUE)
    BY DEF Absent
  <2>5. pass[m].pc = "summarize"
    BY <1>4 DEF Summarize, SummarizeFails, At
  <2>6. /\ o.status.lastHandled = b.status.lastHandled
        /\ o.status.observedGeneration # b.status.observedGeneration =>
              /\ o.status.observedGeneration = o.gen
              /\ b.finalizer /\ ~o.deleting
    BY <1>2 DEF PassInOrder
  <2> HIDE DEF o, b
  <2>7. \/ mg'[m].status.lastHandled = mg[m].status.lastHandled
        \/ mg'[m].status.lastHandled = o.requestedAt
    BY <2>2, <2>3, <2>4, <2>6 DEF WrittenBack
  <2>8. \/ mg'[m].status.observedGeneration = mg[m].status.observedGeneration
        \/ /\ mg'[m].status.observedGeneration = o.status.observedGeneration
           /\ o.status.observedGeneration # b.status.observedGeneration
    BY <2>2, <2>3, <2>4 DEF WrittenBack
  <2> QED BY <2>5, <2>6, <2>7, <2>8 DEF o, b
<1> QED BY <1>3, <1>4

(* However stale the object a pass read and whatever part of its status    *)
(* patch fails: neither observedGeneration nor lastHandledReconcileAt of   *)
(* an object is ever taken back, and observedGeneration never runs ahead.  *)
THEOREM StatusAdvances == Spec => StatusOnlyAdvances
<1>1. TypeOK /\ TypeOK' /\ HistoryInv /\ HistoryInv' /\ [Next]_vars =>
        [\A m \in MG : mg'[m].exists =>
           /\ mg'[m].status.observedGeneration >= mg[m].status.observedGeneration
           /\ mg'[m].status.lastHandled >= mg[m].status.lastHandled
           /\ mg'[m].status.observedGeneration <= mg'[m].gen]_vars
  <2> SUFFICES ASSUME TypeOK, TypeOK', HistoryInv, HistoryInv', [Next]_vars,
                      NEW m \in MG, mg'[m].exists
               PROVE  /\ mg'[m].status.observedGeneration >= mg[m].status.observedGeneration
                      /\ mg'[m].status.lastHandled >= mg[m].status.lastHandled
                      /\ mg'[m].status.observedGeneration <= mg'[m].gen
    OBVIOUS
  <2>1. /\ mg[m] \in Object /\ mg'[m] \in Object /\ cache'[m] \in Object
        /\ pass[m].obj \in Object
    BY StateNumbers DEF TypeOK
  <2>2. /\ mg[m].status.observedGeneration \in Nat /\ mg[m].status.lastHandled \in Nat
        /\ mg'[m].status.observedGeneration \in Nat /\ mg'[m].gen \in Nat
        /\ mg'[m].status.lastHandled \in Nat
        /\ cache'[m].gen \in Nat
        /\ pass[m].obj.gen \in Nat /\ pass[m].obj.requestedAt \in Nat
    BY <2>1, ObjectFields
  <2>3. mg'[m].status.observedGeneration <= mg'[m].gen
    BY <2>2 DEF HistoryInv, History, CopiesInOrder, HandledWasRead
  <2>4. CASE mg'[m] = mg[m]
    BY <2>2, <2>3, <2>4
  <2>5. CASE User(m)
    BY <2>2, <2>3, <2>5, UserKeepsStatus
  <2>6. CASE PatchProgress(m) \/ Summarize(m) \/ SummarizeFails(m)
    <3>1. pass[m].pc # "idle"
      BY <2>6 DEF PatchProgress, Summarize, SummarizeFails, At
    <3>2. /\ mg[m].status.observedGeneration <= pass[m].obj.gen
          /\ mg[m].status.lastHandled <= pass[m].obj.requestedAt
      BY <3>1 DEF HistoryInv, History, HandledWasRead, At
    <3>3. /\ mg'[m].status.observedGeneration \in
                 {mg[m].status.observedGeneration, pass[m].obj.gen}
          /\ mg'[m].status.lastHandled \in
                 {mg[m].status.lastHandled, pass[m].obj.requestedAt}
      BY <2>6, PatchAdvances
    <3> QED BY <2>2, <2>3, <3>2, <3>3
  <2> QED BY <2>4, <2>5, <2>6, WhoWrites
<1>2. Spec => []TypeOK
  BY TypeCorrect
<1> QED BY <1>1, <1>2, HistoryInvariant, PTL DEF Spec, StatusOnlyAdvances
=============================================================================
