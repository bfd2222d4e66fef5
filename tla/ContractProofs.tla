--------------------------- MODULE ContractProofs ---------------------------
(***************************************************************************)
(* The reconcile loop implements Publication!Spec, step by step, for any    *)
(* number of ManifestGenerators and names, any environment and any bounds;  *)
(* and Publication!StrictSpec while nothing fails and every generator keeps *)
(* to its own names.                                                        *)
(***************************************************************************)
EXTENDS LifecycleProofs, ReconcilerContract

-----------------------------------------------------------------------------
(* The refinement mapping.                                                 *)

(* The life of an object, case by case.                                    *)
LEMMA LifeCases ==
    ASSUME NEW o \in Object
    PROVE  /\ o.exists /\ o.finalizer => Life(o) = "guarded"
           /\ o.exists /\ ~o.finalizer => Life(o) = "unguarded"
           /\ ~o.exists /\ o.deleting => Life(o) = "gone"
           /\ ~o.exists /\ ~o.deleting => Life(o) = "absent"
BY DEF Life, Object

(* A step that changes nothing the contract sees is a stutter of it.       *)
LEMMA ContractStutters ==
    ASSUME \A m \in MG : /\ Life(mg'[m]) = Life(mg[m])
                         /\ mg'[m].status.observedGeneration = mg[m].status.observedGeneration,
           \A n \in Name : ea'[n].owner = ea[n].owner /\ ea'[n].content = ea[n].content
    PROVE  UNCHANGED Contract!vars
<1>1. [m \in MG |-> Life(mg[m])]' = [m \in MG |-> Life(mg[m])]
  OBVIOUS
<1>2. [m \in MG |-> mg[m].status.observedGeneration]' =
      [m \in MG |-> mg[m].status.observedGeneration]
  OBVIOUS
<1>3. [n \in Name |-> ea[n].owner]' = [n \in Name |-> ea[n].owner]
  OBVIOUS
<1>4. [n \in Name |-> ea[n].content]' = [n \in Name |-> ea[n].content]
  OBVIOUS
<1> QED BY <1>1, <1>2, <1>3, <1>4 DEF Contract!vars

(* A step that writes the object of one generator, and no artifact.        *)
LEMMA WriteRefines ==
    ASSUME NEW m \in MG, ea' = ea, \A k \in MG \ {m} : mg'[k] = mg[k],
           LET before == Life(mg[m])
               after  == Life(mg'[m])
               acked  == mg[m].status.observedGeneration
               acks   == mg'[m].status.observedGeneration
           IN  \/ after = before /\ acks = acked
               \/ before = "absent" /\ after = "unguarded" /\ acks = acked
               \/ before = "unguarded" /\ after = "guarded" /\ acks = acked
               \/ before \in {"unguarded", "guarded"} /\ after = "gone" /\ acks = 0
               \/ /\ before = "guarded" /\ after = "guarded"
                  /\ acks \in Gen /\ acks > acked
                  /\ \A n \in Name : ea[n].content.by = {m} => ea[n].content.gen <= acks
    PROVE  [Contract!Next]_(Contract!vars)
<1> DEFINE life == [k \in MG |-> Life(mg[k])]
           acked == [k \in MG |-> mg[k].status.observedGeneration]
           owner == [n \in Name |-> ea[n].owner]
           served == [n \in Name |-> ea[n].content]
<1>1. owner' = owner /\ served' = served
  OBVIOUS
<1>2. /\ life' = [life EXCEPT ![m] = Life(mg'[m])]
      /\ life[m] = Life(mg[m])
  OBVIOUS
<1>3. /\ acked' = [acked EXCEPT ![m] = mg'[m].status.observedGeneration]
      /\ acked[m] = mg[m].status.observedGeneration
  OBVIOUS
<1>4. mg'[m].status.observedGeneration = mg[m].status.observedGeneration => acked' = acked
  BY <1>3
<1>5. Life(mg'[m]) = Life(mg[m]) => life' = life
  BY <1>2
<1>6. \A n \in Name : served[n] = ea[n].content
  OBVIOUS
<1>7. CASE /\ Life(mg'[m]) = Life(mg[m])
           /\ mg'[m].status.observedGeneration = mg[m].status.observedGeneration
  BY <1>7, ContractStutters
<1>8. CASE /\ Life(mg[m]) = "absent" /\ Life(mg'[m]) = "unguarded"
           /\ mg'[m].status.observedGeneration = mg[m].status.observedGeneration
  <2>1. Contract!Appear(m)
    BY <1>1, <1>2, <1>4, <1>8 DEF Contract!Appear
  <2> QED BY <2>1 DEF Contract!Next
<1>9. CASE /\ Life(mg[m]) = "unguarded" /\ Life(mg'[m]) = "guarded"
           /\ mg'[m].status.observedGeneration = mg[m].status.observedGeneration
  <2>1. Contract!Guard(m)
    BY <1>1, <1>2, <1>4, <1>9 DEF Contract!Guard
  <2> QED BY <2>1 DEF Contract!Next
<1>10. CASE /\ Life(mg[m]) \in {"unguarded", "guarded"} /\ Life(mg'[m]) = "gone"
            /\ mg'[m].status.observedGeneration = 0
  <2>1. Contract!Leave(m)
    BY <1>1, <1>2, <1>3, <1>10 DEF Contract!Leave
  <2> QED BY <2>1 DEF Contract!Next
<1>11. CASE /\ Life(mg[m]) = "guarded" /\ Life(mg'[m]) = "guarded"
            /\ mg'[m].status.observedGeneration \in Gen
            /\ mg'[m].status.observedGeneration > mg[m].status.observedGeneration
            /\ \A n \in Name : ea[n].content.by = {m} =>
                  ea[n].content.gen <= mg'[m].status.observedGeneration
  <2>1. Contract!Acknowledge(m)
    BY <1>1, <1>2, <1>3, <1>5, <1>6, <1>11 DEF Contract!Acknowledge
  <2> QED BY <2>1 DEF Contract!Next
<1> QED BY <1>7, <1>8, <1>9, <1>10, <1>11

(* A step that writes one ExternalArtifact, and no object.                 *)
LEMMA ArtifactRefines ==
    ASSUME NEW n \in Name, mg' = mg, \A x \in Name \ {n} : ea'[x] = ea[x],
           \/ \E m \in MG : /\ Life(mg[m]) = "guarded"
                            /\ ea'[n].owner = {m} /\ ea'[n].content = ea[n].content
           \/ \E m \in MG, gen \in Gen, rev \in Rev :
                 /\ Life(mg[m]) = "guarded"
                 /\ ea[n].content.by = {m} =>
                       gen >= ea[n].content.gen /\ rev >= ea[n].content.rev
                 /\ ea'[n].content = [by |-> {m}, gen |-> gen, rev |-> rev]
                 /\ ea'[n].owner = ea[n].owner
           \/ /\ \E m \in MG : Life(mg[m]) \in {"guarded", "gone"}
              /\ ea'[n].owner = {} /\ ea'[n].content = NoContent
    PROVE  Contract!Next
<1> DEFINE life == [k \in MG |-> Life(mg[k])]
           acked == [k \in MG |-> mg[k].status.observedGeneration]
           owner == [x \in Name |-> ea[x].owner]
           served == [x \in Name |-> ea[x].content]
<1>1. life' = life /\ acked' = acked /\ \A k \in MG : life[k] = Life(mg[k])
  OBVIOUS
<1>2. /\ owner' = [owner EXCEPT ![n] = ea'[n].owner]
      /\ served' = [served EXCEPT ![n] = ea'[n].content]
      /\ served[n] = ea[n].content
  OBVIOUS
<1>3. /\ ea'[n].owner = ea[n].owner => owner' = owner
      /\ ea'[n].content = ea[n].content => served' = served
  BY <1>2
<1>4. ASSUME NEW m \in MG, Life(mg[m]) = "guarded", ea'[n].owner = {m},
             ea'[n].content = ea[n].content
      PROVE  Contract!Next
  <2>1. Contract!Claim(m, n)
    BY <1>1, <1>2, <1>3, <1>4 DEF Contract!Claim
  <2> QED BY <2>1 DEF Contract!Next
<1>5. ASSUME NEW m \in MG, NEW gen \in Gen, NEW rev \in Rev,
             Life(mg[m]) = "guarded", ea'[n].owner = ea[n].owner,
             ea[n].content.by = {m} => gen >= ea[n].content.gen /\ rev >= ea[n].content.rev,
             ea'[n].content = [by |-> {m}, gen |-> gen, rev |-> rev]
      PROVE  Contract!Next
  <2>1. life[m] = "guarded" /\ UNCHANGED <<life, owner, acked>>
    BY <1>1, <1>3, <1>5
  <2>2. served[n].by = {m} => gen >= served[n].gen /\ rev >= served[n].rev
    BY <1>2, <1>5
  <2>3. served' = [served EXCEPT ![n] = [by |-> {m}, gen |-> gen, rev |-> rev]]
    BY <1>2, <1>5
  <2>4. Contract!Publish(m, n)
    BY <2>1, <2>2, <2>3, Zenon DEF Contract!Publish
  <2> QED BY <2>4 DEF Contract!Next
<1>6. ASSUME NEW m \in MG, Life(mg[m]) \in {"guarded", "gone"},
             ea'[n].owner = {}, ea'[n].content = NoContent
      PROVE  Contract!Next
  <2>1. Contract!Withdraw(n)
    BY <1>1, <1>2, <1>6 DEF Contract!Withdraw, Contract!NoContent, NoContent
  <2> QED BY <2>1 DEF Contract!Next
<1> QED BY <1>4, <1>5, <1>6

-----------------------------------------------------------------------------
(* The actions.                                                            *)

(* A user creates a generator, deletes one nothing guards, or changes what *)
(* the contract does not see.                                              *)
LEMMA UserRefines ==
    ASSUME TypeOK, TypeOK', HistoryInv, NEW m \in MG, User(m)
    PROVE  [Contract!Next]_(Contract!vars)
<1>1. ea' = ea /\ \A k \in MG \ {m} : mg'[k] = mg[k]
  BY DEF User, Create, EditSpec, Annotate, Request, Delete, UNCHANGED_Controller, TypeOK
<1>2. mg[m] \in Object /\ mg'[m] \in Object /\ History(m)
  BY DEF TypeOK, HistoryInv
<1>3. CASE Create(m)
  <2>1. PICK s \in Specs :
           mg' = [mg EXCEPT ![m] = [Absent(1, FALSE) EXCEPT !.exists = TRUE, !.spec = s]]
    BY <1>3 DEF Create
  <2>2. mg'[m].exists /\ ~mg'[m].finalizer
    BY <2>1 DEF TypeOK, Absent
  <2>3. Life(mg[m]) = "absent" /\ Life(mg'[m]) = "unguarded"
    BY <1>2, <1>3, <2>2, LifeCases DEF Create
  <2>4. mg'[m].status.observedGeneration = mg[m].status.observedGeneration
    BY <2>2, UserKeepsStatus
  <2> QED BY <1>1, <2>3, <2>4, WriteRefines
<1>4. CASE Delete(m)
  <2> DEFINE d == [mg[m] EXCEPT !.deleting = TRUE, !.gen = mg[m].gen + 1]
  <2>1. mg'[m] = Reap(d) /\ mg[m].exists
    BY <1>4 DEF Delete, TypeOK
  <2>2. /\ d.deleting /\ d.exists /\ (d.finalizer <=> mg[m].finalizer)
        /\ d.status = mg[m].status
    BY <1>2, <2>1 DEF Object
  <2> HIDE DEF d
  <2>3. CASE mg[m].finalizer
    <3>1. mg'[m] = d
      BY <2>1, <2>2, <2>3 DEF Reap
    <3>2. Life(mg'[m]) = "guarded" /\ Life(mg[m]) = "guarded"
      BY <1>2, <2>1, <2>2, <2>3, <3>1, LifeCases
    <3> QED BY <1>1, <2>2, <3>1, <3>2, WriteRefines
  <2>4. CASE ~mg[m].finalizer
    <3>1. mg'[m] = Absent(d.gen, TRUE)
      BY <2>1, <2>2, <2>4 DEF Reap
    <3>2. ~mg'[m].exists /\ mg'[m].deleting /\ mg'[m].status.observedGeneration = 0
      BY <3>1 DEF Absent, NoStatus
    <3>3. Life(mg'[m]) = "gone" /\ Life(mg[m]) = "unguarded"
      BY <1>2, <2>1, <2>4, <3>2, LifeCases
    <3> QED BY <1>1, <3>2, <3>3, WriteRefines
  <2> QED BY <2>3, <2>4
<1>5. CASE EditSpec(m) \/ Annotate(m) \/ Request(m)
  <2>1. /\ mg[m].exists /\ mg'[m].exists
        /\ (mg'[m].finalizer <=> mg[m].finalizer)
    <3>1. CASE EditSpec(m)
      <4>1. PICK s : mg' = [mg EXCEPT ![m].spec = s, ![m].gen = mg[m].gen + 1]
        BY <3>1 DEF EditSpec
      <4>2. mg'[m] = [mg[m] EXCEPT !.spec = s, !.gen = mg[m].gen + 1]
        BY <1>2, <4>1 DEF TypeOK, Object
      <4> QED BY <1>2, <3>1, <4>2 DEF EditSpec, Object
    <3>2. CASE Annotate(m)
      <4>1. PICK a : mg' = [mg EXCEPT ![m].annotation = a]
        BY <3>2 DEF Annotate
      <4> QED BY <1>2, <3>2, <4>1 DEF Annotate, TypeOK, Object
    <3>3. CASE Request(m)
      BY <1>2, <3>3 DEF Request, TypeOK, Object
    <3> QED BY <1>5, <3>1, <3>2, <3>3
  <2>2. Life(mg'[m]) = Life(mg[m])
    BY <1>2, <2>1, LifeCases
  <2>3. mg'[m].status.observedGeneration = mg[m].status.observedGeneration
    BY <2>1, UserKeepsStatus
  <2> QED BY <1>1, <2>2, <2>3, WriteRefines
<1> QED BY <1>3, <1>4, <1>5 DEF User

(* A patch of the controller guards an object, acknowledges its generation *)
(* or lets it go, never two of these.                                      *)
LEMMA PatchRefines ==
    ASSUME TypeOK, TypeOK', FinalizerInv, HistoryInv, NEW m \in MG,
           PatchProgress(m) \/ Summarize(m) \/ SummarizeFails(m)
    PROVE  [Contract!Next]_(Contract!vars)
<1> DEFINE o == pass[m].obj
           b == pass[m].before
           r == mg'[m]
<1>1. ea' = ea /\ mg[m].exists /\ pass[m].pc # "idle" /\ \A k \in MG \ {m} : mg'[k] = mg[k]
  <2>1. PatchProgress(m) => pass[m].pc = "progress"
    BY DEF PatchProgress, At
  <2>2. Summarize(m) \/ SummarizeFails(m) => pass[m].pc = "summarize"
    BY DEF Summarize, SummarizeFails, At
  <2> QED BY <2>1, <2>2 DEF PatchProgress, Summarize, SummarizeFails, TypeOK
<1>2. /\ mg[m] \in Object /\ r \in Object /\ o \in Object /\ b \in Object
      /\ History(m) /\ PassKeepsFinalizer(m)
  BY StateNumbers DEF TypeOK, HistoryInv, FinalizerInv
<1>3. \E s \in Object : s.finalizer = o.finalizer /\ WrittenBack(b, s, mg[m], r)
  <2>1. CASE PatchProgress(m)
    <3>1. r = Patched(b, o, mg[m], Parts)
      BY <2>1 DEF PatchProgress, TypeOK
    <3> QED BY <1>2, <3>1, PatchedWrites
  <2>2. CASE Summarize(m) \/ SummarizeFails(m)
    <3>0. \E parts : mg' = [mg EXCEPT ![m] = Patched(b, Summary(o), mg[m], parts)]
      BY <2>2 DEF Summarize, SummarizeFails
    <3>1. PICK parts : r = Patched(b, Summary(o), mg[m], parts)
      BY <3>0 DEF TypeOK
    <3>2. Summary(o) \in Object /\ Summary(o).finalizer = o.finalizer
      BY <1>2, SummaryType, MetadataKept
    <3> QED BY <1>2, <3>1, <3>2, PatchedWrites
  <2> QED BY <2>1, <2>2
<1>4. PICK s \in Object : s.finalizer = o.finalizer /\ WrittenBack(b, s, mg[m], r)
  BY <1>3
<1>5. CASE r = Absent(mg[m].gen, TRUE)
  <2>1. ~r.exists /\ r.deleting /\ r.status.observedGeneration = 0
    BY <1>5 DEF Absent, NoStatus
  <2>2. Life(r) = "gone" /\ Life(mg[m]) \in {"unguarded", "guarded"}
    BY <1>1, <1>2, <2>1, LifeCases
  <2> QED BY <1>1, <2>1, <2>2, WriteRefines
<1>6. CASE r # Absent(mg[m].gen, TRUE)
  <2>1. /\ r.exists /\ (r.deleting <=> mg[m].deleting) /\ (r.deleting => r.finalizer)
        /\ r.finalizer # mg[m].finalizer =>
              r.finalizer = s.finalizer /\ s.finalizer # b.finalizer
    BY <1>1, <1>4, <1>6, Zenon DEF WrittenBack
  <2>2. /\ r.finalizer \in BOOLEAN /\ mg[m].finalizer \in BOOLEAN
        /\ b.finalizer \in BOOLEAN /\ o.finalizer \in BOOLEAN
    BY <1>2, ObjectFields
  <2>3. /\ b.finalizer /\ ~o.finalizer => o.deleting
        /\ o.deleting => mg[m].deleting
    BY <1>2 DEF PassKeepsFinalizer
  <2>4. mg[m].finalizer => r.finalizer
    BY <1>4, <2>1, <2>2, <2>3, Zenon
  <2>5. b.finalizer /\ ~o.deleting => mg[m].finalizer
    BY <1>2 DEF History, PassInOrder
  <2>6. \/ r.status.observedGeneration = mg[m].status.observedGeneration
        \/ /\ r.status.observedGeneration = o.gen
           /\ b.finalizer /\ ~o.deleting
    BY <2>1, PatchAdvances
  <2>7. CASE ~mg[m].finalizer
    <3>1. r.status.observedGeneration = mg[m].status.observedGeneration
      BY <2>5, <2>6, <2>7
    <3>2. Life(mg[m]) = "unguarded" /\ Life(r) \in {"unguarded", "guarded"}
      BY <1>1, <1>2, <2>1, <2>7, LifeCases
    <3> QED BY <1>1, <3>1, <3>2, WriteRefines
  <2>8. CASE mg[m].finalizer
    <3>1. Life(mg[m]) = "guarded" /\ Life(r) = "guarded"
      BY <1>1, <1>2, <2>1, <2>4, <2>8, LifeCases
    <3>2. CASE r.status.observedGeneration = mg[m].status.observedGeneration
      BY <1>1, <3>1, <3>2, WriteRefines
    <3>3. CASE r.status.observedGeneration # mg[m].status.observedGeneration
      <4>1. r.status.observedGeneration = o.gen
        BY <2>6, <3>3
      <4>2. /\ mg[m].status.observedGeneration <= o.gen
            /\ \A n \in Name : ea[n].content.by = {m} => ea[n].content.gen <= o.gen
        BY <1>1, <1>2 DEF History, HandledWasRead, PublishedWasRead, At
      <4>3. /\ r.status.observedGeneration \in Gen
            /\ mg[m].status.observedGeneration \in Nat /\ o.gen \in Nat
        BY <1>2, ObjectFields DEF Object, Status
      <4>4. r.status.observedGeneration > mg[m].status.observedGeneration
        BY <3>3, <4>1, <4>2, <4>3
      <4> QED BY <1>1, <3>1, <4>1, <4>2, <4>3, <4>4, WriteRefines
    <3> QED BY <3>2, <3>3
  <2> QED BY <2>7, <2>8
<1> QED BY <1>5, <1>6

(* Labelling, publishing and withdrawing an ExternalArtifact.              *)
LEMMA PublishRefines ==
    ASSUME TypeOK, FinalizerInv, HistoryInv, NEW m \in MG,
           \/ ApplyExternalArtifact(m) \/ PatchExternalArtifactStatus(m)
           \/ CleanExternalArtifact(m)
    PROVE  Contract!Next
<1>1. mg[m] \in Object /\ History(m) /\ PassKeepsFinalizer(m) /\ pass[m].cur \in SUBSET Name
  BY PassType DEF TypeOK, HistoryInv, FinalizerInv
<1>2. CASE ApplyExternalArtifact(m)
  <2>1. PICK n \in pass[m].cur : ea' = [ea EXCEPT ![n].exists = TRUE, ![n].owner = {m}]
    BY <1>2 DEF ApplyExternalArtifact
  <2>2. n \in Name
    BY <1>1, <2>1
  <2>3. /\ ea'[n].owner = {m} /\ ea'[n].content = ea[n].content
        /\ \A x \in Name \ {n} : ea'[x] = ea[x]
    BY <2>1, <2>2 DEF TypeOK, EA
  <2>4. mg' = mg /\ Life(mg[m]) = "guarded"
    BY <1>1, <1>2, LifeCases DEF ApplyExternalArtifact, At, PassKeepsFinalizer, Publishing
  <2> QED BY <2>2, <2>3, <2>4, ArtifactRefines
<1>3. CASE PatchExternalArtifactStatus(m)
  <2>1. PICK n \in pass[m].cur : ea' = [ea EXCEPT ![n].content = Digest(m)]
    BY <1>3 DEF PatchExternalArtifactStatus
  <2>2. n \in Name
    BY <1>1, <2>1
  <2>3. /\ ea'[n].owner = ea[n].owner /\ ea'[n].content = Digest(m)
        /\ \A x \in Name \ {n} : ea'[x] = ea[x]
    BY <2>1, <2>2 DEF TypeOK, EA
  <2>4. mg' = mg /\ Life(mg[m]) = "guarded" /\ pass[m].pc = "eastatus"
    BY <1>1, <1>3, LifeCases DEF PatchExternalArtifactStatus, At, PassKeepsFinalizer, Publishing
  <2>5. pass[m].obj.gen \in Gen /\ pass[m].rev \in Rev
    BY PassType
  <2>6. ea[n].content.by = {m} =>
           ea[n].content.gen <= pass[m].obj.gen /\ ea[n].content.rev <= pass[m].rev
    BY <1>1, <2>2, <2>4 DEF History, PublishedWasRead, At, HasRevision
  <2>7. /\ ea[n].content.gen \in Nat /\ ea[n].content.rev \in Nat
        /\ pass[m].obj.gen \in Nat /\ pass[m].rev \in Nat
    BY <2>2, StateNumbers, ObjectFields
  <2>8. ea[n].content.by = {m} =>
           pass[m].obj.gen >= ea[n].content.gen /\ pass[m].rev >= ea[n].content.rev
    BY <2>6, <2>7
  <2> QED BY <2>2, <2>3, <2>4, <2>5, <2>8, ArtifactRefines DEF Digest
<1>4. CASE CleanExternalArtifact(m)
  <2>1. PICK n \in Name : pass[m].cur = {n}
    BY <1>1, <1>4 DEF CleanExternalArtifact, At, History, PassInOrder
  <2>2. /\ ea'[n].owner = {} /\ ea'[n].content = NoContent
        /\ \A x \in Name \ {n} : ea'[x] = ea[x] /\ mg' = mg
    BY <1>4, <2>1 DEF CleanExternalArtifact, TypeOK, NoEA
  <2>3. mg' = mg /\ pass[m].pc = "cleanea"
    BY <1>4 DEF CleanExternalArtifact, At
  <2>4. Life(mg[m]) \in {"guarded", "gone"}
    <3>1. CASE pass[m].obj.deleting
      <4>1. mg[m].deleting
        BY <1>1, <3>1 DEF PassKeepsFinalizer
      <4> QED BY <1>1, <4>1, LifeCases DEF History, GoneIsEmpty
    <3>2. CASE ~pass[m].obj.deleting
      <4>1. mg[m].exists /\ mg[m].finalizer
        BY <1>1, <2>3, <3>2 DEF History, PassInOrder
      <4> QED BY <1>1, <4>1, LifeCases
    <3> QED BY <3>1, <3>2
  <2> QED BY <2>1, <2>2, <2>3, <2>4, ArtifactRefines
<1> QED BY <1>2, <1>3, <1>4

(* Everything else is invisible to the contract.                           *)
LEMMA HiddenSteps ==
    ASSUME [Next]_vars
    PROVE  \/ mg' = mg /\ ea' = ea
           \/ \E m \in MG :
                 \/ User(m)
                 \/ PatchProgress(m) \/ Summarize(m) \/ SummarizeFails(m)
                 \/ ApplyExternalArtifact(m) \/ PatchExternalArtifactStatus(m)
                 \/ CleanExternalArtifact(m)
<1>1. ASSUME NEW m \in MG, Start(m) \/ StartTmpDirFails(m)
      PROVE  mg' = mg /\ ea' = ea
  BY <1>1 DEF Start, StartGone, StartFinalize, StartAddFinalizer, StartDisabled,
              StartInvalid, StartReconcile, StartTmpDirFails, Begin, Take
<1>2. ASSUME NEW m \in MG,
             \/ ObserveSources(m) \/ SourcesNotReady(m) \/ Prepare(m) \/ Build(m)
             \/ ExternalArtifactChanged(m) \/ CleanStorage(m) \/ Complete(m)
             \/ RemoveFinalizer(m) \/ SummarizeGone(m)
      PROVE  mg' = mg /\ ea' = ea
  BY <1>2 DEF ObserveSources, SourcesNotReady, Prepare, Build, ExternalArtifactChanged,
              CleanStorage, Complete, RemoveFinalizer, SummarizeGone
<1>3. ASSUME NEW m \in MG,
             \/ PatchProgressFails(m) \/ PrepareFails(m) \/ BuildFails(m)
             \/ ExternalArtifactFails(m) \/ CleanStorageFails(m)
             \/ CleanExternalArtifactFails(m) \/ CompleteSlowly(m)
             \/ BuildCollides(m) \/ Panic(m) \/ TimeoutExpires(m)
      PROVE  mg' = mg /\ ea' = ea
  BY <1>3 DEF PatchProgressFails, PrepareFails, BuildFails, ExternalArtifactFails,
              CleanStorageFails, CleanExternalArtifactFails, CompleteSlowly,
              BuildCollides, Panic, TimeoutExpires
<1>4. ASSUME NEW m \in MG,
             DeliverManifestGenerator(m) \/ RetryTimerFires(m) \/ IntervalTimerFires(m)
      PROVE  mg' = mg /\ ea' = ea
  BY <1>4 DEF DeliverManifestGenerator, RetryTimerFires, IntervalTimerFires, TimerFires
<1>5. SourceChange \/ DeliverSource \/ Restart("crash") \/ Restart("podloss")
        \/ UNCHANGED vars => mg' = mg /\ ea' = ea
  BY DEF SourceChange, DeliverSource, Restart, UNCHANGED_Controller, vars
<1> QED BY <1>1, <1>2, <1>3, <1>4, <1>5 DEF Next, Work, Fails

(* The initial states are initial states of the contract.                  *)
LEMMA ContractInit == Init => Contract!Init
<1> SUFFICES ASSUME Init PROVE Contract!Init
  OBVIOUS
<1>1. FALSE \in BOOLEAN
  OBVIOUS
<1>2. Absent(0, FALSE) \in Object
  BY <1>1, ZeroType, AbsentType
<1>3. /\ ~Absent(0, FALSE).exists /\ ~Absent(0, FALSE).deleting
      /\ Absent(0, FALSE).status.observedGeneration = 0
  BY DEF Absent, NoStatus
<1>4. Life(Absent(0, FALSE)) = "absent"
  BY <1>2, <1>3, LifeCases
<1>5. \A m \in MG : Life(mg[m]) = "absent" /\ mg[m].status.observedGeneration = 0
  BY <1>3, <1>4 DEF Init
<1>6. \A n \in Name : ea[n].owner = {} /\ ea[n].content = NoContent
  BY DEF Init, NoEA
<1> QED BY <1>5, <1>6 DEF Contract!Init, Contract!NoContent, NoContent

(* Every step is a step of the contract or a stutter.                      *)
LEMMA ContractStep ==
    TypeOK /\ TypeOK' /\ FinalizerInv /\ HistoryInv /\ [Next]_vars
      => [Contract!Next]_(Contract!vars)
<1> SUFFICES ASSUME TypeOK, TypeOK', FinalizerInv, HistoryInv, [Next]_vars
             PROVE  [Contract!Next]_(Contract!vars)
  OBVIOUS
<1>1. CASE mg' = mg /\ ea' = ea
  BY <1>1, ContractStutters
<1>2. ASSUME NEW m \in MG, User(m)
      PROVE  [Contract!Next]_(Contract!vars)
  BY <1>2, UserRefines
<1>3. ASSUME NEW m \in MG, PatchProgress(m) \/ Summarize(m) \/ SummarizeFails(m)
      PROVE  [Contract!Next]_(Contract!vars)
  BY <1>3, PatchRefines
<1>4. ASSUME NEW m \in MG, \/ ApplyExternalArtifact(m) \/ PatchExternalArtifactStatus(m)
                            \/ CleanExternalArtifact(m)
      PROVE  [Contract!Next]_(Contract!vars)
  BY <1>4, PublishRefines
<1> QED BY <1>1, <1>2, <1>3, <1>4, HiddenSteps

(* The reconcile loop keeps the contract of Publication whatever the cache *)
(* shows and whatever fails or restarts: only a guarded generator labels,  *)
(* publishes or acknowledges, a generator never replaces its content by    *)
(* that of an older spec or older sources, and it acknowledges a           *)
(* generation once and never behind what it has published.                 *)
THEOREM ImplementsContract == Spec => KeepsContract
<1>1. Spec => []TypeOK
  BY TypeCorrect
<1>2. Spec => []FinalizerInv
  BY FinalizerInvariant
<1>3. Spec => []HistoryInv
  BY HistoryInvariant
<1> QED BY <1>1, <1>2, <1>3, ContractInit, ContractStep, PTL
        DEF Spec, KeepsContract, Contract!Spec

-----------------------------------------------------------------------------
(* The strict contract, while nothing fails and no generator is at the     *)
(* names of another.                                                       *)

(* What the strict contract asks of a step beyond the contract: of leaving *)
(* and acknowledging,                                                      *)
LeavesClean(m) ==
    Life(mg[m]) # "gone" /\ Life(mg'[m]) = "gone" => Owned(m) = {}

AcknowledgesAll(m) ==
    LET acks == mg'[m].status.observedGeneration IN
    acks > mg[m].status.observedGeneration =>
        \A n \in Owned(m) : ea[n].content.by = {m} /\ ea[n].content.gen = acks

(* and of publishing and withdrawing.                                      *)
PublishesOwn(n) ==
    \A m \in MG :
        ea'[n].content # ea[n].content /\ ea'[n].content.by = {m} => ea[n].owner = {m}

WithdrawsGuarded(n) ==
    /\ ea'[n].owner # ea[n].owner \/ ea'[n].content # ea[n].content
    /\ ea'[n].owner = {} /\ ea'[n].content = NoContent
    => \E m \in MG : Life(mg[m]) = "guarded"

StrictStep ==
    /\ \A m \in MG : LeavesClean(m) /\ AcknowledgesAll(m)
    /\ \A n \in Name : PublishesOwn(n) /\ WithdrawsGuarded(n)

(* A step of the contract that keeps to these is one of the strict one.    *)
LEMMA StrictSteps ==
    ASSUME [Contract!Next]_(Contract!vars), StrictStep
    PROVE  [Contract!StrictNext]_(Contract!vars)
<1> DEFINE life == [k \in MG |-> Life(mg[k])]
           acked == [k \in MG |-> mg[k].status.observedGeneration]
           owner == [x \in Name |-> ea[x].owner]
           served == [x \in Name |-> ea[x].content]
<1>1. /\ \A k \in MG : /\ life[k] = Life(mg[k]) /\ life'[k] = Life(mg'[k])
                       /\ acked[k] = mg[k].status.observedGeneration
                       /\ acked'[k] = mg'[k].status.observedGeneration
      /\ \A x \in Name : /\ owner[x] = ea[x].owner /\ owner'[x] = ea'[x].owner
                         /\ served[x] = ea[x].content /\ served'[x] = ea'[x].content
  OBVIOUS
<1>2. \A k \in MG, x \in Name : Contract!Owns(k, x) => x \in Owned(k)
  BY <1>1 DEF Contract!Owns, Owned
<1>3. CASE UNCHANGED Contract!vars
  BY <1>3
<1>4. ASSUME NEW m \in MG, Contract!Appear(m) \/ Contract!Guard(m)
      PROVE  Contract!StrictNext
  BY <1>4 DEF Contract!StrictNext
<1>5. ASSUME NEW m \in MG, Contract!Leave(m) PROVE Contract!StrictNext
  <2>1. life[m] # "gone" /\ life'[m] = "gone"
    BY <1>5 DEF Contract!Leave
  <2>2. Owned(m) = {}
    BY <1>1, <2>1 DEF StrictStep, LeavesClean
  <2>3. Contract!LeaveClean(m)
    BY <1>2, <1>5, <2>2 DEF Contract!LeaveClean
  <2> QED BY <2>3 DEF Contract!StrictNext
<1>6. ASSUME NEW m \in MG, Contract!Acknowledge(m) PROVE Contract!StrictNext
  <2>1. acked'[m] > acked[m]
    BY <1>6 DEF Contract!Acknowledge
  <2>2. \A x \in Owned(m) : ea[x].content.by = {m} /\ ea[x].content.gen = acked'[m]
    BY <1>1, <2>1 DEF StrictStep, AcknowledgesAll
  <2>3. \A x \in Name : Contract!Owns(m, x) =>
            served[x].by = {m} /\ served[x].gen = acked'[m]
    BY <1>1, <1>2, <2>2
  <2>4. Contract!AcknowledgeAll(m)
    BY <1>6, <2>3 DEF Contract!AcknowledgeAll
  <2> QED BY <2>4 DEF Contract!StrictNext
<1>7. ASSUME NEW m \in MG, NEW n \in Name, Contract!Claim(m, n)
      PROVE  Contract!StrictNext
  BY <1>7 DEF Contract!StrictNext
<1>8. ASSUME NEW m \in MG, NEW n \in Name, Contract!Publish(m, n)
      PROVE  [Contract!StrictNext]_(Contract!vars)
  <2>1. PICK gen \in Gen, rev \in Rev :
            served' = [served EXCEPT ![n] = [by |-> {m}, gen |-> gen, rev |-> rev]]
    BY <1>8 DEF Contract!Publish
  <2>2. UNCHANGED <<life, owner, acked>>
    BY <1>8 DEF Contract!Publish
  <2> DEFINE c == [by |-> {m}, gen |-> gen, rev |-> rev]
  <2>c. c.by = {m}
    OBVIOUS
  <2> HIDE DEF c
  <2>d. served' = [served EXCEPT ![n] = c]
    BY <2>1 DEF c
  <2>3. served'[n].by = {m}
    <3>1. served'[n] = c
      BY <2>d
    <3> QED BY <2>c, <3>1
  <2>4. CASE served'[n] = served[n]
    <3>1. served' = served
      BY <2>d, <2>4
    <3> QED BY <2>2, <3>1 DEF Contract!vars
  <2>5. CASE served'[n] # served[n]
    <3>1. ea[n].owner = {m}
      BY <1>1, <2>3, <2>5 DEF StrictStep, PublishesOwn
    <3>2. Contract!PublishOwn(m, n)
      BY <1>1, <1>8, <3>1 DEF Contract!PublishOwn, Contract!Owns
    <3> QED BY <3>2 DEF Contract!StrictNext
  <2> QED BY <2>4, <2>5
<1>9. ASSUME NEW n \in Name, Contract!Withdraw(n)
      PROVE  [Contract!StrictNext]_(Contract!vars)
  <2>1. /\ owner' = [owner EXCEPT ![n] = {}]
        /\ served' = [served EXCEPT ![n] = NoContent]
        /\ UNCHANGED <<life, acked>>
    BY <1>9 DEF Contract!Withdraw, Contract!NoContent, NoContent
  <2>2. CASE owner'[n] = owner[n] /\ served'[n] = served[n]
    <3>1. owner' = owner /\ served' = served
      BY <2>1, <2>2
    <3> QED BY <2>1, <3>1 DEF Contract!vars
  <2>3. CASE ~(owner'[n] = owner[n] /\ served'[n] = served[n])
    <3>1. \E m \in MG : Life(mg[m]) = "guarded"
      BY <1>1, <2>1, <2>3 DEF StrictStep, WithdrawsGuarded
    <3>2. Contract!WithdrawGuarded(n)
      BY <1>1, <1>9, <3>1 DEF Contract!WithdrawGuarded
    <3> QED BY <3>2 DEF Contract!StrictNext
  <2> QED BY <2>2, <2>3
<1> QED BY <1>3, <1>4, <1>5, <1>6, <1>7, <1>8, <1>9 DEF Contract!Next

(* A step that writes no object leaves and acknowledges nothing, and one   *)
(* that writes no artifact publishes and withdraws nothing.                *)
LEMMA QuietObject ==
    ASSUME TypeOK, NEW m \in MG, Life(mg'[m]) = Life(mg[m]),
           mg'[m].status.observedGeneration = mg[m].status.observedGeneration
    PROVE  LeavesClean(m) /\ AcknowledgesAll(m)
<1>1. mg[m].status.observedGeneration \in Nat
  BY StateNumbers, ObjectFields
<1> QED BY <1>1 DEF LeavesClean, AcknowledgesAll

LEMMA QuietArtifact ==
    ASSUME NEW n \in Name, ea'[n] = ea[n]
    PROVE  PublishesOwn(n) /\ WithdrawsGuarded(n)
BY DEF PublishesOwn, WithdrawsGuarded

(* What the invariants say of one generator.                               *)
LifecyclePart(m) == CalmPart(m) /\ OwnPart(m) /\ PassHoldsArtifacts(m)

(* A user makes a generator leave only before it has the finalizer.        *)
LEMMA UserStrictly ==
    ASSUME TypeOK, TypeOK', HistoryInv, NEW m \in MG, LifecyclePart(m), User(m)
    PROVE  StrictStep
<1>1. ea' = ea /\ \A k \in MG \ {m} : mg'[k] = mg[k]
  BY DEF User, Create, EditSpec, Annotate, Request, Delete, UNCHANGED_Controller, TypeOK
<1>2. /\ mg[m] \in Object /\ mg'[m] \in Object
      /\ mg[m].status.observedGeneration \in Nat
  BY StateNumbers, ObjectFields DEF TypeOK
<1>3. LeavesClean(m)
  <2>1. CASE ~mg[m].finalizer
    BY <2>1 DEF LeavesClean, LifecyclePart, OwnPart, PassKnowsOwned
  <2>2. CASE mg[m].finalizer
    <3>1. mg'[m].exists
      BY <2>2, UserDoes
    <3> QED BY <1>2, <3>1, LifeCases DEF LeavesClean, Object
  <2> QED BY <2>1, <2>2
<1>4. AcknowledgesAll(m)
  <2>1. mg'[m].status.observedGeneration \in {0, mg[m].status.observedGeneration}
    <3>1. CASE mg'[m].exists
      BY <3>1, UserKeepsStatus
    <3>2. CASE ~mg'[m].exists
      <4>1. mg'[m].status = NoStatus
        BY <3>2, UserDoes
      <4> QED BY <4>1 DEF NoStatus
    <3> QED BY <3>1, <3>2
  <2> QED BY <1>2, <2>1 DEF AcknowledgesAll
<1>5. \A k \in MG \ {m} : LeavesClean(k) /\ AcknowledgesAll(k)
  BY <1>1, QuietObject
<1> QED BY <1>1, <1>3, <1>4, <1>5, QuietArtifact DEF StrictStep

(* A pass lets its object go when it has cleaned up, and acknowledges the  *)
(* generation it has published.                                            *)
LEMMA PatchStrictly ==
    ASSUME TypeOK, FinalizerInv, HistoryInv, NEW m \in MG, LifecyclePart(m),
           PatchProgress(m) \/ Summarize(m)
    PROVE  StrictStep
<1> DEFINE o == pass[m].obj
<1>1. ea' = ea /\ \A k \in MG \ {m} : mg'[k] = mg[k]
  BY DEF PatchProgress, Summarize, TypeOK
<1>2. /\ mg[m] \in Object /\ o \in Object
      /\ mg[m].status.observedGeneration \in Nat
      /\ CalmPart(m) /\ PassKnowsOwned(m) /\ PassInOrder(m)
  BY PassType, StateNumbers, ObjectFields 
     DEF TypeOK, LifecyclePart, OwnPart, HistoryInv, History
<1>3. LeavesClean(m) /\ AcknowledgesAll(m)
  <2>1. CASE PatchProgress(m)
    <3>1. /\ mg[m].exists /\ mg'[m].exists /\ pass[m].pc = "progress"
          /\ o.finalizer /\ mg'[m].finalizer /\ mg'[m].status = o.status
      BY <1>2, <2>1, ProgressPatches
    <3>2. o.status = mg[m].status
      BY <1>2, <3>1 DEF CalmPart, PassIsCurrent, PassInOrder
    <3>3. mg'[m].status = mg[m].status /\ Life(mg'[m]) # "gone"
      BY <3>1, <3>2 DEF Life
    <3>4. LeavesClean(m)
      BY <3>3 DEF LeavesClean
    <3>5. AcknowledgesAll(m)
      BY <1>2, <3>3 DEF AcknowledgesAll
    <3> QED BY <3>4, <3>5
  <2>2. CASE Summarize(m) /\ ~o.finalizer
    <3>1. pass[m].pc = "summarize" /\ mg'[m] = Absent(mg[m].gen, TRUE)
      BY <1>2, <2>2, SummaryPatches
    <3>2. mg'[m].status.observedGeneration = 0
      BY <3>1 DEF Absent, NoStatus
    <3>3. Owned(m) = {}
      BY <1>2, <2>2, <3>1 DEF PassKnowsOwned
    <3> QED BY <1>2, <3>2, <3>3 DEF LeavesClean, AcknowledgesAll
  <2>3. CASE Summarize(m) /\ o.finalizer
    <3>1. /\ pass[m].pc = "summarize" /\ mg[m].exists
          /\ mg'[m].exists /\ mg'[m].finalizer /\ mg'[m].status = Summary(o).status
      BY <1>2, <2>3, SummaryPatches, Zenon
    <3>2. mg'[m].status.observedGeneration = o.status.observedGeneration
      BY <1>2, <3>1, SummarySets
    <3>3. LeavesClean(m)
      BY <3>1 DEF LeavesClean, Life
    <3>4. ASSUME o.status.observedGeneration > mg[m].status.observedGeneration
          PROVE  \A n \in Owned(m) : /\ ea[n].content.by = {m}
                                     /\ ea[n].content.gen = o.status.observedGeneration
      <4>1. pass[m].before.status = mg[m].status
        BY <1>2, <3>1 DEF CalmPart, PassIsCurrent
      <4>2. o.status.observedGeneration # pass[m].before.status.observedGeneration
        BY <1>2, <3>4, <4>1
      <4>3. o.status.observedGeneration = o.gen
        BY <1>2, <4>2 DEF PassInOrder
      <4> QED BY <1>2, <3>1, <4>2, <4>3 DEF PassKnowsOwned
    <3>5. AcknowledgesAll(m)
      BY <3>2, <3>4 DEF AcknowledgesAll
    <3> QED BY <3>3, <3>5
  <2> QED BY <2>1, <2>2, <2>3, <1>2 DEF Object
<1>4. \A k \in MG \ {m} : LeavesClean(k) /\ AcknowledgesAll(k)
  BY <1>1, QuietObject
<1> QED BY <1>1, <1>3, <1>4, QuietArtifact DEF StrictStep


(* A pass labels and publishes under its own label, and withdraws while    *)
(* its generator is there.                                                 *)
LEMMA PublishStrictly ==
    ASSUME TypeOK, FinalizerInv, HistoryInv, NEW m \in MG, LifecyclePart(m),
           \/ ApplyExternalArtifact(m) \/ PatchExternalArtifactStatus(m)
           \/ CleanExternalArtifact(m)
    PROVE  StrictStep
<1>1. mg' = mg
  BY DEF ApplyExternalArtifact, PatchExternalArtifactStatus, CleanExternalArtifact
<1>2. \A k \in MG : LeavesClean(k) /\ AcknowledgesAll(k)
  BY <1>1, QuietObject
<1>3. /\ pass[m].cur \in SUBSET Name /\ mg[m] \in Object
      /\ PassInOrder(m) /\ PassHoldsArtifacts(m) /\ CalmPart(m)
  BY PassType DEF TypeOK, LifecyclePart, HistoryInv, History
<1> SUFFICES ASSUME NEW n \in Name, ea'[n] # ea[n]
             PROVE  PublishesOwn(n) /\ WithdrawsGuarded(n)
  BY <1>2, QuietArtifact DEF StrictStep
<1>4. CASE ApplyExternalArtifact(m)
  <2>1. PICK x \in pass[m].cur : ea' = [ea EXCEPT ![x].exists = TRUE, ![x].owner = {m}]
    BY <1>4 DEF ApplyExternalArtifact
  <2>2. n = x
    BY <1>3, <2>1 DEF TypeOK
  <2>3. ea'[n].owner = {m} /\ ea'[n].content = ea[n].content
    BY <1>3, <2>1, <2>2 DEF TypeOK, EA
  <2> QED BY <2>3 DEF PublishesOwn, WithdrawsGuarded
<1>5. CASE PatchExternalArtifactStatus(m)
  <2>1. PICK x \in pass[m].cur : ea' = [ea EXCEPT ![x].content = Digest(m)]
    BY <1>5, Zenon DEF PatchExternalArtifactStatus
  <2>2. n = x
    BY <1>3, <2>1 DEF TypeOK
  <2>3. ea'[n].owner = ea[n].owner /\ ea'[n].content = Digest(m)
    BY <1>3, <2>1, <2>2 DEF TypeOK, EA
  <2>4. ea[n].owner = {m}
    BY <1>3, <1>5, <2>1, <2>2 DEF PassHoldsArtifacts, PatchExternalArtifactStatus, At
  <2>5. Digest(m).by = {m}
    BY DEF Digest
  <2> QED BY <2>3, <2>4, <2>5 DEF PublishesOwn, WithdrawsGuarded
<1>6. CASE CleanExternalArtifact(m)
  <2>1. PICK x \in Name : pass[m].cur = {x}
    BY <1>3, <1>6 DEF CleanExternalArtifact, At, PassInOrder
  <2>2. n = x /\ ea'[n].content = NoContent
    BY <1>6, <2>1 DEF CleanExternalArtifact, NoEA
  <2>3. pass[m].pc = "cleanea"
    BY <1>6 DEF CleanExternalArtifact, At
  <2>4. pass[m].before.finalizer
    BY <1>3, <2>3 DEF PassInOrder, CalmPart, PassIsCurrent
  <2>5. mg[m].exists /\ mg[m].finalizer
    BY <1>3, <2>3, <2>4 DEF CalmPart, PassIsCurrent
  <2>6. Life(mg[m]) = "guarded"
    BY <2>5 DEF Life
  <2>7. \A k \in MG : NoContent.by # {k}
    BY DEF NoContent
  <2> QED BY <2>2, <2>6, <2>7 DEF PublishesOwn, WithdrawsGuarded
<1> QED BY <1>4, <1>5, <1>6

(* Every step is a step of the strict contract or a stutter.               *)
LEMMA StrictContractStep ==
    /\ TypeOK /\ TypeOK' /\ FinalizerInv /\ HistoryInv /\ PublishingInv
    /\ LifecycleInv /\ Calm /\ Calm' /\ [Next]_vars
    => [Contract!StrictNext]_(Contract!vars)
<1> SUFFICES ASSUME TypeOK, TypeOK', FinalizerInv, HistoryInv, PublishingInv,
                    LifecycleInv, Calm, Calm', [Next]_vars
             PROVE  [Contract!StrictNext]_(Contract!vars)
  OBVIOUS
<1>1. \A m \in MG : LifecyclePart(m)
  BY DEF LifecyclePart, LifecycleInv, CalmInv, CalmPart, OwnershipInv, OwnPart, PublishingInv
<1>2. \A m \in MG : ~SummarizeFails(m)
  <2>1. \A m \in MG : ~pass[m].expired
    BY <1>1 DEF LifecyclePart, CalmPart, PassIsCurrent
  <2>2. ~Fault("status")
    BY NoFault
  <2>3. \A m \in MG : ~CallFails(m, "status")
    BY <2>1, <2>2 DEF CallFails
  <2> QED BY <2>3 DEF SummarizeFails
<1>3. StrictStep
  <2>1. CASE mg' = mg /\ ea' = ea
    BY <2>1, QuietObject, QuietArtifact DEF StrictStep
  <2>2. ASSUME NEW m \in MG, User(m) PROVE StrictStep
    BY <1>1, <2>2, UserStrictly
  <2>3. ASSUME NEW m \in MG, PatchProgress(m) \/ Summarize(m) PROVE StrictStep
    BY <1>1, <2>3, PatchStrictly
  <2>4. ASSUME NEW m \in MG, \/ ApplyExternalArtifact(m) \/ PatchExternalArtifactStatus(m)
                              \/ CleanExternalArtifact(m)
        PROVE StrictStep
    BY <1>1, <2>4, PublishStrictly
  <2> QED BY <1>2, <2>1, <2>2, <2>3, <2>4, HiddenSteps
<1> QED BY <1>3, ContractStep, StrictSteps

(* The reconcile loop keeps the strict contract as long as no call fails,  *)
(* the cache shows what is stored and no pass is at a name another one     *)
(* works on: a generator goes only when it owns nothing, publishes only    *)
(* under its own label, withdraws only while it is there, and has brought  *)
(* everything it owns to a generation before it says it has handled it.    *)
THEOREM ImplementsStrictContract ==
    Spec /\ []Calm /\ []Exclusive => KeepsStrictContract
<1>1. Spec => []TypeOK
  BY TypeCorrect
<1>2. Spec => []FinalizerInv
  BY FinalizerInvariant
<1>3. Spec => []HistoryInv
  BY HistoryInvariant
<1>4. Spec /\ []Exclusive => []PublishingInv
  BY ExclusiveUncontended, PublishingInvariant, PTL
<1> QED BY <1>1, <1>2, <1>3, <1>4, LifecycleInvariant, ContractInit, StrictContractStep, PTL
        DEF Spec, KeepsStrictContract, Contract!StrictSpec
=============================================================================
