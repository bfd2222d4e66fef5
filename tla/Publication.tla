---------------------------- MODULE Publication ----------------------------
(***************************************************************************)
(* What the controller promises about ExternalArtifacts, without passes,    *)
(* caches, queues or storage: who may publish under which name, what may    *)
(* replace what, and when a ManifestGenerator may say it has handled a      *)
(* generation, or go.                                                       *)
(*                                                                          *)
(* Spec is what remains under failures, restarts and stale reads;           *)
(* StrictSpec is what the controller keeps while nothing fails.             *)
(***************************************************************************)
EXTENDS Naturals

CONSTANTS MG,       \* ManifestGenerators
          Name,     \* ExternalArtifact names
          Gen,      \* generations, numbers from 0
          Rev       \* revisions of the sources, numbers from 0

VARIABLES life,     \* of each generator
          owner,    \* the generator each ExternalArtifact is labelled with
          served,   \* the content each ExternalArtifact advertises
          acked     \* the generation each generator says it has handled

vars == <<life, owner, served, acked>>

NoContent == [by |-> {}, gen |-> 0, rev |-> 0]

Init ==
    /\ life = [m \in MG |-> "absent"]
    /\ owner = [n \in Name |-> {}]
    /\ served = [n \in Name |-> NoContent]
    /\ acked = [m \in MG |-> 0]

(* A generator is created, and guarded by the finalizer before it          *)
(* publishes anything.                                                     *)
Appear(m) ==
    /\ life[m] = "absent"
    /\ life' = [life EXCEPT ![m] = "unguarded"]
    /\ UNCHANGED <<owner, served, acked>>

Guard(m) ==
    /\ life[m] = "unguarded"
    /\ life' = [life EXCEPT ![m] = "guarded"]
    /\ UNCHANGED <<owner, served, acked>>

Leave(m) ==
    /\ life[m] \in {"unguarded", "guarded"}
    /\ life' = [life EXCEPT ![m] = "gone"]
    /\ acked' = [acked EXCEPT ![m] = 0]
    /\ UNCHANGED <<owner, served>>

(* The ExternalArtifact is labelled with the generator; what it advertises *)
(* stays until the new content is published.                               *)
Claim(m, n) ==
    /\ life[m] = "guarded"
    /\ owner' = [owner EXCEPT ![n] = {m}]
    /\ UNCHANGED <<life, served, acked>>

(* A generator never replaces its own content by an older one: neither by  *)
(* one of an older spec nor by one of older sources.                       *)
Publish(m, n) ==
    /\ life[m] = "guarded"
    /\ \E gen \in Gen, rev \in Rev :
          /\ served[n].by = {m} => gen >= served[n].gen /\ rev >= served[n].rev
          /\ served' = [served EXCEPT ![n] = [by |-> {m}, gen |-> gen, rev |-> rev]]
    /\ UNCHANGED <<life, owner, acked>>

(* A generator withdraws names, not only those it owns: the cleanup goes   *)
(* by the inventory, and a pass that reads an old object cleans up for one *)
(* that is gone.                                                           *)
Withdraw(n) ==
    /\ \E m \in MG : life[m] \in {"guarded", "gone"}
    /\ owner' = [owner EXCEPT ![n] = {}]
    /\ served' = [served EXCEPT ![n] = NoContent]
    /\ UNCHANGED <<life, acked>>

(* A generation is said to be handled once, and not before anything newer  *)
(* has been published.                                                     *)
Acknowledge(m) ==
    /\ life[m] = "guarded"
    /\ \E gen \in Gen :
          /\ gen > acked[m]
          /\ \A n \in Name : served[n].by = {m} => served[n].gen <= gen
          /\ acked' = [acked EXCEPT ![m] = gen]
    /\ UNCHANGED <<life, owner, served>>

Owns(m, n) == owner[n] = {m}

Next ==
    \/ \E m \in MG : Appear(m) \/ Guard(m) \/ Leave(m) \/ Acknowledge(m)
    \/ \E m \in MG, n \in Name : Claim(m, n) \/ Publish(m, n)
    \/ \E n \in Name : Withdraw(n)

Spec == Init /\ [][Next]_vars

(* Nothing failing: a generator goes only when it owns nothing, publishes  *)
(* only what it owns, withdraws only while it is there, and has brought    *)
(* everything it owns to a generation before it says it has handled it.    *)
LeaveClean(m) == Leave(m) /\ \A n \in Name : ~Owns(m, n)

PublishOwn(m, n) == Publish(m, n) /\ Owns(m, n)

WithdrawGuarded(n) == Withdraw(n) /\ \E m \in MG : life[m] = "guarded"

AcknowledgeAll(m) ==
    /\ Acknowledge(m)
    /\ \A n \in Name : Owns(m, n) => served[n].by = {m} /\ served[n].gen = acked'[m]

StrictNext ==
    \/ \E m \in MG : Appear(m) \/ Guard(m) \/ LeaveClean(m) \/ AcknowledgeAll(m)
    \/ \E m \in MG, n \in Name : Claim(m, n) \/ PublishOwn(m, n)
    \/ \E n \in Name : WithdrawGuarded(n)

StrictSpec == Init /\ [][StrictNext]_vars
=============================================================================
