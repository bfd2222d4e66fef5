------------------------- MODULE ReconcilerContract -------------------------
(***************************************************************************)
(* The reconcile loop implements Publication: what a generator's life,     *)
(* labels, published contents and acknowledged generation are in the API   *)
(* server.                                                                 *)
(***************************************************************************)
EXTENDS Reconciler

Life(o) ==
    CASE o.exists /\ o.finalizer     -> "guarded"
      [] o.exists /\ ~o.finalizer    -> "unguarded"
      [] ~o.exists /\ o.deleting     -> "gone"
      [] ~o.exists /\ ~o.deleting    -> "absent"

Contract ==
    INSTANCE Publication WITH
        life   <- [m \in MG |-> Life(mg[m])],
        owner  <- [n \in Name |-> ea[n].owner],
        served <- [n \in Name |-> ea[n].content],
        acked  <- [m \in MG |-> mg[m].status.observedGeneration]

(* Whatever is stale, fails or restarts: only a guarded generator labels,  *)
(* publishes or acknowledges, it never replaces its content by that of an  *)
(* older spec or older sources, and observedGeneration moves only forward  *)
(* and never behind what is published.                                     *)
KeepsContract == Contract!Spec

(* Nothing failing, a generator is gone only when no ExternalArtifact      *)
(* carries its label, publishes only under its own label, and everything   *)
(* that carries it is at the generation observedGeneration moves to.       *)
KeepsStrictContract == Contract!StrictSpec
=============================================================================
