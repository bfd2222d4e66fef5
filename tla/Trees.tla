------------------------------- MODULE Trees -------------------------------
(***************************************************************************)
(* The decoded YAML/JSON trees that values, pipeline outputs and template  *)
(* scopes are made of, and the Helm-style deep merge the values resolver   *)
(* and the `merge` verb share (each package carries its own copy of the    *)
(* same function).                                                         *)
(*                                                                         *)
(* A tree is [map |-> f], [list |-> s], [leaf |-> x] or Null, which is not  *)
(* the string "null".  Trees are immutable here, so deepClone is identity  *)
(* on the value: what it protects against (trees sharing a substructure)   *)
(* is not visible in this module.                                          *)
(***************************************************************************)
EXTENDS Naturals, Sequences, SequencesExt

CONSTANTS Key,      \* the keys maps are built from
          MaxDepth  \* the deepest nesting of maps a merge meets

ASSUME DepthAssumption == MaxDepth \in Nat \ {0}

Leaf(x) == [leaf |-> x]
List(s) == [list |-> s]
Map(f)  == [map |-> f]
Null    == [null |-> TRUE]
Empty   == Map(<<>>)

IsMap(t)  == "map" \in DOMAIN t
IsList(t) == "list" \in DOMAIN t

\* The paths a tree can be addressed by.
Path == BoundedSeq(Key, MaxDepth)

\* The node a path leads to, for a path HasNode holds of.
Node(t, p) ==
  LET at[n \in 0..Len(p)] == IF n = 0 THEN t ELSE at[n - 1].map[p[n]]
  IN  at[Len(p)]

\* A chain of maps leads along p to a node.
HasNode(t, p) ==
  \A n \in 1..Len(p) :
    LET above == Node(t, SubSeq(p, 1, n - 1))
    IN  IsMap(above) /\ p[n] \in DOMAIN above.map

\* A tree of Key whose maps are nested no deeper than d: a tree of depth 0 is
\* no map.
IsTreeOf(t, d) ==
  \A p \in Path : HasNode(t, p) /\ IsMap(Node(t, p)) =>
    Len(p) < d /\ DOMAIN Node(t, p).map \subseteq Key

IsTree(t) == IsTreeOf(t, MaxDepth)

\* Mutant: the top level is merged key by key, nested maps are replaced.
shallowMerge(a, b) ==
  IF ~IsMap(a) \/ ~IsMap(b) THEN b
  ELSE Map([k \in DOMAIN a.map \union DOMAIN b.map |->
              IF k \in DOMAIN b.map THEN b.map[k] ELSE a.map[k]])

\* deepMerge: two maps merge key by key, in every other pair b wins.  The
\* recursion of the code is a recursive function of the path to the pair of
\* nodes being merged.
mergeNodes(a, b, below) ==
  IF ~IsMap(a) \/ ~IsMap(b) THEN b
  ELSE Map([k \in DOMAIN a.map \union DOMAIN b.map |->
              IF k \notin DOMAIN b.map THEN a.map[k]
              ELSE IF k \notin DOMAIN a.map THEN b.map[k]
              ELSE below[k]])

\* The paths, below the roots, at which both trees have a node.
Shared(a, b) == {p \in Path : p # <<>> /\ HasNode(a, p) /\ HasNode(b, p)}

deepMerge(a, b) ==
  LET merged[p \in Shared(a, b)] ==
        mergeNodes(Node(a, p), Node(b, p), [k \in Key |-> merged[Append(p, k)]])
  IN  mergeNodes(a, b, [k \in Key |-> merged[<<k>>]])

-----------------------------------------------------------------------------
(***************************************************************************)
(* The reference meaning of a merge, stated path by path and without       *)
(* recursion over the result.                                              *)
(***************************************************************************)

\* t decides what is found at p: it has a node there, or a node that is no
\* map on the way.
Decides(t, p) ==
  \/ HasNode(t, p)
  \/ \E n \in 0..Len(p) - 1 : /\ HasNode(t, SubSeq(p, 1, n))
                              /\ ~IsMap(Node(t, SubSeq(p, 1, n)))

\* t is what merging the trees ts from left to right must give: at every
\* path the last tree that decides it is obeyed.
IsMergeOf(t, ts) ==
  \A p \in Path :
    LET deciders == {i \in 1..Len(ts) : Decides(ts[i], p)}
    IN  IF deciders = {} THEN ~HasNode(t, p) \/ p = <<>>
        ELSE LET last == CHOOSE i \in deciders : \A j \in deciders : j <= i
             IN  /\ HasNode(t, p) <=> HasNode(ts[last], p)
                 /\ HasNode(t, p) =>
                      /\ IsMap(Node(t, p)) <=> IsMap(Node(ts[last], p))
                      /\ ~IsMap(Node(t, p)) => Node(t, p) = Node(ts[last], p)
=============================================================================
