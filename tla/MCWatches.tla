----------------------------- MODULE MCWatches -----------------------------
EXTENDS Watches, TLC

CONSTANTS g1, g2, s, c

(* g1 renders a source, with values it requires, takes when they are there *)
(* or does not use; its artifact mirrors the revision of the source or has *)
(* its own.  g2 consumes that artifact beside the source.                  *)
First(maps, mirror) == [sources |-> <<s>>, maps |-> maps, mirror |-> mirror]

Values(optional) == <<[name |-> c, optional |-> optional]>>

MCMenu ==
    g1 :> {First(<<>>, 0), First(Values(TRUE), 1), First(Values(FALSE), 1)}
    @@ g2 :> {[sources |-> <<Out(g1), s>>, maps |-> <<>>, mirror |-> 0]}
=============================================================================
