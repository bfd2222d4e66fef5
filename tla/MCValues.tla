------------------------------ MODULE MCValues ------------------------------
EXTENDS Values, TLC

\* Two maps that disagree below and at x, a scalar, null and a broken text.
MCDecoded ==
  "deep"  :> Map("x" :> Map("x" :> Leaf("1") @@ "y" :> Leaf("1")))
  @@ "flat" :> Map("x" :> Leaf("2") @@ "y" :> Map("x" :> Leaf("2")))
  @@ "null" :> Null
  @@ "num"  :> Leaf("3")
  @@ "bad"  :> Undecodable

MCTargetPath == {<<>>, <<"x">>, <<"y", "x">>}

MCInline == {Null, Map("x" :> Map("x" :> Leaf("4"))), Map("y" :> Null)}
=============================================================================
