----------------------------- MODULE MCPipeline -----------------------------
EXTENDS Pipeline, TLC

\* A map nested two deep, a map that contradicts it, a scalar-valued file.
File1 == Map("x" :> Map("x" :> Leaf("1") @@ "y" :> Null) @@ "y" :> Leaf("1"))
File2 == Map("x" :> Map("x" :> Map("y" :> Leaf("2"))))
File3 == List(<<Leaf("3"), Leaf("3")>>)

MCFiles == "s" :> ("x" :> File1 @@ "y" :> File2)
           @@ "t" :> ("x" :> File3 @@ "y" :> Undecodable)

MCFileOrder == <<"x", "y">>

StepSymmetry == Permutations(StepName)
=============================================================================
