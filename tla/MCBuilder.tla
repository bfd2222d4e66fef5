----------------------------- MODULE MCBuilder -----------------------------
EXTENDS Builder, TLC

CONSTANTS Names  \* artifact names

Include(n) == [helper |-> "include", name |-> n]
Lookup(p)  == [helper |-> "lookupFile", path |-> p]
Required   == [helper |-> "required"]

File(a, p, defines, calls) ==
  [src |-> <<a, p>>, defines |-> defines, calls |-> calls, parses |-> TRUE, huge |-> FALSE]

Plain(a, p) == p :> File(a, p, {}, <<>>)

\* Source "s" has a helper at the root and one in d; b breaks below it.
MCSources ==
  "s" :> (Plain("s", <<"f">>)
          @@ <<"_helpers.tpl">> :> File("s", <<"_helpers.tpl">>, {"x", "y"}, <<>>)
          @@ <<"d", "_helpers.tpl">> :> File("s", <<"d", "_helpers.tpl">>, {"x"}, <<>>)
          @@ <<"d", "f">> :> File("s", <<"d", "f">>, {},
                                  <<Include("x"), Include("y"), Lookup(<<"d", "..", "f">>)>>)
          @@ <<"d", "x">> :> File("s", <<"d", "x">>, {"x"}, <<Include("x"), Required>>)
          @@ <<"d", "z">> :> File("s", <<"d", "z">>, {}, <<Include("z")>>)
          @@ <<"d", "up">> :> File("s", <<"d", "up">>, {}, <<Lookup(<<"..", "t", "f">>)>>)
          @@ <<"d", "abs">> :> File("s", <<"d", "abs">>, {}, <<Lookup(<<"", "f">>)>>)
          @@ <<"big">> :> [File("s", <<"big">>, {}, <<>>) EXCEPT !.huge = TRUE]
          @@ <<"b", "_helpers.tpl">> :> [File("s", <<"b", "_helpers.tpl">>, {}, <<>>)
                                           EXCEPT !.parses = FALSE]
          @@ Plain("s", <<"b", "f">>))
  @@ "t" :> Plain("t", <<"f">>)
  @@ "artifact" :> Plain("artifact", <<"f">>)

MCData == "list"   :> [list |-> <<"a", "b">>]
          @@ "same" :> [list |-> <<"a", "a">>]
          @@ "nil"  :> [list |-> <<>>]
          @@ "map"  :> [map |-> ("a" :> "." @@ "b" :> "..")]
          @@ "odd"  :> [map |-> ("b" :> "")]
          @@ "dots" :> [list |-> <<"..x">>]
          @@ "leaf" :> [leaf |-> "a"]

MCKeyOrder == <<"a", "b">>

Tos == {<<"a">>, <<"a", "b">>, <<".", "b", "..", "a">>, <<KEY>>, <<VALUE>>,
        <<VALUE, "b">>, <<"b", VALUE>>, <<"b", ".sops.yaml">>}

From(p, tos) == {[alias |-> "s", from |-> p, to |-> to] : to \in tos}

AnyTemplate == UNION {From(p, Tos) : p \in {<<"f">>, <<"d", "f">>, <<"d", "x">>}}
               \union UNION {From(p, {<<"a">>}) : p \in {<<"d">>, <<"d", "z">>, <<"d", "up">>, <<"d", "abs">>,
                                                        <<"big">>, <<"b", "f">>}}

Artifact(name, forEach, templates) ==
  [name |-> name, forEach |-> forEach, as |-> "item", revision |-> "none",
   templates |-> templates]

\* Without a forEach a destination names no iteration.
Closed(t) == ToSet(t.to) \cap {KEY, VALUE} = {}

Broad ==
  {Artifact(n, e, ts) : n \in Names, e \in DOMAIN MCData,
                        ts \in {<<t>> : t \in AnyTemplate}
                              \union (AnyTemplate \X (From(<<"f">>, Tos) \union From(<<"d", "x">>, Tos)))}
  \union {Artifact(n, "none", ts) :
            n \in Names,
            ts \in {<<t>> : t \in {u \in AnyTemplate : Closed(u)}}
                  \union {<<t, u>> : t \in {u \in AnyTemplate : Closed(u)},
                                    u \in {u \in From(<<"f">>, Tos) : Closed(u)}}}

Narrow(alias) == {Artifact(n, "none", <<[alias |-> alias, from |-> <<"f">>, to |-> <<"a">>]>>)
                    : n \in Names}

\* One thing wrong with an artifact, or not.
Odd ==
  UNION {{art, [art EXCEPT !.forEach = "gone"], [art EXCEPT !.forEach = "list", !.as = "values"],
          [art EXCEPT !.revision = "s"], [art EXCEPT !.revision = "t"],
          [art EXCEPT !.templates[1].to = <<"a", HELPER>>], [art EXCEPT !.templates[1].to = <<>>]}
           : art \in Narrow("s") \union Narrow("t") \union Narrow("artifact")}

Ref(alias) == [alias |-> alias, foreign |-> FALSE]

MCSpecs ==
  [sources : {<<Ref("s"), Ref("t")>>}, artifacts : Broad \X (Narrow("s") \union Narrow("t"))]
  \union
  [sources : {<<Ref("s")>>, <<Ref("s"), Ref("s")>>, <<Ref("artifact"), Ref("s")>>,
              <<[alias |-> "s", foreign |-> TRUE]>>},
   artifacts : {<<art>> : art \in Odd} \union (Narrow("s") \X Odd)]
=============================================================================
