----------------------------- MODULE MCChanges ------------------------------
(***************************************************************************)
(* Two directories of models, a seed that may lie in two places or have    *)
(* another name, one test.  The bases: plain identities; a second model    *)
(* of the same name; a namespace from a transform.toml; a pinned identity, *)
(* and one that is pinned to what its path stands for.                     *)
(***************************************************************************)
EXTENDS Changes

ModelAt(d, n) == [kind |-> "model", dir |-> d, name |-> n]
SeedAt(d, n)  == [kind |-> "seed", dir |-> d, name |-> n]
TestAt(n)     == [kind |-> "test", dir |-> "", name |-> n]

Sql(text, reads, pin, layout) == [text |-> text, reads |-> reads, pin |-> pin, layout |-> layout]
Toml(namespace, tags, layout) == [namespace |-> namespace, tags |-> tags, layout |-> layout]
Phlo(transform, model, seeds, seed, layout) ==
    [transform |-> transform, model |-> model, seeds |-> seeds, seed |-> seed, layout |-> layout]

Raw  == {<<"raw", "r">>}
AX   == <<"a", "x">>
PQ   == <<"p", "q">>
Bare == {<<"x">>}

SmallOffers ==
    (ModelAt("a", "x") :> {Sql(0, Raw, <<>>, 0), Sql(0, Raw, <<>>, 1), Sql(1, Raw, <<>>, 0),
                           Sql(0, Raw, PQ, 0), Sql(0, {<<"raw", "s">>}, <<>>, 0)}) @@
    (ModelAt("b", "x") :> {Sql(0, {}, <<>>, 0)}) @@
    (ModelAt("b", "z") :> {Sql(1, {}, PQ, 0)}) @@
    (ModelAt("a", "y") :> {Sql(0, Bare, <<>>, 1), Sql(0, {AX}, <<>>, 0)}) @@
    (RootConfig("a")   :> {Toml("", 0, 0), Toml("", 1, 0), Toml("n", 0, 0), Toml("n", 0, 1)}) @@
    (PhloConfig        :> {Phlo(0, <<>>, 0, <<>>, 1), Phlo(1, <<>>, 0, <<>>, 0),
                           Phlo(0, AX :> 1, 0, <<>>, 0), Phlo(0, <<>>, 1, <<>>, 0),
                           Phlo(0, <<>>, 0, "r" :> 1, 0)}) @@
    (SeedAt("", "r")   :> {1}) @@
    (SeedAt("", "s")   :> {0}) @@
    (TestAt("t")       :> {Sql(1, {<<"y">>}, <<>>, 0)})

SmallMovable ==
    {ModelAt(d, n) : d \in {"a", "b"}, n \in {"x", "y", "w"}} \cup {RootConfig("a"), RootConfig("b")}
      \cup {SeedAt(d, n) : d \in {"", "old"}, n \in {"r", "s"}}

Tree(pin, root, extra) ==
    extra @@ root @@
    (ModelAt("a", "x") :> Sql(0, Raw, pin, 0)) @@
    (ModelAt("a", "y") :> Sql(0, Bare, <<>>, 0)) @@
    (PhloConfig        :> Phlo(0, <<>>, 0, <<>>, 0)) @@
    (SeedAt("", "r")   :> 0) @@
    (TestAt("t")       :> Sql(0, {AX}, <<>>, 0))

Reader(name) == ModelAt("b", "y") :> Sql(0, {name}, <<>>, 0)

SmallBases ==
    { Tree(<<>>, <<>>, Reader(AX)),
      Tree(<<>>, <<>>, Reader(<<"x">>) @@ (ModelAt("b", "x") :> Sql(0, {}, <<>>, 0))),
      Tree(<<>>, RootConfig("a") :> Toml("n", 0, 0), Reader(<<"n", "x">>)),
      Tree(<<>>, RootConfig("a") :> Toml("n", 0, 0), Reader(AX)),
      [Tree(<<>>, <<>>, ModelAt("b", "x") :> Sql(0, {}, <<>>, 0))
         EXCEPT ![ModelAt("a", "y")].pin = <<"a", "y">>],
      [Tree(PQ, <<>>, Reader(PQ)) EXCEPT ![ModelAt("a", "y")].reads = {<<"q">>}] }
=============================================================================
