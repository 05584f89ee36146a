----------------------------- MODULE MCLineage ------------------------------
(***************************************************************************)
(* Two models over three sources, one of them (u) unknown to the catalogue.*)
(* m1 offers x and y; the queries of m2 read them through one construct    *)
(* each.  Cells hold 0 or 1: enough for a value, a key or a filter to make *)
(* a difference.                                                           *)
(***************************************************************************)
EXTENDS Lineage

SmallModels  == {"m1", "m2"}
SmallBefore(a, b) == a = "m1" /\ b = "m2"
SmallSchema  == [s |-> <<"a", "b">>, t |-> <<"k", "v">>]
SmallLower   == [n \in {"m1", "m2", "s", "t", "u", "e", "d", "E"} |-> IF n = "E" THEN "e" ELSE n]

Bit == {0, 1}
SmallContents ==
    {[s |-> [names |-> <<"a", "b">>, rows |-> << <<p, q>>, <<r, w>> >>],
      t |-> [names |-> <<"k", "v">>, rows |-> << <<k, v>> >>],
      u |-> [names |-> <<"w">>,      rows |-> << <<z>> >>]] :
        p \in Bit, q \in Bit, r \in Bit, w \in Bit, k \in Bit, v \in Bit, z \in Bit}

Eq(x, y)          == Op("=", <<x, y>>)
One(x)            == <<Eq(x, Lit(1))>>
Plain(from, items) == Query(<<>>, Select(from, <<>>, <<>>, <<>>, items))
Where(from, cond, items) == Query(<<>>, Select(from, cond, <<>>, <<>>, items))
On(l, r, cond)    == <<From(l), Entry(r, "on", cond, {})>>
T(n)              == Table(n, n)
XY(x, y)          == <<As(Col(x), "x"), As(Col(y), "y")>>
Count             == Fn("count", <<>>, <<>>, <<>>)
FromS             == <<From(T("s"))>>
From1             == <<From(T("m1"))>>
KV                == Plain(<<From(T("t"))>>, XY("k", "v")).body

SmallUpstream ==
    { Plain(FromS, XY("a", "b")),
      Where(FromS, One(Col("b")), XY("a", "b")),
      Plain(FromS, <<As(Op("+", <<Col("a"), Col("b")>>), "x"), As(Col("b"), "y")>>),
      Plain(On(T("s"), T("t"), <<Eq(QCol("s", "b"), QCol("t", "k"))>>), XY("a", "v")),
      Query(<<>>, Select(FromS, <<>>, <<Col("a")>>, <<>>,
                         <<As(Fn("sum", <<Col("b")>>, <<>>, <<>>), "x"), As(Col("a"), "y")>>)),
      Query(<<>>, SetOp("union_all", Plain(FromS, XY("a", "b")).body, KV)),
      Query(<<>>, SetOp("except", Plain(FromS, XY("a", "b")).body, KV)),
      Query(<<Cte("e", Where(FromS, One(Col("a")), XY("a", "b")))>>,
            Plain(<<From(T("e"))>>, <<Star>>).body),
      Plain(<<From(T("u"))>>, XY("w", "w")),
      Plain(<<From(T("m2"))>>, <<As(Col("c"), "x"), As(Col("c"), "y")>>) }

SmallDownstream ==
    { Plain(From1, <<As(Col("x"), "c")>>),
      Plain(From1, <<As(Col("y"), "c"), As(Col("x"), "d")>>),
      Plain(From1, <<As(Count, "c")>>),
      Plain(From1, <<As(Fn("count", <<>>, One(Col("y")), <<>>), "c")>>),
      Plain(From1, <<As(Fn("sum", <<Col("x")>>, <<>>, <<Col("y")>>), "c")>>),
      Plain(From1, <<As(Op("case", <<Eq(Col("x"), Lit(1)), Col("y"), Lit(0)>>), "c")>>),
      Plain(On(T("m1"), T("t"), <<Eq(Col("y"), Col("k"))>>), <<As(Col("x"), "c")>>),
      Plain(<<From(T("m1")),
              Entry(Derived(Plain(<<From(T("t"))>>, <<As(Col("k"), "y"), As(Col("v"), "z")>>), "d"),
                    "using", <<>>, {"y"})>>,
            <<As(Op("+", <<Col("x"), Col("z")>>), "c")>>),
      Plain(<<From(T("m1")),
              Entry(Derived(Plain(<<From(T("t"))>>, <<As(Col("k"), "y"), As(Col("v"), "z")>>), "d"),
                    "natural", <<>>, {})>>,
            <<As(Op("+", <<Col("x"), Col("z")>>), "c")>>),
      Query(<<Cte("E", Plain(From1, XY("y", "x"))), Cte("d", Plain(<<From(T("e"))>>, <<Star>>))>>,
            Plain(<<From(T("d"))>>, <<As(Col("x"), "c")>>).body),
      Where(From1, <<Sub(Plain(<<From(T("t"))>>, <<As(Col("k"), "k")>>))>>, <<As(Col("x"), "c")>>),
      Plain(<<From(Derived(Where(From1, One(Col("y")), <<As(Col("x"), "x")>>), "d"))>>,
            <<As(Count, "c")>>),
      Query(<<>>, Select(From1, <<>>, <<>>, One(Count), <<As(Fn("sum", <<Col("x")>>, <<>>, <<>>), "c")>>)),
      Query(<<Cte("e", Plain(From1, XY("y", "x")))>>,
            Where(<<From(T("e"))>>, One(Col("x")), <<As(Col("y"), "c")>>).body),
      Query(<<Cte("m1", Plain(From1, XY("x", "y")))>>, Plain(From1, <<As(Col("x"), "c")>>).body),
      Plain(FromS, <<As(Col("a"), "c")>>) }

Both(q1, q2) == [m \in SmallModels |-> IF m = "m1" THEN q1 ELSE q2]
SmallDesigns == {Both(q1, q2) : q1 \in SmallUpstream, q2 \in SmallDownstream}
=============================================================================
