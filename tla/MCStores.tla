------------------------------ MODULE MCStores ------------------------------
(***************************************************************************)
(* Three stamps: ".5Z", ".52Z" and ".520000100Z" of one second.  The first *)
(* two are of an older release and sort the other way round as texts; the  *)
(* last two lie in one microsecond.                                        *)
(***************************************************************************)
EXTENDS Stores

T1 == [nano |-> 500000000, micro |-> 500000, text |-> 3]
T2 == [nano |-> 520000000, micro |-> 520000, text |-> 2]
T3 == [nano |-> 520000100, micro |-> 520000, text |-> 1]

Run(id, env, at) ==
    [id |-> id, env |-> env, started_at |-> at, finished_at |-> NoStamp,
     status |-> "running", failed |-> 0, reference_hash |-> ""]

SmallRuns == {Run("a", "", T1), Run("b", "", T2), Run("b", "dev", T3)}

Record(env, hash, strategy, columns, key, at) ==
    [name |-> "m", env |-> env, hash |-> hash, strategy |-> strategy, columns |-> columns,
     effective_key |-> key, at |-> at]

C  == {"c"}
CU == {{"c"}, {"u"}}

SmallRecords ==
    {Record("", "h1", "none", {}, <<{}>>, T1), Record("", "h2", "key", C, <<CU>>, T2),
     Record("", "h1", "none", {}, <<{}>>, T3), Record("dev", "h2", "key", C, <<{C}>>, T1)}

SmallLegacy ==
    {<<>>, <<"m", "">> :> Record("", "h1", "key", C, <<>>, T1),
     <<"m", "">> :> Record("", "h1", "none", {}, <<>>, T1)}

SmallSeeds == {[name |-> "s", env |-> "", hash |-> at.text, at |-> at] : at \in {T1, T2, T3}}

SmallProgress ==
    {[run |-> "a", name |-> "m", status |-> s] : s \in {"running", "passed"}}

SmallPromotions ==
    {[id |-> "p", merged |-> FALSE, created_at |-> T1], [id |-> "p", merged |-> TRUE, created_at |-> T2],
     [id |-> "q", merged |-> TRUE, created_at |-> T2]}

Evidence(id, kind, target, at) ==
    [id |-> id, kind |-> kind, subject |-> "x", target |-> target, created_at |-> at]

SmallEvidence ==
    {Evidence(1, "branch_diff", "main", T1), Evidence(2, "branch_diff", "main", T2),
     Evidence(3, "branch_diff", "release", T3), Evidence(4, "environment", "", T1)}

SmallMarks ==
    {[name |-> "m", env |-> "", value |-> v, run |-> id, now |-> T2] :
        v \in {1, 2}, id \in {"a", "b"}}
      \cup {[name |-> "m", env |-> "", value |-> 3, run |-> "none", now |-> T2]}

SmallPrefixes == {[exact |-> {"a"}, folded |-> {"a"}], [exact |-> {}, folded |-> {"a", "b"}]}
=============================================================================
