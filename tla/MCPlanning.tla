----------------------------- MODULE MCPlanning -----------------------------
(***************************************************************************)
(* A small instance of Planning: two models of one namespace in a workflow *)
(* and two models of one root, that differ in their namespace.             *)
(***************************************************************************)
EXTENDS Planning, TLC

ax == <<"a", "x">>
ay == <<"a", "y">>
bx == <<"b", "x">>
bz == <<"b", "s", "z">>
raw == <<"raw">>

SmallFiles ==
    { <<"workflows", "a", "transforms", "x">>,
      <<"workflows", "a", "transforms", "y">>,
      <<"transforms", "c", "x">>, <<"transforms", "c", "s", "z">> }
\* transform.toml of transforms/c.
SmallOverride == <<"transforms", "c">> :> "b"
SmallSeeds == {<<"default", "raw">>}

SmallReadings ==
    { ax :> p @@ ay :> q @@ bx :> r @@ bz :> s :
        p \in {{raw}, {<<"y">>}, {<<"z">>}},
        q \in {{raw}, {ax}, {<<"x">>, <<"z">>}},
        r \in {{raw}, {<<"y">>}, {<<"c", "s", "z">>, raw}},
        s \in {{}, {<<"x">>}, {<<"x">>, <<"y">>}} }
SmallTags == [m \in Models |-> IF m = bz THEN {<<"qc">>} ELSE {}]
SmallEphemerals == {{}, {ay}, {bx, ay}}

T(kind, name, up, down) ==
    [kind |-> kind, name |-> name, upstream |-> up, downstream |-> down]
R(include, exclude, filter, up, down) ==
    [include |-> include, exclude |-> exclude, filter |-> filter,
     upstream |-> up, downstream |-> down]

SmallRequests ==
    { R({}, {}, {}, FALSE, FALSE),
      R({}, {T("name", ay, FALSE, FALSE)}, {}, FALSE, FALSE),
      R({}, {T("tag", <<"qc">>, TRUE, TRUE)}, {}, FALSE, FALSE),
      R({T("name", <<"x">>, FALSE, TRUE)}, {}, {}, FALSE, FALSE),
      R({T("name", bx, FALSE, TRUE)}, {T("name", <<"z">>, FALSE, FALSE)}, {},
        FALSE, FALSE),
      R({T("source", raw, FALSE, FALSE)}, {}, {T("glob", <<"a">>, FALSE, FALSE)},
        FALSE, TRUE),
      R({T("changed", <<>>, FALSE, FALSE)},
        {T("namespace", <<"b">>, FALSE, FALSE)}, {}, FALSE, FALSE) }
SmallWarehouses == {{}, {ax, bx, bz}, {ax, ay, bx, bz}}
SmallEdits == {{}, {ax}}
=============================================================================
