----------------------------- MODULE MCEvidence -----------------------------
(***************************************************************************)
(* Workspaces in which everything may happen, and pairs of tables and      *)
(* contracts that are only compared.                                       *)
(***************************************************************************)
EXTENDS Evidence

MCMachines == {"A", "B"}

Col(type, nullable) == [type |-> type, nullable |-> nullable]

(* Rows have all columns there are; a schema may show fewer.               *)
Row(id, n, part) == [id |-> id, n |-> n, part |-> part, old |-> id]

Schema == [c \in {"id", "n", "part"} |-> Col("integer", FALSE)]

Record(hash, contract, key) ==
    <<[hash |-> hash, contract |-> contract, effective_key |-> key,
       strategy |-> "full", columns |-> {}]>>

Table(schema, rows, record, snapshot) ==
    [exists |-> TRUE, schema |-> schema, rows |-> rows, record |-> record, snapshot |-> snapshot]

Absent == [exists |-> FALSE, schema |-> <<>>, rows |-> <<>>, record |-> <<>>, snapshot |-> 0]

Contract(enforced, columns, renames) ==
    <<[enforced |-> enforced, columns |-> columns, renames |-> renames]>>

ById(policy, contract) ==
    <<[strategy |-> "full", columns |-> <<>>, unique |-> <<<<"id">>>>, contract |-> contract,
       policy |-> policy, outputs |-> {"id", "n"}]>>

Keyless(policy, contract) == <<[ById(policy, contract)[1] EXCEPT !.unique = <<>>]>>

Strict == <<[NoPolicy EXCEPT !.max_modified_rows = <<0>>, !.require_keyed_diff = TRUE]>>
Loose  == <<[NoPolicy EXCEPT !.tolerance = 1, !.max_added_rows = <<1>>,
                             !.max_changed_fraction = <<50>>]>>

Main  == {<<"dev", "main">>}
Pairs == {<<"dev", "main">>, <<"dev", "release">>, <<"exp", "main">>}

Case(flows, model, dev, main, bound) ==
    [flows |-> flows, pairs |-> Main, model |-> model, dev |-> dev, main |-> main, same |-> FALSE,
     faulty |-> FALSE, slow |-> {}, calls |-> bound]

-----------------------------------------------------------------------------
(* Branch diffs and audits of them.                                        *)

Key == <<{{"id"}}>>
Base == Table(Schema, <<Row(1, 1, 1), Row(2, 1, 2)>>, Record("v1", NoContract, Key), 1)

Modified == [Base EXCEPT !.rows = <<Row(1, 3, 1), Row(2, 1, 2)>>, !.record = Record("v2", NoContract, Key)]
Nudged   == [Base EXCEPT !.rows = <<Row(1, 2, 1), Row(2, 1, 2)>>, !.record = Record("v3", NoContract, Key)]
Extended == [Base EXCEPT !.rows = Append(@, Row(3, 1, 1)), !.record = Record("v2", NoContract, Key)]
Narrow   == [Base EXCEPT !.schema = [c \in {"id", "part"} |-> Schema[c]],
                         !.record = Record("v2", NoContract, Key)]
Widened  == [Base EXCEPT !.schema.n.type = "bigint", !.record = Record("v2", NoContract, Key)]
Loosened == [Base EXCEPT !.schema.n.nullable = TRUE]
Shrunk   == [Base EXCEPT !.schema.n.type = "smallint"]
Retyped  == [Base EXCEPT !.schema.n.type = "uuid"]
Outside  == [Modified EXCEPT !.record = Base.record]
Rebuilt  == [Base EXCEPT !.schema.n.type = "varchar(5)", !.snapshot = 2]

Flow == {"diff"}

DiffCases ==
    {Case(Flow, model, <<new>>, <<old>>, 3) :
        model \in {ById(Strict, NoContract), ById(Loose, NoContract), Keyless(Strict, NoContract)},
        new \in {Absent, Modified, Nudged, Extended, Narrow, Widened, Loosened, Shrunk,
                Retyped, Outside, Rebuilt, [Rebuilt EXCEPT !.record = <<>>],
                [Modified EXCEPT !.snapshot = 2, !.record = <<>>]},
        old \in {Base, Absent, [Base EXCEPT !.record = <<>>], [Base EXCEPT !.schema.n.type = "json"]}}

MovingCases ==
    {Case(Flow, ById(Strict, NoContract), <<Base, Modified>>, <<Base, Nudged>>, 4)}

Unlisted == [Narrow EXCEPT !.record = <<>>]

LiveCases ==
    {[Case(Flow, ById(Strict, NoContract), <<Modified>>, <<Base>>, 4) EXCEPT !.slow = {"B"}],
     [Case(Flow, ById(Strict, NoContract), <<Modified>>, <<Base>>, 3) EXCEPT !.pairs = Pairs],
     Case(Flow, <<>>, <<Narrow>>, <<Base>>, 3),
     Case(Flow, <<>>, <<Unlisted>>, <<[Base EXCEPT !.record = <<>>]>>, 3)}
      \cup {[Case(Flow, ById(Strict, NoContract), <<new>>, <<Base>>, 3) EXCEPT !.faulty = TRUE] :
              new \in {Modified, Loosened}}
      \cup {[Case(Flow, model, <<Narrow>>, <<Base>>, 3) EXCEPT !.same = TRUE] :
              model \in {ById(Strict, NoContract), Keyless(<<>>, NoContract)}}

-----------------------------------------------------------------------------
(* Tables that are only compared: rows with and without a key, ...         *)

Ids(n) == {ids \in [1 .. n -> 0 .. 2] : \A i, j \in 1 .. n : i < j => ids[i] <= ids[j]}

Tables(values, parts) ==
    UNION {{[i \in 1 .. n |-> Row(ids[i], value[i], part[i])] :
              ids \in Ids(n), value \in [1 .. n -> values], part \in [1 .. n -> parts]} : n \in 0 .. 2}

Valued  == Tables(0 .. 3, {1})
Parted  == Tables({1}, {1, 2})
Unkeyed == Tables({1, 2}, {0, 1})

ByPart == <<[ById(<<>>, NoContract)[1] EXCEPT !.unique = <<<<"id", "part">>>>]>>

Counted(model, tolerance, new, old) ==
    Case(Flow, <<[model[1] EXCEPT !.policy = <<[NoPolicy EXCEPT !.tolerance = tolerance]>>]>>,
         <<[Modified EXCEPT !.rows = new]>>, <<[Base EXCEPT !.rows = old]>>, 1)

ValuedCases ==
    {Counted(ById(<<>>, NoContract), tolerance, new, old) :
        tolerance \in {0, 1}, new \in Valued, old \in Valued}

PartedCases  == {Counted(ById(<<>>, NoContract), 0, new, old) : new \in Parted, old \in Parted}
UnkeyedCases == {Counted(ByPart, 0, new, old) : new \in Unkeyed, old \in Unkeyed}

(* ... columns, and renames among them, ...                                *)
OneColumn ==
    {<<>>} \cup {"a" :> Col(type, nullable) :
        type \in {"integer", "bigint", "varchar(5)", "varchar(9)", "uuid", "json"}, nullable \in BOOLEAN}

Columns(names) ==
    UNION {[chosen -> {Col("integer", FALSE), Col("bigint", TRUE)}] : chosen \in SUBSET names}

Renames ==
    {<<>>, "b" :> "a", "c" :> "a", ("b" :> "a") @@ ("c" :> "b"), ("b" :> "a") @@ ("c" :> "a")}

Compared(new, old, renames) ==
    Case(Flow, ById(<<>>, Contract(TRUE, <<>>, renames)),
         <<[Modified EXCEPT !.schema = new, !.exists = new # <<>>]>>,
         <<[Base EXCEPT !.schema = old, !.exists = old # <<>>]>>, 1)

ColumnCases ==
    {Compared(new, old, <<>>) : new \in OneColumn, old \in OneColumn}
      \cup {Compared(new, old, renames) :
              new \in Columns({"a", "b", "c"}), old \in Columns({"a", "b"}), renames \in Renames}

(* ... and what contracts promise of them, and keys.                       *)
Promises == {<<>>} \cup {"a" :> [type |-> type, nullable |-> nullable] :
                type \in {"", "integer", "bigint", "varchar(5)", "varchar(9)"},
                nullable \in {"", "yes", "no"}}

Stated(names) ==
    UNION {[chosen -> {[type |-> "integer", nullable |-> "no"]}] : chosen \in SUBSET names}

Contracts ==
    {NoContract}
      \cup {Contract(enforced, columns, <<>>) : enforced \in BOOLEAN, columns \in Promises}
      \cup {Contract(TRUE, columns, renames) : columns \in Stated({"a", "b", "c"}), renames \in Renames}

ContractCases ==
    {Case(Flow, ById(<<>>, now), <<Modified>>, <<[Base EXCEPT !.record = Record("v1", was, Key)]>>, 1) :
        now \in Contracts, was \in Contracts}

Keys == {<<>>, <<{}>>, <<{{"id"}}>>, <<{{"id", "n"}}>>, <<{{"id"}, {"n"}}>>}

KeyCases ==
    {Case(Flow, <<[strategy |-> strategy, columns |-> columns, unique |-> unique,
                   contract |-> NoContract, policy |-> <<>>, outputs |-> {"id", "n"}]>>,
          <<Modified>>,
          <<[Base EXCEPT !.record = <<[hash |-> "v1", contract |-> NoContract, effective_key |-> key,
                                       strategy |-> was, columns |-> {"id"}]>>]>>, 1) :
        strategy \in {"key", "full"}, was \in {"key", "full"}, columns \in {<<"id">>, <<"id", "n">>},
        unique \in {<<>>, <<<<"id">>>>, <<<<"n">>, <<"id">>>>}, key \in Keys}

-----------------------------------------------------------------------------
(* Bindings and lineage: the tables do not matter.                         *)

BindingCases == {Case({"environment"}, <<>>, <<Base>>, <<Base>>, 4)}

LineageCases ==
    {Case({"lineage"}, <<>>, <<Base, Base>>, <<Base, Base>>, 4),
     [Case({"lineage"}, <<>>, <<Base>>, <<Base>>, 3) EXCEPT !.pairs = Pairs, !.slow = {"B"}]}

MCCases == {DiffCases, MovingCases, LiveCases, ValuedCases, PartedCases, UnkeyedCases,
            ColumnCases, ContractCases, KeyCases, BindingCases, LineageCases}
=============================================================================
