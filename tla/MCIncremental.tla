---------------------------- MODULE MCIncremental ----------------------------
(***************************************************************************)
(* Small instances of Incremental.                                         *)
(***************************************************************************)
EXTENDS Incremental, TLC

CONSTANTS x1, x2

AnySlot == Permutations({x1, x2})

On(strategy, adapter, overlap) ==
    [strategy |-> strategy, adapter |-> adapter, overlap |-> overlap]
Window == On("window", "trino", 0)
AllKinds == { Window, On("window", "trino", 1), On("append", "trino", 0),
              On("key", "trino", 0), On("key", "duckdb", 0),
              On("partition", "trino", 0) }
OneKind == {Window}
=============================================================================
