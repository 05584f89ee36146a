------------------------------ MODULE Compare -------------------------------
(***************************************************************************)
(* How two states of a model are compared: the columns of two tables       *)
(* (diff.rs, schema.rs), their rows (diff.rs), the contracts they were     *)
(* built under and the keys they promise (contracts.rs).                   *)
(*                                                                         *)
(* The columns of a table are a function from their names to records       *)
(* [type, nullable]; its rows are a sequence of functions from the names   *)
(* to natural numbers, and 0 is NULL.  Renames are a function from new     *)
(* names to old ones.                                                      *)
(***************************************************************************)
EXTENDS StoreRows

-----------------------------------------------------------------------------
(* Types.  What is in brackets after a type's name is not kept, and a name *)
(* that is not known is "unknown".                                         *)

Ranked == <<"tinyint", "smallint", "integer", "bigint", "real", "double", "decimal">>

parse_trino(type) ==
    CASE type \in {"varchar(5)", "varchar(9)"} -> "varchar"
      [] type \in {"uuid", "json"}             -> "unknown"
      [] OTHER                                 -> type

is_numeric(type) == type \in ToSet(Ranked)

Rank(type) == CHOOSE i \in DOMAIN Ranked : Ranked[i] = type

widen(left, right) ==
    IF "unknown" \in {left, right} THEN "unknown"
    ELSE IF left = right THEN left
    ELSE IF ~is_numeric(left) \/ ~is_numeric(right) THEN "unknown"
    ELSE IF Rank(left) >= Rank(right) THEN left ELSE right

Widens(new, old) == is_numeric(new) /\ is_numeric(old) /\ widen(new, old) = new

-----------------------------------------------------------------------------
(* The renames that explain something, and old names claimed twice.        *)

Ambiguous(renames) ==
    {old \in {renames[n] : n \in DOMAIN renames} :
        Cardinality({n \in DOMAIN renames : renames[n] = old}) > 1}

Resolved(renames, new, old) ==
    {n \in DOMAIN renames \cap (DOMAIN new \ DOMAIN old) :
        renames[n] \in DOMAIN old \ Ambiguous(renames)}

Change(column, kind, safety) == [column |-> column, kind |-> kind, safety |-> safety]

(* The physical comparison of two tables.                                  *)
compare_column_lists(new, old, renames) ==
    LET resolved == Resolved(renames, new, old)
        Type(table, c) == parse_trino(table[c].type)
        away == {renames[n] : n \in resolved}
        kept == DOMAIN old \cap DOMAIN new
    IN  {Change(c, "rename_ambiguous", "review") : c \in Ambiguous(renames) \cap DOMAIN old}
          \cup {Change(n, "renamed", "full_rebuild_required") :
                  n \in {r \in resolved : renames[r] \notin DOMAIN new}}
          \cup {Change(c, "removed", "full_rebuild_required") :
                  c \in DOMAIN old \ (DOMAIN new \cup away)}
          \cup {Change(c, "changed", IF is_numeric(Type(new, c)) /\ is_numeric(Type(old, c))
                                       THEN "review" ELSE "error") :
                  c \in {k \in kept : Type(new, k) # Type(old, k)}}
          \cup {Change(c, "nullability", IF new[c].nullable THEN "error" ELSE "review") :
                  c \in {k \in kept : new[k].nullable # old[k].nullable}}
          \cup {Change(c, "added", "safe") : c \in DOMAIN new \ (DOMAIN old \cup resolved)}

breaking_columns_Errors(changes) == {c \in changes : c.safety = "error"}

breaking_columns(changes) ==
    {c \in changes : c.safety \in {"error", "full_rebuild_required"}}

(* How the planner judges the columns a model will have against those of   *)
(* the table that is there, whose nullability it does not ask for.         *)
classify_schema_change(desired, current) ==
    LET kept == DOMAIN desired \cap DOMAIN current
        retyped == {c \in kept : parse_trino(desired[c].type) # parse_trino(current[c].type)}
        Wider(c) == Widens(parse_trino(desired[c].type), parse_trino(current[c].type))
    IN  IF \E c \in retyped : ~Wider(c) THEN "error"
        ELSE IF DOMAIN current \ DOMAIN desired # {} THEN "full_rebuild_required"
        ELSE IF retyped # {} \/ \E c \in DOMAIN desired \ DOMAIN current : ~desired[c].nullable
          THEN "review" ELSE "safe"

(* Whether the planner has the table built anew.                           *)
forces_rebuild(desired, current) ==
    classify_schema_change(desired, current) \in {"error", "full_rebuild_required"}

-----------------------------------------------------------------------------
(* Contracts: <<>>, or one record [enforced, columns, renames].  A column  *)
(* may leave its type ("") or its nullability ("") open.                   *)

NoContract == <<>>

IsContract(contract) == contract # NoContract => contract[1].enforced \in BOOLEAN

compare_column_contracts_Swapped(name, was, now) ==
    LET retyped == /\ "" \notin {was.type, now.type}
                   /\ parse_trino(was.type) # parse_trino(now.type)
        renulled == "" \notin {was.nullable, now.nullable} /\ was.nullable # now.nullable
        wider == Widens(parse_trino(was.type), parse_trino(now.type))
    IN  (IF retyped THEN {Change(name, "type_changed", IF wider THEN "review" ELSE "breaking")}
                    ELSE {})
          \cup (IF renulled THEN {Change(name, "nullability_changed",
                                        IF now.nullable = "yes" THEN "breaking" ELSE "review")}
                           ELSE {})

compare_column_contracts(name, was, now) ==
    LET retyped == /\ "" \notin {was.type, now.type}
                   /\ parse_trino(was.type) # parse_trino(now.type)
        renulled == "" \notin {was.nullable, now.nullable} /\ was.nullable # now.nullable
        wider == Widens(parse_trino(now.type), parse_trino(was.type))
    IN  (IF retyped THEN {Change(name, "type_changed", IF wider THEN "review" ELSE "breaking")}
                    ELSE {})
          \cup (IF renulled THEN {Change(name, "nullability_changed",
                                        IF now.nullable = "yes" THEN "breaking" ELSE "review")}
                           ELSE {})

contract_diff(previous, desired) ==
    IF previous = NoContract /\ desired = NoContract THEN {}
    ELSE IF previous = NoContract THEN {Change("", "contract_added", "safe")}
    ELSE IF desired = NoContract THEN {Change("", "contract_removed", "breaking")}
    ELSE
      LET was == previous[1]
          now == desired[1]
          resolved == Resolved(now.renames, now.columns, was.columns)
          away == {now.renames[n] : n \in resolved}
          known == {n \in resolved \cap DOMAIN was.renames : was.renames[n] = now.renames[n]}
          Old(c) == IF c \in resolved THEN now.renames[c] ELSE c
      IN  {Change("", "enforcement_changed", IF e THEN "breaking" ELSE "review") :
              e \in {was.enforced} \ {now.enforced}}
            \cup {Change(c, "rename_ambiguous", "review") :
                    c \in Ambiguous(now.renames) \cap DOMAIN was.columns}
            \cup {Change(n, "renamed", "breaking") :
                    n \in resolved \ known}
            \cup {Change(c, "removed", "breaking") :
                    c \in DOMAIN was.columns \ (DOMAIN now.columns \cup away)}
            \cup {Change(c, "added", "safe") :
                    c \in {k \in DOMAIN now.columns : Old(k) \notin DOMAIN was.columns}}
            \cup UNION {compare_column_contracts(c, was.columns[Old(c)], now.columns[c]) :
                    c \in {k \in DOMAIN now.columns : Old(k) \in DOMAIN was.columns}}

(* The key of a model: its key strategy's columns and those of each unique *)
(* assertion.                                                              *)
effective_key(model) ==
    (IF model.strategy = "key" THEN {ToSet(model.columns)} ELSE {})
      \cup {ToSet(u) : u \in ToSet(model.unique)}

key_change(recorded, desired) ==
    IF recorded = Unknown THEN {Change("", "key_unverifiable", "breaking")}
    ELSE IF recorded[2] = desired THEN {}
    ELSE IF recorded[2] = {} THEN {Change("", "key_added", "review")}
    ELSE IF desired = {} THEN {Change("", "key_removed", "breaking")}
    ELSE {Change("", "key_changed", "breaking")}

breaking_contract_changes(changes) == {c \in changes : c.safety = "breaking"}

-----------------------------------------------------------------------------
(* Rows, compared by what the warehouse answers.                           *)

Rows(table) == DOMAIN table

(* The columns that a row diff joins on: the key strategy's, else those of *)
(* the first unique assertion.                                             *)
model_keys(model) ==
    IF model.strategy = "key" THEN model.columns
    ELSE IF model.unique # <<>> THEN model.unique[1] ELSE <<>>

Abs(n) == IF n < 0 THEN -n ELSE n

change_predicate_Values(b, c, tolerance) == b # 0 /\ c # 0 /\ b # c /\ Abs(b - c) > tolerance

(* Two values differ by more than the tolerance: 0, or an absolute one.    *)
change_predicate(b, c, tolerance) ==
    \/ (b = 0) # (c = 0)
    \/ b # 0 /\ c # 0 /\ b # c /\ Abs(b - c) > tolerance

(* A full outer join; 0 stands for the row of NULLs of a side that has no  *)
(* match.                                                                  *)
FullJoin(new, old, keys) ==
    LET Match(i, j) == \A k \in ToSet(keys) : new[i][k] = old[j][k]
    IN  {p \in Rows(new) \X Rows(old) : Match(p[1], p[2])}
          \cup {<<i, 0>> : i \in {r \in Rows(new) : \A j \in Rows(old) : ~Match(r, j)}}
          \cup {<<0, j>> : j \in {r \in Rows(old) : \A i \in Rows(new) : ~Match(i, r)}}

(* IS NOT DISTINCT FROM joins NULL keys; which side a row lacks is told by *)
(* a NULL in its first key column.                                         *)
keyed_counts(new, old, keys, columns, tolerance) ==
    LET joined == FullJoin(new, old, keys)
        Lacks(table, i) == IF i = 0 THEN TRUE ELSE table[i][keys[1]] = 0
        both == {p \in joined : ~Lacks(new, p[1]) /\ ~Lacks(old, p[2])}
        modified == {p \in both : \E c \in columns :
                        change_predicate(old[p[2]][c], new[p[1]][c], tolerance)}
    IN  [added     |-> Cardinality({p \in joined : Lacks(old, p[2])}),
         removed   |-> Cardinality({p \in joined : Lacks(new, p[1])}),
         modified  |-> Cardinality(modified),
         unchanged |-> Cardinality(both \ modified)]

(* Here NULL keys do not join.                                             *)
column_changed(new, old, keys, column, tolerance) ==
    Cardinality({p \in Rows(new) \X Rows(old) :
        /\ \A k \in ToSet(keys) : new[p[1]][k] = old[p[2]][k] /\ new[p[1]][k] # 0
        /\ change_predicate(old[p[2]][column], new[p[1]][column], tolerance)})

(* Partitions that appeared, vanished, or have another number of rows.     *)
partition_summary(new, old, column) ==
    LET Values(table) == {table[i][column] : i \in Rows(table)}
        Count(table, v) == Cardinality({i \in Rows(table) : table[i][column] = v})
    IN  [added   |-> Values(new) \ Values(old),
         removed |-> Values(old) \ Values(new),
         changed |-> {v \in (Values(new) \cap Values(old)) \ {0} : Count(new, v) # Count(old, v)}]

(* A policy: limits (<<>> for none) and demands.  max_changed_fraction is  *)
(* in hundredths.                                                          *)
evaluate_policy(policy, keys, base_rows, counts) ==
    LET measured == keys # <<>>
        Within(limit, n) == limit = <<>> \/ (measured /\ n <= limit[1])
        changed == counts.added + counts.removed + counts.modified
    IN  /\ Within(policy.max_added_rows, counts.added)
        /\ Within(policy.max_removed_rows, counts.removed)
        /\ Within(policy.max_modified_rows, counts.modified)
        /\ \/ policy.max_changed_fraction = <<>>
           \/ /\ measured
              /\ 100 * changed <= policy.max_changed_fraction[1]
                                    * (IF base_rows = 0 THEN 1 ELSE base_rows)
        /\ policy.require_keyed_diff => measured
        /\ policy.require_full_diff => measured

NoCounts == [added |-> 0, removed |-> 0, modified |-> 0, unchanged |-> 0]

(* The keyed strategy, the one a comparison of branches uses.              *)
diff(new, old, keys, columns, policy) ==
    LET counts == IF keys = <<>> THEN NoCounts
                  ELSE keyed_counts(new, old, keys, columns, policy.tolerance)
    IN  [counts |-> counts, delta |-> Len(new) - Len(old),
         column_changes |->
            IF keys = <<>> THEN <<>>
            ELSE [c \in {k \in columns : column_changed(new, old, keys, k, policy.tolerance) > 0} |->
                    column_changed(new, old, keys, c, policy.tolerance)],
         passed |-> evaluate_policy(policy, keys, Len(old), counts)]
=============================================================================
