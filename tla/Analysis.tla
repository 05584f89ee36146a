------------------------------ MODULE Analysis ------------------------------
(***************************************************************************)
(* Column resolution and lineage of one model (analyze.rs): which columns  *)
(* of other relations each output column draws from, directly or through a *)
(* clause, and whether the analyser vouches for the list.                  *)
(*                                                                         *)
(* A column reference is a pair <<relation, column>>.  Types and           *)
(* nullability, ORDER BY, nested joins and table functions are left out.   *)
(*                                                                         *)
(* Two fields are not the code's: "rows" is what decides which rows a      *)
(* relation has, and "missed" is what the analyser passes over while it    *)
(* analyses a query.  Nothing reads them but the properties, which need    *)
(* them to say exactly how much the recorded inputs cover.                 *)
(***************************************************************************)
EXTENDS Sql

CONSTANTS Models,         \* the models' names
          SourceSchema    \* [sources the catalogue knows -> Seq(column names)]

-----------------------------------------------------------------------------
(* Inputs.                                                                 *)

Unknowable == <<"?", "?">>       \* a reference to what was not analysed

identity(ref) == [col |-> ref, dir |-> "direct", kind |-> "identity"]

retag(inputs, kind) ==
    {IF i.dir = "direct" THEN [i EXCEPT !.kind = kind] ELSE i : i \in inputs}

mark_indirect(inputs, kind) ==
    {[i EXCEPT !.dir = "indirect", !.kind = kind] : i \in inputs}

Refs(inputs)      == {i.col : i \in inputs}
Doubt(complete)   == IF complete THEN {} ELSE {Unknowable}
RefsOf(columns)   == UNION {Refs(c.inputs) \cup Doubt(c.complete) : c \in ToSet(columns)}

Unknown(problems) ==
    [inputs |-> {}, complete |-> FALSE, aggregates |-> FALSE,
     problems |-> problems, missed |-> {}]

-----------------------------------------------------------------------------
(* Expressions.  A scope is a sequence of relations with their columns.    *)

all_columns(scope) == FlattenSeq([i \in DOMAIN scope |-> scope[i].cols])

resolve(scope, q, n) ==
    SelectSeq(all_columns(SelectSeq(scope, LAMBDA r : q \in {"", r.alias})),
              LAMBDA c : c.name = n)

resolve_column(found) ==
    CASE Len(found) = 0 -> Unknown({"unknown"})
      [] Len(found) = 1 -> [inputs |-> found[1].inputs, complete |-> found[1].complete,
                            aggregates |-> FALSE, problems |-> {}, missed |-> {}]
      [] OTHER          -> Unknown({"ambiguous"})

Gather(parts) ==
    [inputs     |-> UNION {p.inputs : p \in parts},
     complete   |-> \A p \in parts : p.complete,
     aggregates |-> \E p \in parts : p.aggregates,
     problems   |-> UNION {p.problems : p \in parts},
     missed     |-> UNION {p.missed : p \in parts}]

(* Arguments flow in, window keys only influence; a FILTER is not looked at. *)
infer_function(x, args, keys, filter) ==
    [inputs     |-> retag(args.inputs, IF x.over # <<>> THEN "window" ELSE "aggregation")
                      \cup mark_indirect(keys.inputs, "group_by"),
     complete   |-> args.complete /\ keys.complete,
     aggregates |-> TRUE,
     problems   |-> args.problems \cup keys.problems,
     missed     |-> args.missed \cup keys.missed
                      \cup Refs(filter.inputs) \cup Doubt(filter.complete)]

RECURSIVE infer(_, _)

InferAll(xs, scope) == Gather({infer(x, scope) : x \in ToSet(xs)})

infer(x, scope) ==
    CASE x.e = "col" -> resolve_column(resolve(scope, x.q, x.n))
      [] x.e = "lit" -> Gather({})
      [] x.e = "sub" -> Unknown({})
      [] x.e = "fn"  -> infer_function(x, InferAll(x.args, scope), InferAll(x.over, scope),
                                       InferAll(x.filter, scope))
      [] x.e = "op"  -> [InferAll(x.args, scope) EXCEPT !.inputs =
                           retag(@, IF x.op = "case" THEN "conditional" ELSE "transformation")]

-----------------------------------------------------------------------------
(* Queries.  st is what the analysis of a model carries along: the schemas *)
(* analysed so far, the one table of CTEs, whether an input had no schema, *)
(* and whether an error was reported.                                      *)

RECURSIVE analyze_query(_, _), analyze_set_expr(_, _)

(* An ambiguous name is always an error, an unknown one only if every      *)
(* schema seen so far was known.                                           *)
Report(st, problems) ==
    [st EXCEPT !.errors = @ \/ "ambiguous" \in problems
                            \/ ("unknown" \in problems /\ ~st.unknown)]

NoSchema(st) ==
    [cols |-> <<>>, rows |-> {Unknowable}, st |-> [st EXCEPT !.unknown = TRUE]]

Columns(rel, names) ==
    [i \in DOMAIN names |->
       [name |-> names[i], inputs |-> {identity(<<rel, names[i]>>)}, complete |-> TRUE]]

(* A column of a model is a leaf here, whatever is known of its own inputs. *)
model_columns(m, st) ==
    IF m \notin DOMAIN st.schemas THEN NoSchema(st)
    ELSE LET schema == st.schemas[m]
         IN  [cols |-> Columns(m, [i \in DOMAIN schema.cols |-> schema.cols[i].name]),
              rows |-> schema.rows,
              st   |-> [st EXCEPT !.unknown = @ \/ ~schema.known]]

source_columns(s, st) ==
    IF s \notin DOMAIN SourceSchema THEN NoSchema(st)
    ELSE [cols |-> Columns(s, SourceSchema[s]), rows |-> {}, st |-> st]

(* A CTE shadows models and sources; names not in the workspace are sources. *)
table_factor(rel, st) ==
    IF rel.from = "derived" THEN analyze_query(rel.query, st)
    ELSE IF Lower[rel.n] \in DOMAIN st.ctes
           THEN [cols |-> st.ctes[Lower[rel.n]].cols,
                 rows |-> st.ctes[Lower[rel.n]].rows, st |-> st]
    ELSE IF rel.n \in Models THEN model_columns(rel.n, st)
    ELSE source_columns(rel.n, st)

NamesIn(scope) == {c.name : c \in ToSet(all_columns(scope))}

(* The columns a join compares without an ON.                              *)
Keyed(entry, scope, rel) ==
    CASE entry.join = "using"   -> entry.using
      [] entry.join = "natural" -> NamesIn(<<rel>>) \cap NamesIn(scope)
      [] OTHER                  -> {}

JoinKeys(entry, scope, rel) ==
    UNION {c.inputs : c \in {d \in ToSet(all_columns(Append(scope, rel))) :
                                d.name \in Keyed(entry, scope, rel)}}

(* USING keeps the left copy of a column only.                             *)
Merged(entry, scope, rel) ==
    IF entry.join # "using" THEN rel
    ELSE [rel EXCEPT !.cols = SelectSeq(@, LAMBDA c : c.name \notin entry.using \cap NamesIn(scope))]

Absent(entry, scope, rel) ==
    IF entry.using \subseteq NamesIn(Append(scope, rel)) THEN {} ELSE {"unknown"}

Joined(built, entry, right, rel, on) ==
    [scope    |-> Append(built.scope, Merged(entry, built.scope, rel)),
     joins    |-> built.joins
                    \cup mark_indirect(on.inputs \cup JoinKeys(entry, built.scope, rel), "join"),
     complete |-> built.complete /\ on.complete,
     missed   |-> built.missed \cup right.rows \cup on.missed,
     st       |-> Report(right.st, on.problems \cup Absent(entry, built.scope, rel))]

WithRelation(built, entry, right, rel) ==
    Joined(built, entry, right, rel, InferAll(entry.on, Append(built.scope, rel)))

Beside(built, entry, right) ==
    WithRelation(built, entry, right, [alias |-> entry.rel.alias, cols |-> right.cols])

add_table_with_joins(built, entry) == Beside(built, entry, table_factor(entry.rel, built.st))

build_scope(from, st) ==
    FoldLeft(add_table_with_joins,
             [scope |-> <<>>, joins |-> {}, complete |-> TRUE, missed |-> {}, st |-> st], from)

(* What a clause brings to every column, to aggregates, and to the rows.   *)
Clauses(built, filters, keys) ==
    [indirect |-> built.joins \cup mark_indirect(filters.inputs, "filter"),
     grouping |-> mark_indirect(keys.inputs, "group_by"),
     complete |-> built.complete /\ filters.complete /\ keys.complete,
     missed   |-> built.missed \cup filters.missed \cup keys.missed,
     problems |-> filters.problems \cup keys.problems]

Named(it, found, on) ==
    [name     |-> it.n,
     inputs   |-> found.inputs \cup on.indirect
                    \cup (IF found.aggregates THEN on.grouping ELSE {}),
     complete |-> found.complete /\ on.complete]

Wildcard(cols, on) ==
    [i \in DOMAIN cols |-> [cols[i] EXCEPT !.inputs = @ \cup on.indirect,
                                           !.complete = @ /\ on.complete]]

ItemColumns(it, scope, on) ==
    IF it.item = "star" THEN Wildcard(all_columns(scope), on)
                        ELSE <<Named(it, infer(it.x, scope), on)>>

Project(b, built, on, items) ==
    [cols   |-> FlattenSeq([i \in DOMAIN b.items |-> ItemColumns(b.items[i], built.scope, on)]),
     missed |-> on.missed \cup items.missed,
     rows   |-> on.missed \cup items.missed
                  \cup Refs(on.indirect \cup on.grouping) \cup Doubt(on.complete),
     st     |-> Report(built.st, on.problems \cup items.problems)]

Expressed(b) == SelectSeq(b.items, LAMBDA it : it.item = "as")

SelectFrom(b, built) ==
    Project(b, built,
            Clauses(built, InferAll(b.where \o b.having, built.scope), InferAll(b.group, built.scope)),
            InferAll([i \in DOMAIN Expressed(b) |-> Expressed(b)[i].x], built.scope))

analyze_select(b, st) == SelectFrom(b, build_scope(b.from, st))

(* Set operations merge the branches position by position.                 *)
Merge_Left(l, r, i) == l.cols[i]

Merge(l, r, i) ==
    IF i \notin DOMAIN r.cols THEN l.cols[i]
    ELSE [l.cols[i] EXCEPT !.inputs = @ \cup r.cols[i].inputs,
                           !.complete = @ /\ r.cols[i].complete]

Combine(l, r, compared) ==
    [cols   |-> [i \in DOMAIN l.cols |-> Merge(l, r, i)],
     missed |-> l.missed \cup r.missed \cup compared,
     rows   |-> l.rows \cup r.rows \cup compared,
     st     |-> [r.st EXCEPT !.errors = @ \/ Len(l.cols) # Len(r.cols)]]

Branches(op, l, r) ==
    Combine(l, r, IF op = "except" THEN RefsOf(l.cols \o r.cols) ELSE {})

LeftFirst(b, l) == Branches(b.b, l, analyze_set_expr(b.r, l.st))

analyze_set_expr(b, st) ==
    IF b.b = "select" THEN analyze_select(b, st)
                      ELSE LeftFirst(b, analyze_set_expr(b.l, st))

(* CTEs enter the one table as they are analysed, and stay in it.          *)
Entered(cte, a) ==
    [a.st EXCEPT !.ctes = (Lower[cte.n] :> [cols |-> a.cols, rows |-> a.rows]) @@ @]

analyze_query(q, st) ==
    analyze_set_expr(q.body,
        FoldLeft(LAMBDA s, cte : Entered(cte, analyze_query(cte.query, s)), st, q.ctes))

(* The schema of a model, given those of the models analysed before it.    *)
Schema(a) ==
    [cols   |-> a.cols,   known |-> ~a.st.unknown, errors |-> a.st.errors,
     missed |-> a.missed, rows  |-> a.rows]

analyze(q, schemas) ==
    Schema(analyze_query(q, [schemas |-> schemas, ctes |-> <<>>,
                             unknown |-> FALSE, errors |-> FALSE]))
=============================================================================
