-------------------------------- MODULE Sql ---------------------------------
(***************************************************************************)
(* Model SQL as the compiler sees it after parsing: syntax trees of a      *)
(* small fragment of SQL (WITH, joins, WHERE, GROUP BY, HAVING, derived    *)
(* tables, aggregates with FILTER, windows, UNION ALL, EXCEPT, subquery    *)
(* expressions), the extraction of the relations a statement refers to     *)
(* (relations.rs), and, as the reference the compiler is measured against, *)
(* what a warehouse computes for such a statement.                         *)
(*                                                                         *)
(* Names are strings.  Values are small numbers; there is no NULL, so an   *)
(* outer join is an inner join here, and ORDER BY decides nothing.         *)
(***************************************************************************)
EXTENDS Integers, FiniteSets, SequencesExt

CONSTANT Lower            \* [Names -> Names]: to_lowercase

-----------------------------------------------------------------------------
(* Syntax.  An empty sequence stands for an absent clause.                 *)

Col(n)       == [e |-> "col", q |-> "", n |-> n]
QCol(q, n)   == [e |-> "col", q |-> q, n |-> n]
Lit(v)       == [e |-> "lit", v |-> v]
Op(op, args) == [e |-> "op", op |-> op, args |-> args]
Fn(f, args, filter, over) ==
    [e |-> "fn", f |-> f, args |-> args, filter |-> filter, over |-> over]
Sub(q)       == [e |-> "sub", query |-> q]

As(x, n)     == [item |-> "as", x |-> x, n |-> n]
Star         == [item |-> "star"]

Table(n, alias)   == [from |-> "table", n |-> n, alias |-> alias]
Derived(q, alias) == [from |-> "derived", query |-> q, alias |-> alias]

(* A FROM list is flat: each entry but the first says how it is joined.    *)
Entry(rel, join, on, using) ==
    [rel |-> rel, join |-> join, on |-> on, using |-> using]
From(rel)         == Entry(rel, "first", <<>>, {})

Select(from, where, group, having, items) ==
    [b |-> "select", from |-> from, where |-> where, group |-> group,
     having |-> having, items |-> items]
SetOp(op, l, r)   == [b |-> op, l |-> l, r |-> r]
Query(ctes, body) == [ctes |-> ctes, body |-> body]
Cte(n, q)         == [n |-> n, query |-> q]

-----------------------------------------------------------------------------
(* Relation extraction.  The visitor keeps a stack of CTE names, one entry *)
(* per enclosing query; all names of a WITH are pushed before any of its   *)
(* queries is visited, and names are compared as written.                  *)

RECURSIVE ExtractQuery(_, _), ExtractBody(_, _), ExtractExpr(_, _)

CteNames(q) == {q.ctes[i].n : i \in DOMAIN q.ctes}

ExtractQuery(q, scopes) ==
    LET inner == scopes \cup CteNames(q)
    IN  ExtractBody(q.body, inner)
          \cup UNION {ExtractQuery(q.ctes[i].query, inner) : i \in DOMAIN q.ctes}

ExtractFactor(rel, scopes) ==
    IF rel.from = "derived" THEN ExtractQuery(rel.query, scopes)
                            ELSE {rel.n} \ scopes

Expressions(b) ==
    UNION ({ToSet(b.where), ToSet(b.group), ToSet(b.having)}
             \cup {ToSet(entry.on) : entry \in ToSet(b.from)})
      \cup {it.x : it \in {i \in ToSet(b.items) : i.item = "as"}}

ExtractBody(b, scopes) ==
    IF b.b = "select"
      THEN UNION {ExtractFactor(entry.rel, scopes) : entry \in ToSet(b.from)}
             \cup UNION {ExtractExpr(x, scopes) : x \in Expressions(b)}
      ELSE ExtractBody(b.l, scopes) \cup ExtractBody(b.r, scopes)

ExtractExpr(x, scopes) ==
    CASE x.e = "sub" -> ExtractQuery(x.query, scopes)
      [] x.e = "op"  -> UNION {ExtractExpr(a, scopes) : a \in ToSet(x.args)}
      [] OTHER       -> {}

extract_relations(q) == ExtractQuery(q, {})

-----------------------------------------------------------------------------
(* What the warehouse computes.  A table has column names and rows; a row  *)
(* of a FROM clause has one part per relation.  CTEs are visible to later  *)
(* CTEs and to the body only, and names are compared without case.         *)

RECURSIVE EvalQuery(_, _), EvalBody(_, _), EvalExpr(_, _)

SumOver(s) == FoldLeft(LAMBDA a, v : a + v, 0, s)

(* ctx: the relations in scope, the row, its group, and all rows.          *)
Position(rels, x) ==
    CHOOSE p \in UNION {{i} \X DOMAIN rels[i].names : i \in DOMAIN rels} :
        /\ rels[p[1]].names[p[2]] = x.n
        /\ x.q \in {"", rels[p[1]].alias}

Cell(row, p) == row[p[1]][p[2]]

EvalAll(xs, ctx) == [i \in DOMAIN xs |-> EvalExpr(xs[i], ctx)]

Keep(rows, conditions, ctx) ==
    SelectSeq(rows, LAMBDA r : \A i \in DOMAIN conditions :
                                  EvalExpr(conditions[i], [ctx EXCEPT !.row = r]) = 1)

Partition(ctx, by, key) ==
    SelectSeq(ctx.all, LAMBDA r : EvalAll(by, [ctx EXCEPT !.row = r]) = key)

Aggregate(x, rows, ctx) ==
    IF x.f = "count" THEN Len(rows)
    ELSE SumOver([i \in DOMAIN rows |-> EvalExpr(x.args[1], [ctx EXCEPT !.row = rows[i]])])

EvalFn(x, ctx) ==
    Aggregate(x, Keep(IF x.over = <<>> THEN ctx.group
                                       ELSE Partition(ctx, x.over, EvalAll(x.over, ctx)),
                      x.filter, ctx), ctx)

EvalOp(op, v) ==
    CASE op = "+"    -> v[1] + v[2]
      [] op = "="    -> IF v[1] = v[2] THEN 1 ELSE 0
      [] op = "case" -> IF v[1] = 1 THEN v[2] ELSE v[3]

AnyTrue(t) == IF \E i \in DOMAIN t.rows : t.rows[i][1] = 1 THEN 1 ELSE 0

EvalExpr(x, ctx) ==
    CASE x.e = "col" -> Cell(ctx.row, Position(ctx.rels, x))
      [] x.e = "lit" -> x.v
      [] x.e = "fn"  -> EvalFn(x, ctx)
      [] x.e = "sub" -> AnyTrue(EvalQuery(x.query, ctx.env))
      [] x.e = "op"  -> EvalOp(x.op, EvalAll(x.args, ctx))

EvalFactor(rel, env) ==
    IF rel.from = "derived" THEN EvalQuery(rel.query, env) ELSE env[Lower[rel.n]]

Context(rels, rows, row, env) ==
    [rels |-> rels, row |-> row, group |-> <<row>>, all |-> rows, env |-> env]

Cross(ls, rs) == FlattenSeq([i \in DOMAIN ls |-> [j \in DOMAIN rs |-> Append(ls[i], rs[j])]])

(* The positions of a row's last part that are equal in an earlier part.   *)
Agree(rels, names, row, used) ==
    \A i \in DOMAIN rels : \A k \in DOMAIN rels[i].names : \A j \in DOMAIN names :
        (rels[i].names[k] = names[j] /\ names[j] \in used) => row[i][k] = Last(row)[j]

(* USING merges the columns: the right copies are gone.                    *)
Drop(rows, kept) ==
    [i \in DOMAIN rows |-> [rows[i] EXCEPT ![Len(rows[i])] = [k \in DOMAIN kept |-> @[kept[k]]]]]

Merging(f, alias, names, kept, rows) ==
    [rels |-> Append(f.rels, [alias |-> alias, names |-> [k \in DOMAIN kept |-> names[kept[k]]]]),
     rows |-> Drop(rows, kept)]

JoinTable(f, entry, t, used, env) ==
    Merging(f, entry.rel.alias, t.names,
            SelectSeq([j \in DOMAIN t.names |-> j], LAMBDA j : t.names[j] \notin used),
            SelectSeq(Keep(Cross(f.rows, t.rows), entry.on,
                           Context(Append(f.rels, [alias |-> entry.rel.alias, names |-> t.names]),
                                   <<>>, <<>>, env)),
                      LAMBDA row : Agree(f.rels, t.names, row, used)))

(* The columns two sides are compared by without an ON.                    *)
Shared(f, entry, t) ==
    UNION {ToSet(f.rels[i].names) : i \in DOMAIN f.rels}
      \cap (IF entry.join = "natural" THEN ToSet(t.names) ELSE entry.using)

JoinWith(f, entry, t, env) == JoinTable(f, entry, t, Shared(f, entry, t), env)

JoinEntry(f, entry, env) == JoinWith(f, entry, EvalFactor(entry.rel, env), env)

EvalFrom(from, env) ==
    FoldLeft(LAMBDA f, entry : JoinEntry(f, entry, env),
             [rels |-> <<>>, rows |-> << <<>> >>], from)

RECURSIVE HasAggregate(_)
HasAggregate(x) ==
    CASE x.e = "fn" -> x.over = <<>>
      [] x.e = "op" -> \E a \in ToSet(x.args) : HasAggregate(a)
      [] OTHER      -> FALSE

Grouped(b) == \/ b.group # <<>>
              \/ \E it \in ToSet(b.items) : it.item = "as" /\ HasAggregate(it.x)

(* One group per key, or one of all rows where nothing is grouped by.      *)
Groups(by, rows, keys) ==
    IF by = <<>> THEN <<rows>>
    ELSE LET ks == SetToSeq(ToSet(keys))
         IN  [g \in DOMAIN ks |->
                [n \in 1 .. Cardinality({i \in DOMAIN rows : keys[i] = ks[g]}) |->
                    rows[CHOOSE i \in DOMAIN rows :
                           /\ keys[i] = ks[g]
                           /\ Cardinality({j \in 1 .. i : keys[j] = ks[g]}) = n]]]

GroupContext(ctx, group) ==
    [ctx EXCEPT !.row = IF group = <<>> THEN <<>> ELSE group[1], !.group = group]

(* The contexts a SELECT has an output row for: its rows, or its groups.   *)
Contexts(b, ctx, groups) ==
    IF Grouped(b) THEN [i \in DOMAIN groups |-> GroupContext(ctx, groups[i])]
    ELSE [i \in DOMAIN ctx.all |-> GroupContext(ctx, <<ctx.all[i]>>)]

ByKey(b, ctx) ==
    Contexts(b, ctx, Groups(b.group, ctx.all,
                            [i \in DOMAIN ctx.all |-> EvalAll(b.group, [ctx EXCEPT !.row = ctx.all[i]])]))

Having(contexts, conditions) ==
    SelectSeq(contexts, LAMBDA c : \A i \in DOMAIN conditions : EvalExpr(conditions[i], c) = 1)

NamesOf(it, rels) ==
    IF it.item = "star" THEN FlattenSeq([i \in DOMAIN rels |-> rels[i].names]) ELSE <<it.n>>

CellsOf(it, ctx) ==
    IF it.item = "star" THEN FlattenSeq(ctx.row) ELSE <<EvalExpr(it.x, ctx)>>

Projection(items, rels, contexts) ==
    [names |-> FlattenSeq([i \in DOMAIN items |-> NamesOf(items[i], rels)]),
     rows  |-> FlattenSeq([k \in DOMAIN contexts |->
                  <<FlattenSeq([i \in DOMAIN items |-> CellsOf(items[i], contexts[k])])>>])]

EvalSelect(b, f, env) ==
    Projection(b.items, f.rels,
        Having(ByKey(b, Context(f.rels, Keep(f.rows, b.where, Context(f.rels, f.rows, <<>>, env)),
                                <<>>, env)),
               b.having))

EvalSetOp(op, l, r) ==
    [l EXCEPT !.rows = IF op = "union_all" THEN @ \o r.rows
                       ELSE SetToSeq(ToSet(@) \ ToSet(r.rows))]

EvalBody(b, env) ==
    IF b.b = "select" THEN EvalSelect(b, EvalFrom(b.from, env), env)
                      ELSE EvalSetOp(b.b, EvalBody(b.l, env), EvalBody(b.r, env))

EvalQuery(q, env) ==
    EvalBody(q.body,
             FoldLeft(LAMBDA en, cte : (Lower[cte.n] :> EvalQuery(cte.query, en)) @@ en,
                      env, q.ctes))
=============================================================================
