------------------------------ MODULE Lineage -------------------------------
(***************************************************************************)
(* A workspace that is compiled, edited and compiled again: dependencies,  *)
(* the order models are analysed in, their schemas and versions            *)
(* (compile.rs, graph.rs, version.rs), the lineage graph (lineage.rs) and  *)
(* the report on how it moved (lineage_diff.rs).                           *)
(*                                                                         *)
(* The properties are measured against what a warehouse computes for the   *)
(* same SQL on every content of a small set of sources.  Names resolve to  *)
(* the model of that name, else to a source; see Planning for the rest of  *)
(* name resolution.  Tests, contracts, configuration and the text of       *)
(* expressions are left out.                                               *)
(***************************************************************************)
EXTENDS Analysis

CONSTANTS Designs,     \* [Models -> queries]: the workspaces that may exist
          Contents,    \* [sources -> tables]: what the sources may hold
          Before(_, _) \* the order of identities

VARIABLES sql,         \* the files on disk
          stage,       \* "edited", "analysing", "compiled" or "built"
          deps,        \* the relations each model was found to read
          schemas,     \* what the analysis found, of the models it reached
          versions,    \* and their versions
          graph,       \* the lineage graph of the last compilation
          tables,      \* what the warehouse holds, for every content
          base         \* << >>, or what there was before the edit

compilation == <<deps, schemas, versions, graph>>
vars == <<sql, stage, compilation, tables, base>>

ASSUME DesignAssumption == \A d \in Designs : DOMAIN d = Models

-----------------------------------------------------------------------------
(* Dependencies and order.                                                 *)

ModelDeps(d)  == d \cap Models
SourceDeps(d) == d \ Models

dependencies(design) == [m \in Models |-> extract_relations(design[m])]

(* Among the models whose dependencies are done, the least.                *)
Ready(ds, done) ==
    LET ready == {m \in Models \ done : ModelDeps(ds[m]) \subseteq done}
    IN  {m \in ready : \A k \in ready \ {m} : Before(m, k)}

RECURSIVE Sorted(_, _)
Sorted(ds, order) ==
    LET ready == Ready(ds, ToSet(order))
    IN  IF ready = {} THEN order
        ELSE Sorted(ds, Append(order, CHOOSE m \in ready : TRUE))

(* Shorter than the models where there is a cycle.                         *)
topological_order(ds) == Sorted(ds, <<>>)

model_version_Own(m, ds, known) ==
    [sql |-> sql[m], deps |-> ModelDeps(ds[m]), sources |-> SourceDeps(ds[m])]

model_version(m, ds, known) ==
    [sql     |-> sql[m],
     deps    |-> {<<d, known[d]>> : d \in ModelDeps(ds[m])},
     sources |-> SourceDeps(ds[m])]

-----------------------------------------------------------------------------
(* The lineage graph: nodes with what is recorded of them, and edges.      *)

ModelNode(m)     == <<"model", m>>
DatasetNode(r)   == <<"dataset", r>>
ColumnNode(r, c) == <<"column", r, c>>

plain(from, to, kind) == [from |-> from, to |-> to, kind |-> kind, dir |-> "none", how |-> "none"]
from_input(i, to) ==
    [from |-> ColumnNode(i.col[1], i.col[2]), to |-> to, kind |-> "derives",
     dir |-> i.dir, how |-> i.kind]

ColumnsOf(sch, m) == IF m \in DOMAIN sch THEN ToSet(sch[m].cols) ELSE {}

(* Every edge the builder asks for; it drops those with an end that is not *)
(* a node.                                                                 *)
Wanted(ds, sch) ==
    {plain(ModelNode(m), DatasetNode(m), "output") : m \in Models}
    \cup UNION {
        {plain(DatasetNode(d), ModelNode(m), "input") : d \in ds[m]}
        \cup {plain(ModelNode(d), ModelNode(m), "derives") : d \in ModelDeps(ds[m])}
        \cup {plain(DatasetNode(d), DatasetNode(m), "derives") : d \in ds[m]}
        \cup UNION {
            {plain(DatasetNode(m), ColumnNode(m, c.name), "contains")}
            \cup UNION {
                {plain(DatasetNode(i.col[1]), ColumnNode(i.col[1], i.col[2]), "contains"),
                 from_input(i, ColumnNode(m, c.name))} : i \in c.inputs}
            : c \in ColumnsOf(sch, m)}
        : m \in Models}

build(ds, sch, vs) ==
    LET inputs == {<<i.col[1], i.col[2]>> :
                      i \in UNION {c.inputs : c \in UNION {ColumnsOf(sch, m) : m \in Models}}}
        nodes  == {ModelNode(m) : m \in Models}
                    \cup {DatasetNode(r) : r \in Models \cup UNION {ds[m] : m \in Models}}
                    \cup UNION {{ColumnNode(m, c.name) : c \in ColumnsOf(sch, m)} : m \in Models}
                    \cup {ColumnNode(x[1], x[2]) : x \in inputs}
        Meta(n) ==
            [version    |-> IF n[1] = "model" /\ n[2] \in DOMAIN vs THEN {vs[n[2]]} ELSE {},
             confidence |-> IF n[1] = "column" /\ n[2] \in Models
                              THEN {c.complete : c \in {k \in ColumnsOf(sch, n[2]) : k.name = n[3]}}
                              ELSE {}]
    IN  [meta  |-> [n \in nodes |-> Meta(n)],
         edges |-> {e \in Wanted(ds, sch) : e.from \in nodes /\ e.to \in nodes}]

Nodes(g) == DOMAIN g.meta

(* Everything reached along the edges, by whatever kind.                   *)
RECURSIVE Walk(_, _, _)
Walk(edges, frontier, seen) ==
    LET next == {e.to : e \in {k \in edges : k.from \in frontier}} \ seen
    IN  IF next = {} THEN seen ELSE Walk(edges, next, seen \cup next)

downstream_transitive(g, n) == Walk(g.edges, {n}, {})

Reversed(edges) == {[e EXCEPT !.from = e.to, !.to = e.from] : e \in edges}

(* Along derives edges between columns only.                               *)
column_upstream_transitive(g, n, include_indirect) ==
    Walk(Reversed({e \in g.edges : /\ e.kind = "derives" /\ e.from[1] = "column"
                                   /\ include_indirect \/ e.dir # "indirect"}),
         {n}, {}) \ {n}

-----------------------------------------------------------------------------
(* How the graph moved.  Between two nodes the edges of one kind are a bag *)
(* on each side: what both have cancels, the rest is paired in order as    *)
(* changed, and what is left over was added or removed.                    *)

Kinds == <<"none", "identity", "transformation", "aggregation", "join", "filter",
           "group_by", "sort", "window", "conditional">>

SortKey(e) == (IF e.dir = "indirect" THEN Len(Kinds) ELSE 0)
                + CHOOSE i \in DOMAIN Kinds : Kinds[i] = e.how
Ranked(edges) == SetToSortSeq(edges, LAMBDA a, b : SortKey(a) < SortKey(b))

Key(e) == <<e.from, e.to, e.kind>>

Bag(edges, key) == {e \in edges : Key(e) = key}

EdgeReport(b, c) ==
    LET keys     == {Key(e) : e \in b \cup c}
        Left(k)  == Ranked(Bag(b, k) \ c)
        Right(k) == Ranked(Bag(c, k) \ b)
        Pairs(k) == 1 .. Min({Len(Left(k)), Len(Right(k))})
    IN  [changed |-> UNION {{<<Left(k)[i], Right(k)[i]>> : i \in Pairs(k)} : k \in keys},
         removed |-> UNION {{Left(k)[i] : i \in DOMAIN Left(k) \ Pairs(k)} : k \in keys},
         added   |-> UNION {{Right(k)[i] : i \in DOMAIN Right(k) \ Pairs(k)} : k \in keys}]

(* The consumers that lay downstream in the base; without any, no impact.  *)
Reached(b, n) == [from |-> n, consumers |-> downstream_transitive(b, n)]

NonEmpty(impacts) == {i \in impacts : i.consumers # {}}

lineage_diff_NodesOnly(b, c) ==
    [edges        |-> EdgeReport(b.edges, c.edges),
     impacts      |-> NonEmpty({Reached(b, n) : n \in Nodes(b) \ Nodes(c)}),
     edge_impacts |-> {}]

(* What read a lost node, or lay past the end of a lost or changed edge.   *)
lineage_diff(b, c) ==
    LET edges  == EdgeReport(b.edges, c.edges)
        gone   == Nodes(b) \ Nodes(c)
        moved  == edges.removed \cup {p[1] : p \in edges.changed}
    IN  [nodes_added    |-> Nodes(c) \ Nodes(b),
         nodes_removed  |-> gone,
         nodes_changed  |-> {n \in Nodes(b) \cap Nodes(c) : b.meta[n] # c.meta[n]},
         edges          |-> edges,
         impacts        |-> NonEmpty({Reached(b, n) : n \in gone}),
         edge_impacts   |-> NonEmpty({Reached(b, e.to) @@ [edge |-> Key(e)] : e \in moved})]

-----------------------------------------------------------------------------
(* What a warehouse holds after a run built the models in their order.     *)

Empty == [names |-> <<>>, rows |-> <<>>]

Build(content) ==
    FoldLeft(LAMBDA env, m : (m :> EvalQuery(sql[m], env)) @@ env,
             content @@ [m \in Models |-> Empty],
             topological_order(deps))

-----------------------------------------------------------------------------
(* The commands.                                                           *)

Init ==
    /\ sql \in Designs
    /\ stage = "edited"
    /\ deps = [m \in Models |-> {}]
    /\ schemas = <<>> /\ versions = <<>>
    /\ graph = [meta |-> <<>>, edges |-> {}]
    /\ tables = <<>>
    /\ base = <<>>

Resolve ==
    /\ stage = "edited"
    /\ stage' = "analysing"
    /\ deps' = dependencies(sql)
    /\ schemas' = <<>> /\ versions' = <<>>
    /\ UNCHANGED <<sql, graph, tables, base>>

(* A cycle is an error, and nothing is analysed.                           *)
Skipped == Len(topological_order(deps)) # Cardinality(Models)

Analyze(m) ==
    /\ stage = "analysing" /\ ~Skipped
    /\ Len(topological_order(deps)) > Cardinality(DOMAIN schemas)
    /\ m = topological_order(deps)[Cardinality(DOMAIN schemas) + 1]
    /\ schemas' = (m :> analyze(sql[m], schemas)) @@ schemas
    /\ versions' = (m :> model_version(m, deps, versions)) @@ versions
    /\ UNCHANGED <<sql, stage, deps, graph, tables, base>>

Finish ==
    /\ stage = "analysing"
    /\ Skipped \/ DOMAIN schemas = Models
    /\ stage' = "compiled"
    /\ graph' = build(deps, schemas, versions)
    /\ UNCHANGED <<sql, deps, schemas, versions, tables, base>>

(* A compilation without errors can be run.                                *)
Run ==
    /\ stage = "compiled"
    /\ DOMAIN schemas = Models
    /\ \A m \in Models : ~schemas[m].errors
    /\ stage' = "built"
    /\ tables' = [c \in Contents |-> Build(c)]
    /\ UNCHANGED <<sql, compilation, base>>

(* One file is rewritten; what there was is the base of the comparison.    *)
Edit(m, q) ==
    /\ stage = "built" /\ base = <<>>
    /\ q # sql[m]
    /\ [sql EXCEPT ![m] = q] \in Designs
    /\ sql' = [sql EXCEPT ![m] = q]
    /\ stage' = "edited"
    /\ base' = <<[versions |-> versions, graph |-> graph, tables |-> tables]>>
    /\ UNCHANGED <<compilation, tables>>

Next ==
    \/ Resolve
    \/ \E m \in Models : Analyze(m)
    \/ Finish
    \/ Run
    \/ \E m \in Models : \E q \in {d[m] : d \in Designs} : Edit(m, q)

Spec == Init /\ [][Next]_vars

-----------------------------------------------------------------------------
(* How a change of a source shows in a model.                              *)

(* How often each value occurs in the k-th column.                         *)
Values(table, k) ==
    LET cells == [i \in DOMAIN table.rows |-> table.rows[i][k]]
    IN  [v \in ToSet(cells) |-> Cardinality({i \in DOMAIN cells : cells[i] = v})]

(* The pairs of contents that differ in the j-th column of source s alone. *)
Twins ==
    [s \in DOMAIN SourceSchema |-> [j \in DOMAIN SourceSchema[s] |->
        {<<c, d>> \in Contents \X Contents :
            /\ \A r \in DOMAIN c \ {s} : c[r] = d[r]
            /\ \A i \in DOMAIN c[s].rows : \A k \in DOMAIN c[s].names \ {j} :
                  c[s].rows[i][k] = d[s].rows[i][k]}]]

Influences(s, j, m, k) ==
    \E p \in Twins[s][j] : Values(tables[p[1]][m], k) # Values(tables[p[2]][m], k)

-----------------------------------------------------------------------------
(* What the extractor takes for a CTE and the warehouse does not: a name   *)
(* read in a CTE of that name, or in one before it, is the model's.        *)
Shadowed(q) ==
    Models \cap UNION {extract_relations(q.ctes[i].query)
                          \cap {q.ctes[j].n : j \in i .. Len(q.ctes)} : i \in DOMAIN q.ctes}

Feeding(m) ==
    {k \in Models : ModelNode(m) \in {ModelNode(k)} \cup downstream_transitive(graph, ModelNode(k))}

(* A model that some statement on the way to m reads unseen has changed.   *)
ChangedUnseen(m) ==
    \E k \in Feeding(m) : \E d \in Shadowed(sql[k]) : versions[d] # base[1].versions[d]

-----------------------------------------------------------------------------
(* Queries of the lineage, and how far they can be relied upon.            *)

impact_report(g, rel, c) ==
    {n \in Walk({e \in g.edges : e.kind = "derives" /\ e.from[1] = "column"},
                {ColumnNode(rel, c)}, {}) : n # ColumnNode(rel, c)}

(* What a column was drawn from and what was passed over on the way.       *)
RECURSIVE Drawn(_, _)
Drawn(frontier, seen) ==
    LET Of(x) == IF x[1] \notin DOMAIN schemas THEN {}
                 ELSE schemas[x[1]].missed
                        \cup RefsOf(SelectSeq(schemas[x[1]].cols, LAMBDA c : c.name = x[2]))
        next  == UNION {Of(x) : x \in frontier} \ seen
    IN  IF next = {} THEN seen ELSE Drawn(next, seen \cup next)

PassedOver(m, c) ==
    LET on   == {ColumnNode(m, c)} \cup column_upstream_transitive(graph, ColumnNode(m, c), TRUE)
        Of(n) == schemas[n[2]].missed \cup
                 {r \in RefsOf(SelectSeq(schemas[n[2]].cols, LAMBDA k : k.name = n[3])) :
                     r = Unknowable}
    IN  UNION {Of(n) : n \in {k \in on : k[2] \in DOMAIN schemas}}

-----------------------------------------------------------------------------
(* Properties.                                                             *)

(* A model with the version it had before the edit computes what it        *)
(* computed before, whatever the sources hold: the planner skips it on the *)
(* strength of the version alone.  The one exception: every CTE name of a  *)
(* statement is taken for a CTE in all of them (relations.rs:107), so a    *)
(* model that a CTE of its own name reads, or one before it, can change    *)
(* without a trace in the versions that build on it.                       *)
VersionTellsOutput ==
    (stage = "built" /\ base # <<>>) =>
        \A m \in Models : versions[m] = base[1].versions[m] =>
            \/ \A c \in Contents : tables[c][m] = base[1].tables[c][m]
            \/ ChangedUnseen(m)

(* If the values of a source column can change those of a model's column,  *)
(* the impact report of the first lists the second, unless the analyser    *)
(* gave up on something on the way there or passed over the clause through *)
(* which the change comes.                                                 *)
ImpactFindsIt ==
    (stage = "built" /\ base = <<>>) =>
        \A s \in DOMAIN SourceSchema : \A j \in DOMAIN SourceSchema[s] :
            \A m \in Models : \A c \in {col.name : col \in ToSet(schemas[m].cols)} :
                LET x    == SourceSchema[s][j]
                    k    == CHOOSE i \in DOMAIN schemas[m].cols : schemas[m].cols[i].name = c
                    over == PassedOver(m, c)
                IN  Influences(s, j, m, k) =>
                      \/ ColumnNode(m, c) \in impact_report(graph, s, x)
                      \/ {<<s, x>>, Unknowable} \cap Drawn(over, over) # {}

(* A column that no longer draws on one it drew on before is named by the  *)
(* report: as the end of an edge that was removed or changed, or among the *)
(* consumers that an impact lists.                                         *)
LostInputsAreReported ==
    (stage = "built" /\ base # <<>>) =>
        LET was  == base[1].graph
            diff == lineage_diff(was, graph)
            told == {e.to : e \in diff.edges.removed}
                      \cup {p[1].to : p \in diff.edges.changed}
                      \cup UNION {i.consumers : i \in diff.impacts \cup diff.edge_impacts}
        IN  \A n \in {k \in Nodes(was) : k[1] = "column"} :
                (column_upstream_transitive(was, n, TRUE)
                    \ column_upstream_transitive(graph, n, TRUE)) # {} => n \in told

=============================================================================
