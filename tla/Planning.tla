------------------------------ MODULE Planning ------------------------------
(***************************************************************************)
(* From files to statements: identities (discovery.rs), names (resolve.rs),*)
(* the graph and its two traversals (graph.rs), ephemeral models that are  *)
(* inlined (compile.rs), selectors (select.rs), the scope of a plan        *)
(* (plan.rs), and the order in which a run of it starts models (run.rs).   *)
(*                                                                         *)
(* A dotted name is the sequence of its parts; the identity of a model is  *)
(* its namespace followed by its path.                                     *)
(***************************************************************************)
EXTENDS Naturals, Sequences, FiniteSets

CONSTANTS
    Files,      \* model files: directories and stem, one of them "transforms"
    Override,   \* namespaces that a transform.toml gives to its directory
    DefaultNamespace,
    DefaultSchema,
    Seeds,      \* the relations that seeds load
    Readings,   \* what the SQL of the models may name: [Models -> SUBSET Seq]
    Tags,       \* the tags each model carries
    Ephemerals, \* the sets of models that may be ephemeral
    Requests,   \* what a command may ask for
    Warehouses, \* the sets of models whose tables may exist
    Edits       \* the sets of models that may differ from what is recorded

VARIABLES
    phase,
    reads,      \* the relations each model names
    ephemeral,  \* the models that are inlined and never built
    deps,       \* Dependency::Model of each model
    sources,    \* Dependency::Source
    errors,     \* the compilation has an error
    colour,     \* cycle(): what it has seen
    stack,      \*   and where it is
    cycle,      \*   its answer; <<>> is None
    remaining,  \* topological_order(): unemitted dependencies
    ready,
    order,      \*   its answer, None unless every model is in it
    members,    \* the selection
    excluded,   \*   and what --exclude removed
    present,    \* the models whose tables exist
    stale,      \* the models whose version is not what is recorded
    planned,    \* the closure the plan covers
    status,     \* of each model in the run
    loaded      \* of each seed in it

workspace == <<reads, ephemeral>>
compiled  == <<deps, sources>>
search    == <<colour, stack, cycle>>
sorting   == <<remaining, ready, order>>
selection == <<members, excluded, present, stale>>
run       == <<status, loaded>>
vars == <<phase, workspace, compiled, errors, search, sorting, selection,
          planned, run>>

-----------------------------------------------------------------------------
(***************************************************************************)
(* Identities.                                                             *)
(***************************************************************************)
\* The first directory called transforms, and where it is.
RootAt(f) == CHOOSE i \in 1..Len(f) - 1 :
    f[i] = "transforms" /\ \A k \in 1..i - 1 : f[k] # "transforms"
Root(f) == SubSeq(f, 1, RootAt(f))
RootRelative(f) == SubSeq(f, RootAt(f) + 1, Len(f))

\* transforms/<namespace>/... at the top; elsewhere the namespace is the
\* directory that holds transforms.
Spread(f) == RootAt(f) = 1 /\ Len(f) > 2
Namespace(f) ==
    LET dir == IF Spread(f) THEN SubSeq(f, 1, 2) ELSE Root(f)
    IN  IF dir \in DOMAIN Override THEN Override[dir]
        ELSE IF Spread(f) THEN f[2]
        ELSE IF RootAt(f) = 1 THEN DefaultNamespace
        ELSE f[RootAt(f) - 1]
Path(f) == IF Spread(f) THEN SubSeq(f, 3, Len(f)) ELSE RootRelative(f)
Identity(f) == <<Namespace(f)>> \o Path(f)

Models == {Identity(f) : f \in Files}
\* Of files with one identity the first is kept.
FileOf(m) == CHOOSE f \in Files : Identity(f) = m
Duplicate == \E f, g \in Files : f # g /\ Identity(f) = Identity(g)

ASSUME FileAssumption ==
    /\ IsFiniteSet(Files)
    /\ \A f \in Files : \E i \in 1..Len(f) - 1 : f[i] = "transforms"
ASSUME WorkspaceAssumption ==
    /\ \A r \in Readings : DOMAIN r = Models
    /\ DOMAIN Tags = Models
    /\ Ephemerals \subseteq SUBSET Models
    /\ Warehouses \subseteq SUBSET Models
    /\ Edits \subseteq SUBSET Models

\* SelectorTerm, SelectorSet.
Term == [kind : {"all", "name", "glob", "tag", "namespace", "source",
                 "changed"},
         name : Seq(STRING), upstream : BOOLEAN, downstream : BOOLEAN]
IsRequest(r) ==
    /\ DOMAIN r = {"include", "exclude", "filter", "upstream", "downstream"}
    /\ r.include \subseteq Term /\ r.exclude \subseteq Term
    /\ r.filter \subseteq Term
    /\ r.upstream \in BOOLEAN /\ r.downstream \in BOOLEAN
ASSUME RequestAssumption == \A r \in Requests : IsRequest(r)

Phase == {"compile", "cycle", "sort", "select", "plan", "seeds", "models",
          "over", "refused"}
Status == {"none", "pending", "running", "passed", "failed", "skipped",
           "blocked"}
Satisfied == {"passed", "skipped"}

TypeOK ==
    /\ phase \in Phase
    /\ reads \in Readings /\ ephemeral \in Ephemerals
    /\ deps \in [Models -> SUBSET Models]
    /\ DOMAIN sources = Models
    /\ errors \in BOOLEAN
    /\ colour \in [Models -> {"white", "grey", "black"}]
    /\ stack \in Seq(Models) /\ cycle \in Seq(Models)
    /\ remaining \in [Models -> Nat]
    /\ ready \subseteq Models /\ order \in Seq(Models)
    /\ members \subseteq Models /\ excluded \subseteq Models
    /\ present \subseteq Models /\ stale \subseteq Models
    /\ planned \subseteq Models
    /\ status \in [Models -> Status]
    /\ loaded \in [Seeds -> {"none", "pending", "passed", "failed", "skipped"}]

Init ==
    /\ phase = "compile"
    /\ reads \in Readings /\ ephemeral \in Ephemerals
    /\ deps = [m \in Models |-> {}] /\ sources = [m \in Models |-> {}]
    /\ errors = FALSE
    /\ colour = [m \in Models |-> "white"] /\ stack = <<>> /\ cycle = <<>>
    /\ remaining = [m \in Models |-> 0] /\ ready = {} /\ order = <<>>
    /\ members = {} /\ excluded = {} /\ present = {} /\ stale = {}
    /\ planned = {}
    /\ status = [m \in Models |-> "none"]
    /\ loaded = [s \in Seeds |-> "none"]

-----------------------------------------------------------------------------
(***************************************************************************)
(* Names.                                                                  *)
(***************************************************************************)
Suffixes(s) == {SubSeq(s, i, Len(s)) : i \in 1..Len(s)}
Begins(s, t) == Len(s) <= Len(t) /\ SubSeq(t, 1, Len(s)) = s

\* What name n may mean in model m, the most telling first: an identity, a
\* path in m's namespace, a path in m's root, the end of an identity.
Levels(m, n) ==
    << {k \in Models : k = n},
       {k \in Models : k[1] = m[1] /\ Tail(k) = n},
       {k \in Models : /\ Root(FileOf(k)) = Root(FileOf(m))
                       /\ RootRelative(FileOf(k)) = n},
       {k \in Models : n \in Suffixes(k)} >>
\* The first level that has candidates decides; none is a source, several are
\* an error.
Candidates(m, n) ==
    LET l == Levels(m, n)
        i == CHOOSE i \in 1..4 : l[i] # {} /\ \A k \in 1..i - 1 : l[k] = {}
    IN  IF \A k \in 1..4 : l[k] = {} THEN {} ELSE l[i]

Compile ==
    /\ phase = "compile" /\ phase' = "cycle"
    /\ deps' = [m \in Models |->
            {k \in Models : \E n \in reads[m] : Candidates(m, n) = {k}}]
    /\ sources' = [m \in Models |-> {n \in reads[m] : Candidates(m, n) = {}}]
    /\ errors' = \/ Duplicate
                 \/ \E m \in Models : \E n \in reads[m] :
                        Cardinality(Candidates(m, n)) > 1
    /\ UNCHANGED <<workspace, search, sorting, selection, planned, run>>

-----------------------------------------------------------------------------
(***************************************************************************)
(* cycle: a depth-first search along dependencies.  Which node it takes    *)
(* next, the least, is left open.                                          *)
(***************************************************************************)
Top == stack[Len(stack)]

Visit(m) ==
    /\ phase = "cycle" /\ colour[m] = "white"
    /\ stack # <<>> => m \in deps[Top]
    /\ colour' = [colour EXCEPT ![m] = "grey"]
    /\ stack' = Append(stack, m)
    /\ UNCHANGED <<phase, workspace, compiled, errors, cycle, sorting,
                   selection, planned, run>>

\* topological_order starts with the models that have no dependency.
StartSort ==
    /\ phase' = "sort"
    /\ remaining' = [k \in Models |-> Cardinality(deps[k])]
    /\ ready' = {k \in Models : deps[k] = {}}
    /\ UNCHANGED <<workspace, compiled, order, selection, planned, run>>

\* A dependency on the stack closes a cycle, an error.
BackEdge(m) ==
    /\ phase = "cycle" /\ stack # <<>>
    /\ m \in deps[Top] /\ colour[m] = "grey"
    /\ cycle' = LET i == CHOOSE i \in 1..Len(stack) : stack[i] = m
                IN  Append(SubSeq(stack, i, Len(stack)), m)
    /\ errors' = TRUE
    /\ StartSort
    /\ UNCHANGED <<colour, stack>>

Leave ==
    /\ phase = "cycle" /\ stack # <<>>
    /\ \A m \in deps[Top] : colour[m] = "black"
    /\ colour' = [colour EXCEPT ![Top] = "black"]
    /\ stack' = SubSeq(stack, 1, Len(stack) - 1)
    /\ UNCHANGED <<phase, workspace, compiled, errors, cycle, sorting,
                   selection, planned, run>>

NoCycle ==
    /\ phase = "cycle" /\ stack = <<>>
    /\ \A m \in Models : colour[m] = "black"
    /\ StartSort
    /\ UNCHANGED <<errors, search>>

-----------------------------------------------------------------------------
(***************************************************************************)
(* topological_order: a model is emitted when all it depends on were.  Of  *)
(* those that are ready it takes the least; any is taken here.             *)
(***************************************************************************)
\* Variant: a model is ready when one of its dependencies was emitted.
Emit_Any(m) ==
    /\ phase = "sort" /\ m \in ready
    /\ order' = Append(order, m)
    /\ remaining' = [k \in Models |-> IF m \in deps[k] THEN 0
                                                       ELSE remaining[k]]
    /\ ready' = (ready \cup {k \in Models : m \in deps[k]})
                \ {order'[i] : i \in 1..Len(order')}
    /\ UNCHANGED <<phase, workspace, compiled, errors, search, selection,
                   planned, run>>
Emit(m) ==
    LET left == [k \in Models |-> IF m \in deps[k] THEN remaining[k] - 1
                                                   ELSE remaining[k]]
    IN  /\ phase = "sort" /\ m \in ready
        /\ order' = Append(order, m)
        /\ remaining' = left
        /\ ready' = (ready \ {m})
                \cup {k \in Models : m \in deps[k] /\ left[k] = 0}
        /\ UNCHANGED <<phase, workspace, compiled, errors, search, selection,
                       planned, run>>

Sorted ==
    /\ phase = "sort" /\ ready = {} /\ phase' = "select"
    /\ UNCHANGED <<workspace, compiled, errors, search, sorting, selection,
                   planned, run>>

-----------------------------------------------------------------------------
(***************************************************************************)
(* Selectors.                                                              *)
(***************************************************************************)
\* The least set that holds S and, with a model, all that next gives for it.
Reach(S, next) == {m \in Models : \A T \in SUBSET Models :
    S \subseteq T /\ (\A k \in T : next[k] \subseteq T) => m \in T}

Dependents == [m \in Models |-> {k \in Models : m \in deps[k]}]
Upstream(S) == Reach(S, deps)
Downstream(S) == Reach(S, Dependents)

\* match_name: an identity, else all the models whose path or last part it is.
Named(n) ==
    IF n \in Models THEN {n}
    ELSE {m \in Models : Tail(m) = n \/ n = <<m[Len(m)]>>}
FromSource(m, n) == \E s \in sources[m] :
    Begins(n, s) \/ \E i \in 1..Len(s) : <<s[i]>> = n
BaseMatch(t, changed) ==
    CASE t.kind = "all" -> Models
      [] t.kind = "name" -> Named(t.name)
      [] t.kind = "glob" -> {m \in Models : Begins(t.name, m)}
      [] t.kind = "tag" -> {m \in Models : t.name \in Tags[m]}
      [] t.kind = "namespace" -> {m \in Models : <<m[1]>> = t.name}
      [] t.kind = "source" -> {m \in Models : FromSource(m, t.name)}
      [] t.kind = "changed" -> changed
\* Nothing matched, or a name is ambiguous.
Wrong(t, changed) ==
    LET found == BaseMatch(t, changed)
    IN  \/ t.kind # "changed" /\ found = {}
        \/ t.kind = "name" /\ Cardinality(found) > 1

Expanded(S, up, down) == (IF up THEN Upstream(S) ELSE {})
                    \cup (IF down THEN Downstream(S) ELSE {})

\* Terms are united, filters are intersected, and the flags expand what is
\* left of the terms' own matches.
Included(r, changed) ==
    LET base(t) == BaseMatch(t, changed)
        kept == {m \in Models : \A t \in r.filter : m \in base(t)}
        matched == kept \cap
            (IF r.include = {} THEN Models ELSE UNION {base(t) : t \in r.include})
        expanded == kept \cap
            UNION {Expanded(base(t), t.upstream, t.downstream) : t \in r.include}
    IN  matched \cup expanded \cup Expanded(matched, r.upstream, r.downstream)

\* An exclusion expands downstream what it expanded upstream.
Excluded(r, changed) == UNION
    { LET base == BaseMatch(t, changed)
          up == base \cup Expanded(base, t.upstream, FALSE)
      IN  up \cup Expanded(up, FALSE, t.downstream) : t \in r.exclude }

\* What changed_models reports.  An edit changes the version of everything
\* downstream; an ephemeral model is never reported.
Changed(edited, tables) ==
    (Downstream(edited) \cup (Models \ tables)) \ ephemeral

Select(r, tables, edited) ==
    LET changed == Changed(edited, tables)
    IN  /\ phase = "select"
        /\ present' = tables \ ephemeral
        /\ stale' = Downstream(edited)
        /\ IF \E t \in r.include \cup r.exclude \cup r.filter : Wrong(t, changed)
           THEN phase' = "refused" /\ UNCHANGED <<members, excluded>>
           ELSE /\ phase' = "plan"
                /\ excluded' = Excluded(r, changed)
                /\ members' = Included(r, changed) \ excluded'
        /\ UNCHANGED <<workspace, compiled, errors, search, sorting, planned,
                       run>>

-----------------------------------------------------------------------------
(***************************************************************************)
(* The plan of a selection, and its refusals.                              *)
(***************************************************************************)
\* Variant: the closure stops at an ephemeral model.
Closure_StopsAtEphemeral == Reach(members,
    [m \in Models |-> IF m \in ephemeral THEN {} ELSE deps[m] \ excluded])
\* dependency_closure_excluding.
Closure == Reach(members, [m \in Models |-> deps[m] \ excluded])

\* The models of the plan: those that have a relation, in topological order.
Listed == planned \ ephemeral
Build == Listed \cap ((Models \ present) \cup stale)

\* Names of one part are in the default schema.
RelationFor(n) == IF Len(n) = 1 THEN <<DefaultSchema>> \o n ELSE n
Loads(m) == {RelationFor(n) : n \in sources[m]} \cap Seeds
Needed(scope) == UNION {Loads(m) : m \in scope}

\* An excluded dependency was never materialised.
Unsafe(scope) == \E m \in scope : \E d \in deps[m] \cap excluded :
    d \notin ephemeral /\ d \notin present

Plan ==
    /\ phase = "plan"
    /\ planned' = Closure
    /\ phase' = IF errors \/ Unsafe(planned') THEN "refused" ELSE "seeds"
    /\ status' = [m \in Models |->
            IF m \in planned' \ ephemeral THEN "pending" ELSE "none"]
    /\ loaded' = [s \in Seeds |->
            IF s \in Needed(planned') THEN "pending" ELSE "none"]
    /\ UNCHANGED <<workspace, compiled, errors, search, sorting, selection>>

-----------------------------------------------------------------------------
(***************************************************************************)
(* The order of a run: seeds, then every model when the planned models it  *)
(* depends on are satisfied.  Cancellation, fail-fast, retries and the     *)
(* limit on models at a time are left out: module Runner has them.         *)
(***************************************************************************)
LoadSeed(s, result) ==
    /\ phase = "seeds" /\ loaded[s] = "pending"
    /\ loaded' = [loaded EXCEPT ![s] = result]
    /\ UNCHANGED <<phase, workspace, compiled, errors, search, sorting,
                   selection, planned, status>>

\* block_dependents of the models in S: unfinished ones, one after the other.
Blocked(S, st) == Reach(S, [m \in Models |->
    {k \in Models : m \in deps[k] /\ st[k] = "pending"}])

\* What need not be built is skipped, and what reads a seed that failed is
\* blocked, with what depends on it.
StartModels ==
    LET skips == [m \in Models |-> IF m \in Listed \ Build THEN "skipped"
                                                           ELSE status[m]]
        broken == {m \in Build : \E s \in Loads(m) : loaded[s] = "failed"}
    IN  /\ phase = "seeds" /\ \A s \in Seeds : loaded[s] # "pending"
        /\ phase' = "models"
        /\ status' = [m \in Models |-> IF m \in Blocked(broken, skips)
                                       THEN "blocked" ELSE skips[m]]
        /\ UNCHANGED <<workspace, compiled, errors, search, sorting,
                       selection, planned, loaded>>

Start(m) ==
    /\ phase = "models" /\ status[m] = "pending"
    /\ \A d \in deps[m] \cap Listed : status[d] \in Satisfied
    /\ status' = [status EXCEPT ![m] = "running"]
    /\ UNCHANGED <<phase, workspace, compiled, errors, search, sorting,
                   selection, planned, loaded>>

Finish(m, passed) ==
    /\ phase = "models" /\ status[m] = "running"
    /\ status' = IF passed THEN [status EXCEPT ![m] = "passed"]
                 ELSE [k \in Models |->
                        IF k = m THEN "failed"
                        ELSE IF k \in Blocked({m}, status) THEN "blocked"
                        ELSE status[k]]
    /\ UNCHANGED <<phase, workspace, compiled, errors, search, sorting,
                   selection, planned, loaded>>

EndRun ==
    /\ phase = "models" /\ phase' = "over"
    /\ \A m \in Models : status[m] \notin {"pending", "running"}
    /\ UNCHANGED <<workspace, compiled, errors, search, sorting, selection,
                   planned, run>>

Next ==
    \/ Compile \/ Leave \/ NoCycle \/ Sorted \/ Plan \/ StartModels \/ EndRun
    \/ \E m \in Models : \/ Visit(m) \/ BackEdge(m) \/ Emit(m) \/ Start(m)
                         \/ \E passed \in BOOLEAN : Finish(m, passed)
    \/ \E r \in Requests, tables \in Warehouses, edited \in Edits :
            Select(r, tables, edited)
    \/ \E s \in Seeds, result \in {"passed", "failed", "skipped"} :
            LoadSeed(s, result)

Spec == Init /\ [][Next]_vars

-----------------------------------------------------------------------------
(***************************************************************************)
(* What is promised.                                                       *)
(***************************************************************************)
\* The two traversals of the graph, written apart, agree: either all models
\* are put in order, or a real cycle is reported and none is called sorted.
IsCycle(s) ==
    /\ Len(s) > 1 /\ s[1] = s[Len(s)]
    /\ \A i \in 1..Len(s) - 1 : s[i + 1] \in deps[s[i]]
SortedIffAcyclic == phase \notin {"compile", "cycle", "sort"} =>
    /\ (cycle = <<>>) <=> (Len(order) = Cardinality(Models))
    /\ cycle # <<>> => IsCycle(cycle)

\* The tables and the seeds the statement of a model reads: its own, and
\* those of the ephemeral models inlined into it.
Inlined(m, but) == Reach({m}, [k \in Models |-> (deps[k] \cap ephemeral) \ but])
TablesRead(m, but) == (UNION {deps[k] : k \in Inlined(m, but)}) \ ephemeral
SeedsRead(m, but) == UNION {Loads(k) : k \in Inlined(m, but)}

\* The plan lists what a statement reads before it, through any number of
\* ephemeral models.
Position(m) == CHOOSE i \in 1..Len(order) : order[i] = m
PlanIsOrdered == phase \in {"seeds", "models", "over"} =>
    \A m \in Listed : \A t \in TablesRead(m, {}) \cap Listed :
        Position(t) < Position(m)

\* A plan that is not refused provides what its statements read: tables are
\* planned, or excluded and already there, seeds are planned, and nothing
\* excluded is.  What is behind an excluded ephemeral model is not provided.
PlanIsClosed == phase \in {"seeds", "models", "over"} =>
    /\ planned \cap excluded = {}
    /\ \A m \in Listed :
        /\ TablesRead(m, excluded) \subseteq planned \cup (excluded \cap present)
        /\ \A s \in SeedsRead(m, excluded) : loaded[s] # "none"

\* docs/engine.md: each model becomes runnable the moment every required
\* upstream model and seed reaches a satisfied terminal state.
UpstreamFirst == \A m \in Models : status[m] = "running" =>
    /\ \A t \in TablesRead(m, {}) \cap Listed : status[t] \in Satisfied
    /\ \A s \in SeedsRead(m, {}) : loaded[s] # "failed"
=============================================================================
