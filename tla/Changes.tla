------------------------------ MODULE Changes -------------------------------
(***************************************************************************)
(* "What changed since": the models that the difference between a commit   *)
(* and the working tree touches (git.rs), for `--since`.                   *)
(*                                                                         *)
(* A tree is a function from paths to contents.  Files of models lie in    *)
(* transforms/<dir>/<name>.sql; see Planning for the other places.  The    *)
(* workspace is the whole repository, so there is nothing outside of it,   *)
(* and every file can be parsed.  Contents keep what is compared: "layout" *)
(* stands for comments and formatting, "text" for the rest of a statement. *)
(***************************************************************************)
EXTENDS Naturals, FiniteSets, SequencesExt

CONSTANTS Bases,      \* the trees of the commit that is compared with
          Offers,     \* [paths -> SUBSET contents]: what may be written there
          Movable,    \* the paths a file may be moved from and to
          MaxEdits    \* bound: edits of the working tree

VARIABLES base,       \* the tree of the merge base
          tree,       \* the working tree
          tracked,    \* the paths in the index
          edits,
          answer      \* << >>, or the change set of the working tree

vars == <<base, tree, tracked, edits, answer>>

ASSUME BoundAssumption == MaxEdits \in Nat

-----------------------------------------------------------------------------
(* What a tree compiles to: identities, and what the names resolve to.     *)

At(t, kind) == {p \in DOMAIN t : p.kind = kind}

RootConfig(dir) == [kind |-> "root", dir |-> dir, name |-> "transform"]
PhloConfig      == [kind |-> "phlo", dir |-> "", name |-> "phlo"]

Scoped(t, p)    == RootConfig(p.dir) \in DOMAIN t
Namespace(t, p) == IF Scoped(t, p) /\ t[RootConfig(p.dir)].namespace # ""
                     THEN t[RootConfig(p.dir)].namespace ELSE p.dir

model_id_for_path(t, p) == <<Namespace(t, p), p.name>>

Id(t, p) == IF t[p].pin # <<>> THEN t[p].pin ELSE model_id_for_path(t, p)

Ids(t)        == {Id(t, p) : p \in At(t, "model")}
FileOf(t, id) == CHOOSE p \in At(t, "model") : Id(t, p) = id

(* The levels of name resolution, in order of precedence.                  *)
Exact(t, name)  == {name} \cap Ids(t)
Inside(t, p, name) ==
    {Id(t, q) : q \in {f \in At(t, "model") :
        Namespace(t, f) = Namespace(t, p) /\ Tail(Id(t, f)) = name}}
InRoot(t, name) == {Id(t, q) : q \in {f \in At(t, "model") : <<f.dir, f.name>> = name}}
Ending(t, name) == {id \in Ids(t) : IsSuffix(name, id)}

FirstOf(levels) ==
    IF \A i \in DOMAIN levels : levels[i] = {} THEN {}
    ELSE levels[CHOOSE i \in DOMAIN levels :
                  levels[i] # {} /\ \A j \in 1 .. i - 1 : levels[j] = {}]

(* No model: an external source.  More than one: an error.                 *)
resolve(t, p, name) ==
    FirstOf(<<Exact(t, name), Inside(t, p, name), InRoot(t, name), Ending(t, name)>>)
resolve_global(t, name) == FirstOf(<<Exact(t, name), Ending(t, name)>>)

deps(t, p)    == UNION {resolve(t, p, n) : n \in t[p].reads}
sources(t, p) == {n \in t[p].reads : resolve(t, p, n) = {}}

Compiles(t) ==
    /\ \A p, q \in At(t, "model") : Id(t, p) = Id(t, q) => p = q
    /\ \A p \in At(t, "model") : \A n \in t[p].reads : Cardinality(resolve(t, p, n)) <= 1
    /\ \A s, z \in At(t, "seed") : s.name = z.name => s = z

-----------------------------------------------------------------------------
(* git diff --name-status -M, and git ls-files --others.                   *)

Entry(p, status, old) == [path |-> p, status |-> status, old |-> old]

Present  == tracked \cap DOMAIN tree
Added    == Present \ DOMAIN base
Deleted  == DOMAIN base \ Present
Modified == {p \in Present \cap DOMAIN base : tree[p] # base[p]}

(* Git pairs what was deleted with what was added by how similar they are: *)
(* certainly if they are equal, never a file of one kind with another's.   *)
Pairings ==
    {r \in UNION {[A -> Deleted] : A \in SUBSET Added} :
        /\ \A p \in DOMAIN r : r[p].kind = p.kind
        /\ \A p, q \in DOMAIN r : r[p] = r[q] => p = q
        /\ \A p \in Added : \A q \in Deleted :
              (p.kind = q.kind /\ tree[p] = base[q]) =>
                  p \in DOMAIN r \/ \E k \in DOMAIN r : r[k] = q}

Entries(renames) ==
    {Entry(p, "added", p) : p \in Added \ DOMAIN renames}
      \cup {Entry(p, "deleted", p) : p \in Deleted \ {renames[k] : k \in DOMAIN renames}}
      \cup {Entry(p, "renamed", renames[p]) : p \in DOMAIN renames}
      \cup {Entry(p, "modified", p) : p \in Modified}
      \cup {Entry(p, "untracked", p) : p \in DOMAIN tree \ tracked}

-----------------------------------------------------------------------------
(* What each entry means: the models it touches, and the identities that   *)
(* went away with it.                                                      *)

Means(models, gone) == [models |-> models, gone |-> gone]
Nothing == Means({}, {})

seed_consumers(name) ==
    {Id(tree, p) : p \in {q \in At(tree, "model") : \E s \in sources(tree, q) : Last(s) = name}}

semantic_signature(file) == <<file.text, file.reads, file.pin>>

OldId_ByPath(old) == model_id_for_path(tree, old)

OldId(old) == IF base[old].pin # <<>> THEN base[old].pin ELSE model_id_for_path(tree, old)

map_model(entry) ==
    LET p    == entry.path
        self == IF p \in DOMAIN tree THEN {Id(tree, p)} ELSE {}
        Same == semantic_signature(base[entry.old]) = semantic_signature(tree[p])
    IN  CASE entry.status \in {"added", "untracked"} -> Means(self, {})
          [] entry.status = "modified" ->
               Means(IF Same THEN {} ELSE self,
                     {base[p].pin} \ ({<<>>} \cup self))
          [] entry.status = "deleted" ->
               Means({}, {OldId(p)} \ Ids(tree))
          [] entry.status = "renamed" ->
               Means(IF Same /\ {model_id_for_path(tree, entry.old)} = self THEN {} ELSE self,
                     {OldId(entry.old)} \ Ids(tree))

(* Both sides of a renamed configuration lose or gain it.                  *)
map_root_config(entry) ==
    LET dirs == {entry.path.dir} \cup (IF entry.status = "renamed" THEN {entry.old.dir} ELSE {})
        Bare(c) == [c EXCEPT !.layout = 0]
        Moved == entry.status # "modified" \/ Bare(base[entry.path]) # Bare(tree[entry.path])
    IN  Means(IF Moved THEN {Id(tree, q) : q \in {m \in At(tree, "model") : m.dir \in dirs}} ELSE {},
              {})

Config(t) == IF PhloConfig \in DOMAIN t THEN t[PhloConfig]
             ELSE [transform |-> 0, model |-> <<>>, seeds |-> 0, seed |-> <<>>, layout |-> 0]
Settings(t, id) == {Config(t).model[k] : k \in {id} \cap DOMAIN Config(t).model}
Section(t, s)   == {Config(t).seed[k] : k \in {s} \cap DOMAIN Config(t).seed}
SeedNames(t)    == {p.name : p \in At(t, "seed")}

map_phlo_config(entry) ==
    LET old == Config(base)
        new == Config(tree)
        seeds == (IF old.seeds # new.seeds THEN SeedNames(tree) ELSE {})
                   \cup {s \in DOMAIN old.seed \cup DOMAIN new.seed :
                            Section(base, s) # Section(tree, s)}
    IN  IF entry.status # "modified" \/ old.transform # new.transform
          THEN Means(Ids(tree), {})
          ELSE Means({id \in Ids(tree) : Settings(base, id) # Settings(tree, id)}
                       \cup UNION {seed_consumers(s) : s \in seeds}, {})

map_seed_Surviving(entry) ==
    Means(IF entry.status = "renamed" /\ base[entry.old] = tree[entry.path] THEN {}
          ELSE seed_consumers(entry.path.name), {})

(* A seed is known by its name: where it lies means nothing.               *)
map_seed(entry) ==
    LET moved == entry.status = "renamed" /\ entry.old.name # entry.path.name
        same  == /\ entry.status \in {"modified", "renamed"} /\ ~moved
                 /\ base[entry.old] = tree[entry.path]
        now   == IF entry.status = "deleted" \/ same THEN {} ELSE {entry.path.name}
        gone  == IF entry.status = "deleted" \/ moved THEN {entry.old.name} ELSE {}
    IN  Means(UNION {seed_consumers(s) : s \in now \cup gone}, {})

map_test(entry) ==
    Means(IF entry.path \notin DOMAIN tree THEN {}
          ELSE UNION {resolve_global(tree, n) : n \in tree[entry.path].reads}, {})

map(entry) ==
    CASE entry.path.kind = "phlo"  -> map_phlo_config(entry)
      [] entry.path.kind = "root"  -> map_root_config(entry)
      [] entry.path.kind = "seed"  -> map_seed(entry)
      [] entry.path.kind = "test"  -> map_test(entry)
      [] entry.path.kind = "model" -> map_model(entry)

(* Who now reads a source where a model was, as far as the names tell.     *)
bereft(gone) ==
    {Id(tree, p) : p \in {q \in At(tree, "model") :
        \E n \in sources(tree, q) : \E id \in gone : IsSuffix(n, id)}}

changes(renames) ==
    LET means == {map(entry) : entry \in Entries(renames)}
        gone  == UNION {m.gone : m \in means}
    IN  [models |-> bereft(gone) \cup UNION {m.models : m \in means}, gone |-> gone]

(* changed+: the models of the change set and everything downstream.       *)
RECURSIVE Blast(_)
Blast(ids) ==
    LET more == {Id(tree, p) : p \in {q \in At(tree, "model") : deps(tree, q) \cap ids # {}}}
    IN  IF more \subseteq ids THEN ids ELSE Blast(ids \cup more)

-----------------------------------------------------------------------------
(* Work on the tree, and the question.                                     *)

Init ==
    /\ base \in Bases
    /\ tree = base
    /\ tracked = DOMAIN base
    /\ edits = 0
    /\ answer = <<>>

Edited ==
    /\ edits < MaxEdits
    /\ edits' = edits + 1
    /\ answer' = <<>>
    /\ UNCHANGED base

Write(p, content) ==
    /\ Edited
    /\ p \in DOMAIN tree => tree[p] # content
    /\ tree' = (p :> content) @@ tree
    /\ UNCHANGED tracked

Delete(p) ==
    /\ Edited
    /\ p \in DOMAIN tree
    /\ tree' = Restrict(tree, DOMAIN tree \ {p})
    /\ UNCHANGED tracked

Move(p, q) ==
    /\ Edited
    /\ p \in DOMAIN tree /\ q \notin DOMAIN tree
    /\ p.kind = q.kind
    /\ tree' = (q :> tree[p]) @@ Restrict(tree, DOMAIN tree \ {p})
    /\ tracked' = (tracked \ {p}) \cup (IF p \in tracked THEN {q} ELSE {})

(* git add, and git rm --cached.                                           *)
Track(p) ==
    /\ p \in DOMAIN tree \ tracked
    /\ tracked' = tracked \cup {p}
    /\ answer' = <<>>
    /\ UNCHANGED <<base, tree, edits>>

Untrack(p) ==
    /\ Edited
    /\ p \in DOMAIN tree \cap tracked
    /\ tracked' = tracked \ {p}
    /\ UNCHANGED tree

Ask ==
    /\ answer = <<>>
    /\ Compiles(tree)
    /\ \E renames \in Pairings : answer' = <<changes(renames)>>
    /\ UNCHANGED <<base, tree, tracked, edits>>

Next ==
    \/ \E p \in DOMAIN Offers : \E content \in Offers[p] : Write(p, content)
    \/ \E p \in DOMAIN tree : Delete(p) \/ Track(p) \/ Untrack(p)
    \/ \E p \in DOMAIN tree \cap Movable : \E q \in Movable : Move(p, q)
    \/ Ask

Spec == Init /\ [][Next]_vars

-----------------------------------------------------------------------------
(* Properties.                                                             *)

(* What a model is made of, the names it resolves apart.                   *)
SeedsOf(t, p) ==
    {<<s.name, t[s], Config(t).seeds, Section(t, s.name)>> :
        s \in {z \in At(t, "seed") : \E n \in sources(t, p) : Last(n) = z.name}}

Own(t, p) ==
    <<semantic_signature(t[p]), Config(t).transform, Settings(t, Id(t, p)),
      IF Scoped(t, p) THEN <<[t[RootConfig(p.dir)] EXCEPT !.layout = 0]>> ELSE <<>>>>

Differs(id) ==
    id \notin Ids(base) \/
    LET p == FileOf(tree, id)
        q == FileOf(base, id)
    IN  \/ Own(tree, p) # Own(base, q)
        \/ deps(tree, p) # deps(base, q)
        \/ SeedsOf(tree, p) # SeedsOf(base, q)

Asked == answer # <<>> /\ Compiles(base)

(* A name that no longer means the model it meant in the base, and that    *)
(* the report cannot trace: it was resolved by the file's place, or the    *)
(* model is gone and either the name means another one now, or the change  *)
(* set does not know that it is gone.                                      *)
Untraceable(id, n, was) ==
    \/ ~IsSuffix(n, was)
    \/ /\ was \notin Ids(tree)
       /\ resolve(tree, FileOf(tree, id), n) # {} \/ was \notin answer[1].gone

(* A file that was moved and is pinned to what its old path stood for: the *)
(* report takes it for the same, and its names may mean other models.      *)
Relocated(id) ==
    LET q == FileOf(base, id)
    IN  /\ FileOf(tree, id) # q
        /\ base[q].pin = id /\ model_id_for_path(tree, q) = id

(* Whatever else differs, a model whose inputs are not those of the base   *)
(* is in the change set or downstream of it.                               *)
OnlyRedirectedAreMissed ==
    Asked => \A id \in Ids(tree) :
        (Differs(id) /\ id \notin Blast(answer[1].models)) =>
            \/ id \in Ids(base) /\ Relocated(id)
            \/ \E n \in tree[FileOf(tree, id)].reads :
                  \E was \in resolve(base, FileOf(base, id), n)
                               \ resolve(tree, FileOf(tree, id), n) : Untraceable(id, n, was)

(* An identity of the base that is gone is reported, unless its file got a *)
(* pin or the configuration over it was changed.                           *)
VanishedAreNamed ==
    Asked => \A id \in Ids(base) \ Ids(tree) :
        LET q == FileOf(base, id)
        IN  \/ id \in answer[1].gone
            \/ q \in DOMAIN tree /\ base[q].pin = <<>> /\ tree[q].pin # <<>>
            \/ Namespace(base, q) # Namespace(tree, q)

=============================================================================
