------------------------------ MODULE MCRunner ------------------------------
(***************************************************************************)
(* Small instances of Runner.  Join: two roots, one of which reads a seed, *)
(* a model that reads both, and one behind it.  Chain: a root that reads a *)
(* seed, a model behind it, and a second seed that only a test reads.      *)
(***************************************************************************)
EXTENDS Runner, TLC

CONSTANTS a, b, c, d, s1, s2, t1

SeedReaders(ms) == [m \in ms |-> IF m = a THEN {s1} ELSE {}]
AllBuild(ms) == [m \in ms |-> "build"]

JoinModels == {a, b, c, d}
JoinDeps == (a :> {}) @@ (b :> {}) @@ (c :> {a, b}) @@ (d :> {c})
JoinReads == SeedReaders(JoinModels)
JoinCovers == t1 :> {d}
\* Everything new; a root that another environment already has; a middle model
\* that is up to date although its inputs are built again.
JoinPlans ==
    {AllBuild(JoinModels),
     [AllBuild(JoinModels) EXCEPT ![b] = "cached"],
     [AllBuild(JoinModels) EXCEPT ![c] = "skip"]}

ChainModels == {a, b}
ChainDeps == (a :> {}) @@ (b :> {a})
ChainReads == SeedReaders(ChainModels)
ChainCovers == t1 :> {b}
ChainPlans == {AllBuild(ChainModels), [AllBuild(ChainModels) EXCEPT ![a] = "skip"]}

OneTest == {t1}
OneSeed == {s1}
OneSeedPlans == {s1 :> p : p \in {"build", "skip"}}
TestReadsNothing == t1 :> {}
TwoSeeds == {s1, s2}
TwoSeedPlans == {[s \in TwoSeeds |-> "build"]}
TestReadsSeed == t1 :> {s2}
=============================================================================
