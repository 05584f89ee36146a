# phlo-transform: a verification project

TLA+ models of phlo-transform, checked with TLC and proved with TLAPS. Paths
are relative to `src/`; `engine/` stands for `crates/phlo-transform-engine/src/`,
`core/` for `crates/phlo-transform-core/src/`, `cli/` and `daemon/` for the `src/` of the
crates of that name.

1. [The system](#1-the-system) – inventory of components
2. [The modules](#2-the-modules)
3. [Runner](#3-runner) and [RunContract](#31-runcontract)
4. [Operations](#4-operations)
5. [Materialise](#5-materialise)
6. [Incremental](#6-incremental)
7. [Promotion](#7-promotion)
8. [Planning](#8-planning)
9. [Lineage, Analysis, Sql](#9-lineage-analysis-sql)
10. [Changes](#10-changes)
11. [Stores](#11-stores)
12. [Evidence and Compare](#12-evidence-and-compare)
13. [What the runs show](#13-what-the-runs-show)
14. [Fairness](#14-fairness)
15. [What is proved](#15-what-is-proved)
16. [Where the code and its documentation disagree](#16-where-the-code-and-its-documentation-disagree)
17. [Not modelled](#17-not-modelled)

## 1. The system

phlo-transform compiles a workspace of SQL models to a dependency graph, plans
which of them are out of date, and builds those in a warehouse (Trino over
Iceberg and Nessie, or DuckDB). A run is durable: it can be killed and resumed.
Changes are built on a Nessie branch, audited, and merged into the target
(write-audit-publish). A daemon offers the same over HTTP.

```
 workspace ──► compiler ──► planner ──► run driver ──► adapter ──► warehouse
                  ▲            ▲            │  ▲
                  │            └── state ◄──┘  │ resume, cancel
               reload            store         │
                  └──────────── daemon: operations ──► promotion ──► Nessie
```

| Component | State it keeps | Operations | What is hard about it | What makes it correct |
|---|---|---|---|---|
| Run driver (`engine/run.rs`) | status of each seed, model and test; remaining counts; ready queue; tasks in flight; cancel and fail-fast flags | execute, resume, retry_failed | answers in any order; stop while tasks are in flight; kill at any point; statements that outlive their task | dependencies respected; failures reach what they must and no more; the record is accurate; it ends |
| Retry policy (`engine/failure.rs`) | attempts of a model, earlier invocations included | should_retry, delay, classification | a budget shared by several invocations; a retry of a statement that was executed after all | the budget is bounded |
| Cancellation (`engine/cancel.rs`) | one flag per run | cancel, is_cancelled, cancelled | read at some places and not at others | a cancel ends the run and is reported |
| State store (`engine/state.rs`, `state_postgres.rs`) | runs, model/seed/test runs, model_versions, seed_loads, incremental_state, evidence, promotions | start/reopen/finish_run, record_*, set_watermark | several runs and processes write one row; resumed runs write late | a later write is never undone by an earlier one; what is on record exists |
| Planner (`engine/plan.rs`) | none: a function of compilation, state store and warehouse | plan, decide, decide_seed | records that are stale, of another adapter or of another environment | skip only what is there and current |
| Adapters (`phlo-transform-trino`, `phlo-transform-duckdb`) | statements in flight, by attempt | execute, create_or_replace_*, append, merge, replace_partitions, cancel | statements that are not atomic, lost answers, ids known late | a failed statement is reported; what can be cancelled is |
| Operation store (`daemon/operations.rs`) | operations, idempotency keys, mutating gate, journal | submit, cancel, mark_running, finish, release, open | concurrent submissions, lost and interleaved journal writes, crash and restart | a key executes once; one mutating operation at a time; what was acknowledged is found again |
| HTTP service (`daemon/lib.rs`, `execute.rs`) | compiled snapshot | handlers, executors, reload, watcher | reloads that overtake each other; an executor that panics | the newest compilation is published |
| Environments (`engine/environment.rs`, `audit.rs`) | branch, catalog, their record and artifacts | ensure_candidate, resolve, remove | a crash between two of them | only what phlo created is dropped |
| Promotion (`engine/promotion.rs`, `gates.rs`) | promotion records, Nessie references | evaluate, promote, persist, clean up, bind a run | references that move between check and merge | what is merged is what was audited |
| Diffs and audits (`engine/diff.rs`, `branch_diff.rs`, `lineage_diff.rs`, `audit.rs`) | evidence records, one artifact of each kind per machine | diff, branch_diff, audited_diff, import | files and records of several machines, heads that move, failed reads | what an audit accepts is of the commits it names and the newest there is |
| Contracts, schemas | none | contract_diff, classify_schema_change | ambiguous renames, nullability | breaking changes are called breaking |
| Graph, selection, resolution (`phlo-transform-core`) | none | topological_order, cycle, resolve_selection, resolve | cycles, nested selectors, equal names | the result equals its set definition |
| Compiler, analysis, lineage (`core/compile.rs`, `analyze.rs`, `version.rs`, `lineage*.rs`) | the last compilation | compile, analyse, version, impact, lineage diff | shadowed names, clauses a column draws on unseen | equal versions compute equal tables; impact is not missed |
| Change sets (`core/git.rs`) | none | `changes` between a commit and the working tree | moves, pins, configuration, names that come to mean another model | what differs is reported, or downstream of it |
| SQL front end, dbt migration, OpenLineage, CLI | none that lasts | translation and presentation | size | relations found are those the SQL reads |

`PROJECT.json` lists each component with its sources and status, and every
hazard of the code at the line where it bites, with the properties that cover it.

## 2. The modules

| Module | What it composes | Promise | Proofs |
|---|---|---|---|
| `Runner` | driver, retry policy, cancellation, run progress, adapter, process death | implements `RunContract` | `RunnerProofs` |
| `RunContract` | the abstract statement of what one run id promises | – | |
| `Operations` | operation store, spawned tasks, journal, crashes | a key executes once; what is acknowledged stays | `OperationsProofs` |
| `Materialise` | `decide`, adoption, `record_materialized`, concurrent runs, the warehouse underneath | a record names content of its version; only current content is left unbuilt | `MaterialiseProofs` |
| `Incremental` | incremental strategies, retries, watermarks, branches | which rows a table may lose or repeat, or lack when it is skipped | `IncrementalProofs` |
| `Promotion` | provisioning, run binding, audit, gates, merge, cleanup | only vetted commits reach the target | `PromotionProofs` |
| `Planning` | identities, resolution, graph, selectors, scope of a plan, order of starts | a plan is closed and ordered | `PlanningProofs` |
| `Lineage` over `Analysis` over `Sql` | compile, analyse, version, lineage graph and its difference, beside what a warehouse computes | versions and lineage tell the truth about the SQL | – |
| `Changes` | change set of `--since` | what differs is reported | – |
| `Stores` over `SqliteStore`, `PostgresStore`, `StoreRows` | both state stores under the same calls | they agree; a later record stands | `StoresProofs` |
| `Evidence` over `Compare` | diffs, audits, bindings, on several machines | what is accepted is sound and the newest | `EvidenceProofs` |

`Runner` takes a plan as given, `Planning` is where it comes from. `Runner`
treats a statement as success or failure, `Incremental` has what a table holds
after each. `Runner` says when a model is recorded, `Materialise` what the
record claims and who believes it, `Stores` what a database makes of it.
`Promotion` takes the verdict of a run and of an audit, and has what becomes of
the branch; `Evidence` has what the audit went by, and uses `SqliteStore`.
`Lineage` has the versions that `Materialise` compares.

Parameters are CONSTANTS with named assumptions and each operation is an action
of its own. Only `Sql`, `Analysis`, `Lineage` and `Changes` use RECURSIVE
operators (over trees and graphs); nothing is proved in them. `MC*.tla` hold the small instances.

## 3. Runner

`Runner.tla` models `Runner::execute` and `Runner::resume`. A behaviour is the
life of one run id: an invocation, then perhaps a kill or a cancel, and up to
`MaxEpochs - 1` resumed invocations.

**Processes.** The driver is one task; `pc` says how far it is: `seeds` (the
seed loop), `prep` (reuse, skip, adopt), `block` (readers of failed seeds),
`top`/`dispatch`/`select` (the main loop), `drain` (shutdown and
classification), `tests`, `record` (the closing loop and `finish_run`), `over`,
and `down` after a kill. Every dispatched model has a task (`task[m]`): `exec`
while the warehouse works, `backoff`, and `ok` or `err` when it has completed
and was not joined yet. The world cancels, kills, drops relations and resumes.

**State.** `status`, `remaining` and `ready` are the maps and the queue of
`execute`; the queue's order is abstracted, a set is dispatched in any order.
`runRow`, `rec`, `recTries`, `seedRec` and `recorded` are durable: the rows of
`runs`, `model_runs` (status and number of attempts), `seed_runs` and
`model_versions`. `rel` is the relation in the warehouse: absent, older, or
built by this run; `orphan` holds models with a statement that no task waits for.

**Actions.** One per handler or arm of a `match`; `PROJECT.json` maps each to
its lines. A step of the driver includes every row it writes:
`JoinFailed`, say, records the failure, the blocked models and the cleared
queue. `AttemptFail` is the failed statement with its record and the decision
to retry; its `effect` is the relation left as it was or absent, because a
replacement is a DROP and a CREATE. `DrainAbort` drops a task, and the
statement may survive.

**What is abstracted.**

- The semaphore and the in-flight count admit the same number of tasks and are
  one bound. A task in backoff keeps its place in the count and releases only
  its permit; which task then gets the permit is not distinguished.
- The lock on a target is never contended: the compiler refuses two models with
  one target.
- Seeds and tests run one at a time, here in any order. Retries of a seed load
  are inside `EndSeed`.
- A kill between two rows of one batch leaves what a kill before the batch would
  leave, except for the blocked rows of a failure, of which a prefix may be on
  record. Resume treats a row that is blocked and one that is pending alike.
- An error of the state store ends `execute` early. What is durable is then
  what a kill leaves, and so is what resume finds; `Kill` stands for both.
- Desired versions do not change between invocations: the workspace is the same.
- The identity of an output is not compared when it is recorded: no other run
  writes here. `Materialise` has that part.
- `--force`, schema creation and `retry_failed` are left out.

`made` and `short` are history: the statements sent for each model, and the
models for which some invocation began with fewer attempts on record than had
been made. The record falls short after a kill that left a sent attempt
uncounted, and after anything that wipes it: the dispatch of a resumed model, its
end as cancelled, blocked or skipped. `RetryBudget` says what is true of the
statements sent in each case.

**Bounds.** `MaxEpochs` (invocations), `MaxDrops` (relations dropped in
between), `MaxAttempts` (a parameter of the code). Everything else is finite by
itself.

### 3.1 RunContract

`RunContract.tla` says what a caller of `run` and `resume` may rely on, without
queues, tasks or phases. Its state: what is being built (`working`), whether
the run was told to stop, the verdict, one outcome for each unit (a model or a
seed: pending, good, failed, blocked, cancelled), the models on record as
passed (`kept`), the relations that exist (`there`), and those another client
dropped (`lost`). It promises that

- work starts only on inputs that are good and exist, never after a stop, and
  never again on a model on record as passed unless its relation is gone;
- a unit is blocked only below something broken, and cancelled only after a
  stop and not below a failure;
- a record of a pass stays until its relation is dropped, and is true;
- a run that passed has every unit good and in place, a run that ends as
  cancelled was stopped, and only an interrupted run is resumed.

`Runner` implements it (`ImplementsContract`) under the mapping

| Contract | Runner |
|---|---|
| `working` | the driver is in one of its phases (`Active`) |
| `stopping` | cancel requested, or fail-fast after a failure (`Stopped`) |
| `verdict` | the row of the run |
| `outcome` | `OutcomeOf` the status: passed, skipped and cached are good |
| `kept` | models whose durable record is passed |
| `there` | models whose relation is not absent; seeds in place or loaded |
| `lost` | `dropped` |

Many steps of `Runner` stutter (dispatch of an attempt, a retry, a write of the
journal); a statement that lands after its task was dropped is `Land`. The
contract is about safety. Seeds are not in `kept`: a stop overwrites the
record of a seed that was reused with `cancelled`.

## 4. Operations

`Operations.tla` models the store behind `POST /v1/operations`. Each operation
is a thread: its handler reserves it, then the spawned task runs it. `phase[o]`
is where it is.

| Code | Actions |
|---|---|
| `submit`, `acquire`, `register` up to the append | `Reserve`; replay, conflict and busy change nothing and are the operator `Outcome` |
| `journal_append` | `AppendRecord`, `AppendNewline`, `AppendFails` |
| rest of `register` and `submit`, the response | `Visible` or `Refused`, the end of the reservation's append |
| spawned task | `MarkRunning`, its note, `Executing`, `Finish`, the final note, `Release` |
| `cancel` | `Cancel` |
| process | `Crash`, `Open` |

The journal is `log[o]`, the readable lines of each operation in order, `tail`,
the last line while it has no newline, and `torn`, whether any line was ever
spoilt. Lines of different operations are kept apart because `open` folds each
into its own record; only keys depend on the order across operations, and in a
journal that is not torn that is the order of the reservations (`KeyOwners`).

**What is abstracted.** One write to the file is atomic and survives the death
of the process; the machine itself does not fail. `open` and the notes it appends
are one step that does not fail. Results and errors are not kept, only
statuses. A panic in an executor is not modelled.

`Init` also starts from a journal left by an older version, with a record that
has a key and no request hash.

**Bounds.** `MaxOps`, `MaxCrashes`, `MaxFaults`.

## 5. Materialise

`Materialise.tla` follows one model through plan, run and record while several
runs share the state store and the warehouse. The relation has one slot in each
catalog; a write makes a new snapshot, whose number is its output identity
(an Iceberg snapshot id), and `holds` remembers what each snapshot was built
from. A branch that Nessie creates or merges shows the snapshot of another
(`Inherit`), which is what an adoption relies on.

| Code | Actions and operators |
|---|---|
| `Planner::plan`: the existence probe, `materialized_scope`, `materialized_by_hashes`, `output_identity` | `Probe`, `ReadScope`, `ReadCandidates`, `Decide`: each read is a step |
| `merge_latest`, `materialized_for_environment` | `Labels`, `Shadows`, `Scope` |
| `decide` | `Verdict`, from `Unchanged`, `Moved`, `Shared` (`env_rank` is `Rank`) |
| `Plan::staleness`, `apply` | `Stale`, `Refuse`; `run` goes on with the compilation it planned from (`Apply`) |
| adoption in `execute` | `Verify`, `Adopt` |
| statement, join, end of the run, closing loop | `Build`, `Capture`, `Finish`, `Check`, `Record` |
| `record_materialized` | `Upsert` |
| `resume`, `resume_plan` | `Resume`, `Reused` |
| user, Nessie, other tools, the process | `Edit`, `Rebind`, `Inherit`, `Foreign`, `Dies` |

Three variables or fields are history, read by properties only: `wrote` is the
snapshot a build made, `own` says of a record that its identity is that of its
run's own write, and `intact` holds the runs whose target nobody wrote since
they saw their output there.

**What is abstracted.**

- One model. A version stands for its whole hash, upstream versions included,
  and a snapshot for its content. A schema or table of another name never
  appears: such a change also changes the version, or the slot.
- One adapter; a record of another one has `ours` false.
- The two queries of `materialized_scope`, for the default environment and for
  main, are one step.
- `finished_at` of different runs are different times. Records name no run.
- A run that dies while it plans leaves nothing behind and is not modelled. A
  run that is cancelled after its model passed resumes like one that died.
- `--force` is the last disjunct of `Decide`; a resume plans without it.
- A build succeeds. A failed statement leaves a changed relation and no record,
  which is what `Foreign` and `Dies` do.
- The copied watermark of an adoption, seeds, and the explanation of a decision
  are left out.

**Bounds.** `MaxRuns` runs started; `MaxMoves` edits, retargets, inherited
snapshots, foreign writes or drops, kills and unreadable identities, together.

## 6. Incremental

`Incremental.tla` follows the rows of one incremental model. Row *n* is the
*n*-th to arrive at its source and has *n* in its window column; a table holds
each row zero, one or two times ("two" is "more than once").

| Code | Actions and operators |
|---|---|
| `decide`, `full_rebuild`, watermark of `plan` | `Unchanged`, `Whole`, `Bound`, `Adoptable`, `Start` |
| `exec_op`, the statements of the adapters | `Statements`, `Makes`, `Apply`, `Execute` |
| retries, lost answers, cancelled tasks | `Fail`, `Refuse`, `Abandon`, `ExecuteLate` |
| join, drain, `advance_watermark`; `finished_at`, closing loop, `record_materialized` | `Join`, `Drain`, `SetMark`; `Finish`, `End`, `Recorded` |
| adoption with its watermark | `Adopt`, `CopyMark` |
| Nessie, the process, the source | `CutBranch`, `Publish`, `Rollback`, `Stop`, `Arrive` |

A key strategy on DuckDB is delete and insert, on Trino a MERGE; partitions are
replaced by DELETE and INSERT, two statements that fail separately. `slips` is
history: what has happened so far that the code cannot make up for (an answer
lost after the statement was executed, a statement left running, a drain that
dropped a watermark, a process that died before it recorded what it built, half
of a replacement, runs side by side, a record of another label). A half of a replacement counts from the moment the other half
can no longer reach a copy: when its run ends, or when a branch is cut from, or
merged out of, the catalog it is working in (`Halves`). The properties name the
slips that excuse a loss or a repetition; without one of those, nothing is lost
or repeated, in any interleaving.

A record has the time its run finished (`stamp`, taken in one step before the
records are written, which is another): of two runs of one label the one that
finished last stands, whichever started first, and the planner goes by the
latest of the labels that share a catalog (`Scope`, `Current`). A watermark is
ordered by the start of its run (`by`). An adoption that does not hold any more
when it is executed becomes a build from scratch.

*Abstracted.* Rows arrive in the order of the window. The reads of planning are
one step. A resume is another run. A rollback takes main one commit back. The
clock gives every run another time, and one that never goes back.

*Bounds.* `MaxRows`, `MaxMoves` (failures, runs cut short, merges, rollbacks),
`MaxSteps` (these and runs started).

## 7. Promotion

`Promotion.tla` is write-audit-publish. A commit is a number with the tables it
holds and the commits it contains; a table is known by the run that built it.

| Code | Processes and actions |
|---|---|
| `ensure_candidate`, ownership, undo | `StartOn`, `ReadBase`, `CutBranch`/`TakeBranch`, `CreateCatalog`/`TakeCatalog`/`RefuseCatalog`, `UndoBranch`, `RecordSetup` |
| a run, `bind_run_reference` | `Begin`, `Write`, `Note`, `Pass`/`Fail`, `ResolveRun`, `BindRun` |
| `branch_diff` | `StartAudit`, `ReadTarget`, `ReadVersions`, `Compare` |
| `evaluate_promotion`, gates | `EvalTarget`, `EvalRun`, `EvalEvidence`, `Gates` (`RunGate`, `TestGates`, `SchemaGate`, `DataGate`, `BaseGate`, `MergeGate`) |
| `promote` | `ReadAgain`, `DoMerge`/`FailMerge` |
| `cleanup_candidate`, `ref delete` | `DropCatalog`, `DeleteBranch`, `FailCleanup`, `Forget` |
| others | `Rollback`, `ForeignBranch`, `ForeignCatalog` |

Every call to Nessie, the state store or the warehouse is a step of its own,
and a process that is never scheduled again has died there. `merges` is history:
what each merge was decided on and what it did; so is `made`, whether the
branch of a candidate was made afresh or at a commit main had left behind.

*Abstracted.* Gates are about what their evidence proves, not about how tables
are compared. The row that `persist_promotion` writes is read by no decision.
*Left out*: the refusal of a catalog that another candidate claims, pinned
catalogs, writes through somebody else's catalog.

*Bounds.* `MaxCommits`, `MaxAtOnce` processes, `MaxMoves`.

## 8. Planning

`Planning.tla` goes from files to the order of statements. Dotted names are
sequences of parts.

| Code | Actions and operators |
|---|---|
| `derive_identity`, `transform.toml` | `Root`, `Namespace`, `Path`, `Identity`, `Duplicate` |
| `resolve` | `Levels`, `Candidates`, `Compile` |
| `Graph::cycle` | `Visit`, `BackEdge`, `Leave`, `NoCycle` |
| `topological_order` | `StartSort`, `Emit`, `Sorted` |
| `resolve_selection` | `BaseMatch`, `Included`, `Excluded`, `Select` |
| scope of `plan`: closure, exclusions, seeds, refusals | `Closure`, `Listed`, `Needed`, `Unsafe`, `Plan` |
| order of `execute` | `LoadSeed`, `StartModels`, `Start`, `Finish`, `Blocked`, `EndRun` |

`topological_order` emits the least of the ready models; here any of them, so
that what is shown does not rest on names. Closures are least fixed points
(`Reach`), not recursive operators. `decide` is reduced to "missing or stale".

*Left out*: roots configured outside `transforms`, the validation of segments,
the selection of tests, SQL parsing and rewriting, collisions of target tables,
suggestions.

*Bounds.* None beyond the instance: four files in a workflow and a root, every
combination of 81 readings, three sets of ephemeral models, seven requests,
three warehouses and two edits.

## 9. Lineage, Analysis, Sql

`Lineage.tla` compiles a workspace, lets a warehouse build it, rewrites one
model and compiles again. The same syntax trees are read twice: by the code's
analysis, and by a small evaluator of SQL (`Sql`, external) that says what the
query computes on every content of the sources. The properties compare the two.

| Code | Actions and operators |
|---|---|
| `extract_relations` (`phlo-transform-sql/src/relations.rs`) | `Sql!extract_relations` |
| `Analyzer::infer` and its operands, scopes, set operations (`core/analyze.rs`) | `Analysis!infer`, `InferAll` |
| dependencies, `topological_order`, `model_version` | `Resolve`, `topological_order`, `model_version` |
| compile in order, the lineage graph | `Analyze`, `Finish` |
| `column_upstream_transitive`, impact report, `lineage_diff` | operators of those names |
| a run; an edit | `Run`, `Edit` |

`rows` and `missed` of a schema are not the code's: they are what decides which
rows a relation has, and what the analyser passes over; only properties read
them. `Shadowed` is what the extractor takes for a CTE and the warehouse does not:
`VersionTellsOutput` excepts a change of such a model and nothing else, and the
run has a statement of that kind. `lineage_diff` lists an impact only where
something lies downstream, so the end of a lost edge is told by the edge itself
(`LostInputsAreReported`). *Left out*: types and nullability, nested joins, table functions, ORDER
BY, contracts and configuration, subgraphs and fingerprints. *Bounds*: ten
queries of one model under sixteen of another (joins, CTEs, shadowed names,
derived tables, set operations, aggregates, windows), three sources of one or
two rows.

## 10. Changes

`Changes.tla` is `core/git.rs`: the models that the difference between a merge
base and the working tree touches. A tree maps paths to contents; contents keep
what is compared. `Write`, `Delete`, `Move`, `Track` and `Untrack` edit the tree
and the index; `Ask` takes the change set, with any pairing of deleted and added
files that `git diff -M` may report (`Pairings`, external). Names are resolved
as in `Planning`. *Left out*: files that cannot be parsed, a workspace below the
root of its repository. *Bounds*: `MaxEdits`, six bases.

## 11. Stores

`Stores.tla` runs `SqliteStore` and `PostgresStore` side by side: every method
of the store is an operator over its tables, a call applies both and is atomic.
A stamp has three faces: nanoseconds (`cmp_rfc3339` of SQLite), microseconds
(`phlo_cmp_rfc3339` of Postgres) and its text (ORDER BY), because older releases
wrote fractions of variable width. `Open` finds rows of an older release without
a key and `Backfill` writes the keys one UPDATE at a time, from what was read
before; other calls come in between. `told`, `raced` are history. *Left out*:
the Postgres worker and its connection, two processes that create the schema at
once, SQL text. A statement selects numbers of rows and lists them in an order
(`Where`, `InOrder`; `Only` keeps their own). *Assumed* of everything that is
recorded, also by an older release: its stamps were written by phlo and can be
parsed, and rounding to the microsecond does not reverse two of them; it has all
its columns, promotions the same ones; a row is under its own key. *Bounds*: `MaxCalls` calls over three
stamps, three runs, four records.

## 12. Evidence and Compare

`Evidence.tla` has several machines that share a store. Each keeps the last
report of a kind in one file and adds records to the store.

| Code | Actions and operators |
|---|---|
| `branch_diff` | `branch_diff`, `Diff`, `DiffFile`, `DiffRecord` |
| `audited_diff`, `import_evidence` (`engine/audit.rs`) | `Audit`, `AuditJudge`, `Weigh`, `audited_diff` |
| `lineage_diff`, its audit; `comparison_base`, `resolve_commit`, `checkout_tree` | `LineageDiff`, `LineageBind`, `LineageRecord`, `AuditLineage`, `LineageJudge` |
| `ensure`, `resolve`, `remove` of a binding | `Provision`, `ProvisionCheck`, `ProvisionRecord`, `ProvisionSlot`, `ProvisionFile`; `ReadBinding`, `ReadFiles`, `ScanBindings`, `ScanFile`; `Delete`, `RemoveSlot`, `RemoveRecord` |
| branches, working trees, the process | `Move`, `Edit`, `Stop` |

`Compare.tla` has the comparisons themselves as operators: columns with renames
and types (`compare_column_lists`), keyed rows, partitions, policies
(`evaluate_policy`), contracts and keys (`contract_diff`, `key_change`), and what
the planner rebuilds for (`forces_rebuild`). The run evaluates them on every
pair of a family of tables, schemas and contracts and compares the results with
definitions that count rows and guarantees directly. `live` is history: which
binding may be the last. A comparison without a key reads no columns: it counts
rows, whatever columns are missing (`readable`). *Left out*: fingerprint and sampled strategies,
relative tolerances, samples of rows. *Bounds*: `case.calls`, at most four
things begun on two machines; clocks may be behind by two calls.

## 13. What the runs show

| Run | Instance | Properties |
|---|---|---|
| `RunnerJoin` | four models: two roots, a join, one behind it; one seed, loaded or skipped, one test; 2 at a time, 2 attempts | `RunsOnlyOnSatisfied` |
| `RunnerResume` | two models in a chain, two seeds to load, one test; one resume, one dropped relation | `RetryBudget`, `ImplementsContract`, `CancelHonoured`, `Terminates` |
| `OperationsStore` | one mutating and one other request, one key; 2 operations, 2 crashes, 1 failed append | `OneMutating`, `CancelDecides`, `WholeJournalNoDuplicate`, `AcknowledgedStays`, `FirstRestartKeepsHistory`, `GateIsFreed`, `AcknowledgedEnds` |
| `Materialise` | one branch beside the default environment and main; two catalogs, two versions; 2 runs, 2 moves; symmetric in runs, catalogs and versions | `RowsTruthful`, `RecordedStands`, `OnlyCurrentIsReused` |
| `Incremental` | labels default, main and candidate; six kinds of model; two slots, 2 attempts, 2 rows, 1 move, 4 steps | `RowsAreKept`, `RowsAreSingle`, `SkippedIsComplete` |
| `Promotion` | one candidate, two runs, a create, an audit, a promotion, a deletion, any two at once; 4 commits, 1 move | `MergesAreVetted`, `NoUnseenBreak`, `ProvenanceHolds`, `MergesHoldTheirRun`, `NobodyElsesCatalog`, `OnlyLateWorkIsLost` |
| `Planning` | see section 8 | `PlanIsOrdered`, `PlanIsClosed` |
| `PlanningEphemeral` | the same | `UpstreamFirst`, violated: section 16 |
| `Lineage` | see section 9 | `VersionTellsOutput`, `ImpactFindsIt`, `LostInputsAreReported` |
| `Changes` | see section 10; 3 edits | `OnlyRedirectedAreMissed`, `VanishedAreNamed` |
| `Stores` | see section 11; 5 calls | `StoresAgree`, `NewestRecordStands`, `NewestWatermarkStands`, `KeyIsItsRecords` |
| `Evidence` | see section 12; two machines | `AuditedIsSound`, `FreshestIsAudited`, `BindingStands`, `CountsAreExact`, `BreaksAreSeen` |

What each property says is stated above its definition. The exceptions a
property makes are the behaviour of the code, not of the model; section 16 lists
those that its documentation does not lead one to expect.

*Why the bounds are enough.* A join is the smallest graph in which a count of
remaining inputs can be wrong, a model behind it the smallest in which a cone
of blocked models differs from the direct dependents, and two at a time is what
it takes for a completion to race with an abort. Its first plans include a root
adopted from another environment and a middle model that is skipped although
its inputs are built. Two attempts are one retry. One resume lets a record be
read by an invocation that did not write it; a second one would see the same
kinds of record. Two operations with one key are a duplicate; two crashes are
needed because the first restart writes what the second one reads. In
`Materialise` two runs are what it takes to record in another order than they
built, or to adopt what another environment recorded; two moves allow a
retarget after an edit, a foreign write after a merge, or a kill and a change
before the resume. A third run or move would meet records of the same kinds:
one's own, another environment's, one of an old release, true or foreign
content, in this catalog or the other. In `Incremental` a row before and a row
after a watermark tell a lost row from a repeated one, and four steps are a
run, a fault, a second run and a third that plans with what both left behind.
In `Promotion` a commit for the base, one for each run and one for the merge or
somebody else's move is four; two processes at a time already put every step of
one between any two of another. In `Lineage` a column can be lost, kept or
changed with one model over another; deeper chains repeat the same composition.
In `Changes` three edits are a move, a change of what was moved and of what a
name then means. In `Stores` three stamps order differently as numbers, as
microseconds and as texts; five calls are two writers of one row, in both
orders, and an opening between them. In `Evidence` a second machine is what it
takes for file and store to differ. Where a theorem holds for every value of the
constants, the bounds only matter for what TLC alone checks.

Each property is also shown to depend on the code it is about: operators named
after a definition with a suffix (`Cone_Direct`, `Freed_Any`, …) are plausible
slips, and `PROJECT.json` ("mutants") says which property finds which.

The runs end in states without a successor (a finished run, no operation left,
a bound reached), so deadlock is not checked; that the driver does not get
stuck is `Terminates`.

## 14. Fairness

`Runner`: the driver goes on wherever it waits for nobody (weak fairness of
`Scheduler` while not `Asking`) and a task in backoff wakes up (`Retry`), both by
the tokio runtime. `Asking` names the places where the driver itself awaits the
warehouse, without a limit: for the identity of an output and its watermark, and
for the cancels of a shutdown. Nothing in the code makes a warehouse answer, so
two hypotheses stand in the properties and not in the specification:
`ReadFairness`, it answers what the driver asks, and `AnswerFairness`, it answers
the statements of seeds, tests and models (for models `--model-timeout`
establishes that). `Terminates` needs both. `CancelHonoured` needs only the
first: `execute` selects on the cancel handle while statements are under way.
Cancel, Kill and Resume are never fair.

`Operations`: the runtime runs each handler and each spawned task on (weak fairness
of `Thread`). That executors return is a hypothesis (`ExecutorsReturn`) of
`GateIsFreed` and `AcknowledgedEnds`. Submissions, cancels, failed appends,
crashes and restarts are never fair.

The other modules state safety only and assume no fairness: any process may
stop for good between two steps.

## 15. What is proved

All theorems are about `Spec`, for every value of the constants that satisfies
the named assumptions of the module (finite sets of models, seeds and tests; an
acyclic graph; actions from the plan's three; no model is also a seed; numbers
that are numbers). Every invariant named here was checked by TLC before it was
proved.

| Module | Theorems about properties of runs | Others |
|---|---|---|
| `RunnerProofs` | `RunsOnlyOnSatisfied`, `RetryBudget`, `ImplementsContract` | `TypeOK`, `IInv`, `BlockedHasCause`, `BrokenInputPropagates`, `PassedIsBuilt`, `PassedRunIsWhole` |
| `OperationsProofs` | `OneMutating`, `CancelDecides`, `WholeJournalNoDuplicate`, `AcknowledgedStays`, `FirstRestartKeepsHistory` | `TypeOK`, `GInv`, `KInv` |
| `MaterialiseProofs` | `RowsTruthful`, `RecordedStands`, `OnlyCurrentIsReused` | `TypeOK` |
| `IncrementalProofs` | `RowsAreKept`, `RowsAreSingle`, `SkippedIsComplete` | `TypeOK` |
| `PromotionProofs` | `MergesAreVetted`, `NoUnseenBreak`, `ProvenanceHolds`, `MergesHoldTheirRun`, `NobodyElsesCatalog`, `OnlyLateWorkIsLost` | `TypeOK` |
| `PlanningProofs` | `PlanIsOrdered`, `PlanIsClosed` | `TypeOK`, `SortedIffAcyclic` |
| `StoresProofs` | `StoresAgree`, `NewestRecordStands`, `NewestWatermarkStands`, `KeyIsItsRecords` | |
| `EvidenceProofs` | `AuditedIsSound`, `FreshestIsAudited`, `BreaksAreSeen`, `CountsAreExact`, `BindingStands` | `EvidenceInv` |

**`RunnerProofs`.** `RunsOnlyOnSatisfied` is not inductive. A task is started
when `remaining` is zero, so the invariant `IInv` says what that count means
(`CountsRight`: it is the number of inputs whose status is not satisfied), that
only running models have tasks and only while the loop or the drain runs, that
a running or ready model waits for nothing and its seeds are loaded, and that
the relation of every satisfied model is there. The last needs that a plan which
does not build a model was made for one that exists (`PlannedExists`,
re-established by resume), and loaded seeds need that a stop during the seeds
leads from `top` straight to `drain` (`SeedsEnd`, `DispatchGoes`). The step that
carries the argument is that blocking reaches only models that wait for
something, hence none that runs or is ready: the set of waiting models is itself
closed in the sense that defines `Cone`.

`RetryBudget` is about the statements sent. `WithinReach` has what holds
whatever the record says: an invocation counts no attempt that was not made, and
sends the first one always and another only while it counts fewer than
`MaxAttempts`, so `MaxAttempts` each. `AllCounted` has what holds while nothing
was lost (`m \notin short`): what an invocation counts of a model it may still
start, or has a task for, is all that was sent, and so is what is on record of
one that ended or waits. Then each resumption can add one statement only, the one
that tells it that the budget is used up.

For the refinement, the invariant `KInv` adds three groups to `IInv`. What is on
record agrees with what the driver knows (`RecordInv`: a model with a task or a
good status has the matching row, a verdict is written last, a seed's row is its
status), and a record of a pass is true (`PassedIsBuilt`). Outcomes have
causes (`CauseInv`): nothing is blocked before something broke, what was built
had its inputs, and breakage reaches every reader. Nothing is forgotten
(`QueueInv`): a model that waits for nothing is in the queue, so when the queue
and the tasks are empty and nobody asked to stop, no model is left pending. This
last conclusion (`NothingLeft`) is where acyclicity enters: a nonempty set of
pending models, each waiting for another of the set, would be a knot (`NoKnot`).
With it the verdict passed means the whole plan was built (`WholeAtEnd`), which
is also the abstract guard of `Finish`. The refinement then goes action by
action: each concrete step is one abstract action or a stutter.

**`OperationsProofs`.** The gate: `GInv` adds to `OneMutating` and
`CancelDecides` that memory is empty while the daemon is down, that nothing was
cancelled before the first start, and that operations not made yet have no
thread. The keys: `KInv` says that a submission under a key holds the mutex and
that the key is still free, and that whatever is past its submission is
acknowledged (`Submissions`); that in a journal which is not torn exactly the
acknowledged operations have a line, and an unterminated one belongs to the
thread that is to end it or to a refused submission (`JournalWhole`); and that
each key has one acknowledged operation and answers with it (`KeysBound`).

History: `TasksInv` relates what memory shows of an operation to where its
thread is, so that what is shown unfinished still has a thread that will finish
it; `LinesInv` relates its lines to the same: none of them is a result while it
is under way, after that the first result is the one shown, and until the
second opening nothing follows it.

**`MaterialiseProofs`.** Call a record genuine if it is not vouched for (no
identity, or not that of its run's own write) or names a snapshot whose content
is its version. Rows stay genuine only if everything they are made from is, so
the inductive invariant `TruthInv` follows the evidence: the rows
(`RowsGenuine`), the records a planner has read and still holds
(`EvidenceGenuine`), that candidates of other environments are of the version
the run wants (`CandidatesWanted`), the record chosen for adoption
(`ReuseGenuine`), and the output of a build, whose snapshot holds the job's
version until a record is made of it (`OutputGenuine`). A snapshot's content
never changes, so what was genuine when it was read is genuine when it is used.
`OnlyCurrentIsReused` then needs only that the identity compared is the one the
target shows at that step.

`RecordedStands` needs time. Records are dated no later than now (`DatedInv`). As
long as nobody wrote the target of a run since, it shows the run's output
(`ShownInv`); then every record for that target that is at least as young and
vouched for names this output, also one that another run is about to write, as
a builder or an adopter (`StandInv`); and a run that has recorded left its own
record or a younger one (`LeftInv`).

**`IncrementalProofs`.** `RowsAreKept`: call a value sound for a table if the
table has every row up to it. `KeptInv` says that every table is a prefix of its
source, and that everything that will be used as a bound is sound for the table
it will be used on: the watermarks of all labels, what runs have read and
planned, statements left running, and values on their way from one label to
another. A cut makes the candidate's table equal to main's, and as long as main
has not moved since the candidate has no less than main, so the merge keeps
both (`CutInv`). The one exit is `SetBack`: a rollback under a watermark, and a
watermark copied for content that has fewer rows.

Records are ordered by when their run finished. A run that started earlier may
finish later and replace the record of one that saw more rows; so the
invariants speak of every record that may be written or believed, not of the
newest run's. An adoption that comes too late has its build from scratch among
its statements from the start (`PlansInv`).

`SkippedIsComplete` is excused only when two things have come together: an
operation of two statements is between them or was cut in two, and the identity
of the table cannot tell: the record has none, or somebody worked beside another.
Its proof has an invariant for the absence of each, over `PlansInv`, which
statements may still come of each run. `TrueInv`: while nobody works beside
another, every table that shows the snapshot of a record has every row the
version of that record saw. `ClaimInv`: while no operation is cut in two
(`HalfCut`), the same holds of every table on which nobody is between two
statements, of the copies a branch would bring, and of the records on their way.
The first attempt at this proof failed where a branch is cut from main between a
DELETE and its INSERT, which the property did not excuse and the bounded run
does not reach; `Halves` says it.

`RowsAreSingle` has one argument for each way rows are written, over two facts:
what has one snapshot is one table, with rows of the source only (`CopyInv`), and
only an insertion above its bound can repeat a row (`OnceStep`). A key that is
merged never inserts (`MergedInv`). After a deletion the table is empty until the
insertion, as long as nobody is beside (`EmptiedInv`). A window inserts above
the watermark it planned with, so the table must have nothing above it.
`WindowInv` says where that is known, while every append is followed by its
watermark and runs follow each other: of each table, up to the highest
watermark of its labels; of what main was before its last commit, to which it may
be set back; and of every table that shows the snapshot of a record, up to the
watermark of its label, so that who adopts the record may copy the watermark.
A candidate that is cut has no watermark yet (`UnreadInv`), and its first build
starts from scratch.

**`PromotionProofs`.** `IInv` follows what a promotion has read while the world
goes on: only runs that write may be on main (`PlaceInv`), a run has one report
(`OneInv`), a bound run is over and its row is frozen (`BoundInv`), what a
promotion knows in each of its places is still true, or is checked again by the
hash it merges with (`VetInv`, `MergeInv`). For catalogs: where phlo has no
catalog and none was dropped, no record and no process vouches for one
(`CatalogInv`, `NewInv`).

The other four properties are about the history of commits, and `HInv` is it.
Commits are numbered as they are made and contain only older ones
(`HistoryInv`); every hash a process or a record holds is one of a commit that
was made (`HashInv`), and a process holds what its place needs (`PhaseInv`).
As long as no reference was set back by hand: main only grows, so every base and
every merged commit stays in it (`MainInv`); what a branch has that main has
not is younger than its cut (`CutInv`); the commit a record gives as the base of
a branch is in that branch (`ClaimInv`), unless the branch was made again at a
commit main had left behind (`MadeInv`); and a report that found no
break is right about its commits as long as they are the heads (`SeenInv`). `EndInv` keeps what a promotion
knew when it merged for the cleanup that comes after, which is what makes work
lost by cleanup late work. `AloneInv` says that a reference nobody else moved
holds what the run on it says. With these, a merge cannot take away a column
that its gates did not see, and provenance is that of the branch.

**`PlanningProofs`.** The search: what is finished is closed under dependencies
and contains no knot, what is on the stack is a path (`SearchInv`). The sort:
what is emitted depends on earlier emitted models only, and what is ready
depends on emitted models only (`SortInv`). So a reported cycle is one, and
without a cycle the sort cannot stop short (`SortedIffAcyclic`). The plan:
`PlanInv` with `ReachClosed` and `ReachLeast`, the two facts about closures.
Assumed: finitely many files, readings over their identities, well-formed
requests.

**`StoresProofs`.** Records: a row is under its own key and no older than what
was said under it, in the unit its store compares by (`NewestInv`); an ordered
upsert keeps that in any order of calls because parsed stamps are ordered as
numbers. This is where the fallback to text, which is not transitive, is ruled
out. Keys: a key may be filled in late, so `KeyInv` says of every pending update
that its row is there and, unless somebody wrote the row meanwhile, is still what
the update was read from or what it will make of it; the row then says after the
update what it said before (`FilledSays`). Watermarks: an upsert compares the
start of two runs that it looks up each time, so the argument needs that ids
are unique and that no later call changes when a run started (`RunsKept`); the
row of a key is then the last mark of the run that started last (`Stands`). A
mark of a run without a row is dated by its own time once and as the oldest ever
after, which is why such marks are excluded.

Agreement (`AgreeInv`) has a part for each group of tables. Runs, their progress
and evidence are written alike, so the tables are equal. Rows of records and
seeds are equal under a key of which no two records share a microsecond
(`TablesAlike`): there the two orders are one (`ClearOrder`), and a key becomes
less clear with every record, never more. The updates that wait for such a key
must be the same on both sides too, or a late one would part the rows. Watermarks
add that the start of every run is a stamp that somebody passed, and that a
writer without a run compares by text in both. Promotions are the same set, and
the same list until one is written again (`PromotionInv`). What is left are the
listings. Of an order that is strict on a finite set of rows, the places are the
numbers from 1, each taken once (`PlacesAre`), so a listing is determined by its
rows and its order (`BothInOrder`), has every row, and is newest first
(`NewestIs`).

**`EvidenceProofs`.** The assumption is `CaseAssumption`: tables, contracts and
policies are of their types, and rows have a value for what the model names.

First what a comparison finds. The columns that the comparison of two tables,
that of two contracts and the planner call breaking are each characterised in
the terms of the two schemas (`PhysicalBreaks`, `StatedBreaks`,
`PlannerBreaks`), and the three then differ only where `BreaksAreSeen` says they
do. The counts of a data diff are counts of pairs of rows that a join made;
where a key identifies rows, each such pair is one key, so the sets have the same
size (`AsMany`, `CountsAre`). The columns listed come from another join, which
drops keys with a NULL (`ColumnsAre`). With both, `ReportIsSound`: a report without
breaking columns, of two relations, is right about the columns of the two
branches as they were, and about their rows if it passed.

Then where reports go. A report is only worth something for the heads that it
names, and branches never go back, so `Proven` says of a report what it proves at
those commits, whatever they are now. `EvidenceInv` says that every report on
file, in the store or in the hands of a machine is `Proven`; that a row of the
store has the pair and the stamp of what it holds; that what a task has listed is
still in the store, since only bindings are removed; and that a number a task
holds for a row it may yet add is used by no other, or an import would be taken
for done and named under a record of somebody else's. `StepIs` reduces each
action to what it does to the things of one machine. An audit then finds a report
that is proven of the heads it audits (`JudgedIs`, `SoundIs`), and of those
listed the newest, because a listing is in the order of instants (`ListedIs`,
`WeighIs`, `ChosenIs`).

Last, bindings. Provisions, removals and imports of several machines overlap, and
what `BindingStands` says of the newest row is not inductive: `BindingInv` adds,
where no clock is behind, what each machine may still do to it. A row is as old
as the call that made it, and a candidate has one row of a call; a row that a
provision made is older than the last word about its candidate (`LastInv`), so a
provision that began after that word finds nothing newer but imports of others
(`LastProvisioned`). A machine that had the last word, of a candidate without a
row, has no file for it (`Cleared`), nor has it while it holds a task that found
none (`TaskBinds`); hence no machine imports what it removed itself
(`ImportBinds`). `OneStepIs` shows that what the other machines know stays, as a
machine takes itself alone into the last word, and only a removal empties the
rows of a candidate.

**Only model-checked.** `CancelHonoured`, `Terminates`, `GateIsFreed` and
`AcknowledgedEnds` are liveness under fairness, which the prover does not
reach. The three properties of `Lineage` and the two of `Changes` are about
recursive functions on syntax trees and about the closure of a change, which
needs induction over data.

## 16. Where the code and its documentation disagree

- `PlanningEphemeral`, a run: a model that reads a table only through an
  ephemeral model neither waits for it nor is blocked by its failure
  (`engine/run.rs:960`; `docs/engine.md:212`, 228).

Met while modelling and proving, and visible in the models as the exceptions of
properties or in their actions:

*Runs and state.*

- A finished operation is shown as interrupted after the second restart
  (`daemon/operations.rs:349`; `docs/daemon.md:186`). That is why
  `FirstRestartKeepsHistory` is about the first.
- Interleaved appends can spoil a reservation, and its key is then accepted twice
  (`daemon/operations.rs:391`; the comment at 411).
- A run killed after its model passed and resumed ends without a record of that
  model (`engine/run.rs:995`, 1826; `docs/state.md:143`).
- A cancel during the tests leaves them cancelled and the run passed
  (`engine/run.rs:1803`; `docs/engine.md:285`). A cancel during a seed load or a
  test is looked at when that statement returns (`run.rs:938`).
- The attempts on record are wiped when a resumed model is dispatched
  (`run.rs:1965`), and when it ends as cancelled, blocked or skipped (`run.rs:1766`),
  although "a process killed mid-retry still shows the attempts it made"
  (`docs/state.md:216`) and "attempt numbering and the attempt list continue across
  invocations" (the comment at `run.rs:1322`). Killed or cancelled at the right time, a model gets
  `MaxAttempts` again in every invocation: `RetryBudget` has that as its first bound.
  A resume plans without the `--force` of the original run (`run.rs:655`).
- A cancel ends the run only when the warehouse has answered the driver's own
  questions, for which no limit is set (`run.rs:1508`, 1628, 1665, 2617).
- A statement that completes at the warehouse after its task was aborted is
  recorded as cancelled (`docs/engine.md:287`).
- A writer between a build and the separate call that captures its identity is
  recorded as the output of the build (`run.rs:1508`; `docs/state.md:143`). Of two
  runs that captured no identity the one that finishes last wins, also when it
  built first (`docs/state.md:155`).

*Incremental models and branches.*

- A rollback moves the reference and leaves the watermark; the next append starts
  behind rows that are gone (`cli/main.rs:1742`; `docs/roadmap/05-nessie-wap.md:339`).
- A time-window append whose completion is joined by the drain does not advance
  its watermark (`run.rs:1637`; `docs/incremental.md:59`), and a failed `max()`
  query is ignored (`run.rs:2616`): the rows are appended again. The default
  environment and main share a table, and each has a watermark of its own. An
  adoption copies the watermark its source label has at that time (`run.rs:1142`).
- The snapshot between a DELETE and its INSERT can be recorded by a run side by
  side with it, and adopted by a branch cut there: the model is then skipped with
  rows missing (met when proving `SkippedIsComplete`).
- The record of where a candidate was cut survives the branch. If the branch is
  made again behind main, a promotion without an audit takes for its base a commit
  the branch does not contain (met when proving `ProvenanceHolds`).
- The output of a failed run is promoted after a later run with `--select` passed.

*Plans, SQL, change sets.*

- Excluding an ephemeral model drops what it reads from the plan without a check
  (`engine/plan.rs:522`), although `SPEC.md:1018` says it is always fine.
  `--exclude +x+` also removes dependents of the ancestors of `x`.
- The names of CTEs are known before their queries are visited, so a CTE that
  shadows the table it reads hides that dependency, and the version does not
  change with it (`crates/phlo-transform-sql/src/relations.rs:107`;
  `docs/state.md:28`). `VersionTellsOutput` excepts this case by name.
- A column computed with a FILTER clause counts as `exact` although the clause is
  not read (`core/analyze.rs:946`; `docs/semantic.md:61`, `docs/lineage.md:80`, 106).
  Assertions never enter a version (`core/compile.rs:359`; `docs/state.md:27`).
- A pin added to a model leaves its old identity unreported, so a reader whose
  name now means another model is missed (`core/git.rs:996`; `docs/engine.md:374`).
  The same holds for a deletion after which the name resolves to another model,
  for a namespace changed in `transform.toml` and readers elsewhere, and for names
  resolved inside a root. A moved pin is reported as deleted, and a moved pinned
  model as changed although its identity was kept (`git.rs:1010`);
  but a model pinned to what its old path stood for is not reported when it is
  moved, although its names may now mean other models.

*Stores.*

- Postgres compares stamps by the microsecond, SQLite by the nanosecond, although
  a comment says they match (`engine/state_postgres.rs:393`). LIKE ignores case
  only in SQLite. A hash nobody recorded has an empty entry in one store and none
  in the other. Promotions recorded twice may be listed in another order.
- An opening process fills in the keys of old rows from what it read before other
  processes wrote them (`engine/state.rs:733`, `state_postgres.rs:476`; the comment
  at `state.rs:1133`).
- The fallback of `cmp_rfc3339` to text is not transitive. A watermark written by
  hand has no row in `runs`, and loses to any other.

*Evidence and comparisons.*

- Lineage evidence of another pair of references can be accepted as advisory
  (`engine/audit.rs:1098`; the comment at 1037), and lineage that is "current" does
  not notice that its Git base moved.
- A failed read of the target counts as an absent table or as no columns
  (`engine/branch_diff.rs:382`, 627). A candidate that shares the tables of its
  target is noticed only if rows are compared. Datasets that were removed, and
  rows under an unchanged version, are never compared; a changed model without a
  key and without a policy passes.
- Narrowed numbers are for review in one comparison and breaking in two others;
  types with unknown names compare as equal. Columns missing from an open
  contract, and a rename declared before, hide a removal; a rename is not seen
  while the old column still exists.
- A row whose first key column is NULL counts as added and as removed. A change in
  a row whose key has a NULL elsewhere is counted but listed under no column:
  `keyed_counts` joins with IS NOT DISTINCT FROM, `column_changed` with `=`
  (`engine/diff.rs:304`, 347). Values that concatenate alike fall into one
  partition.
- A leftover `environment_*.json` of another machine revives a removed binding,
  and its import may outrank a provision it races. Clocks of machines decide the
  order. Two different reports of one stamp count as one, and an unchanged report
  keeps its stamp.

## 17. Not modelled

Within the components above: `retry_failed`; decisions about seeds (they follow
the order of model records); reload, watcher and panics of the daemon; a crash
between a merge and the record of the promotion, which no later decision reads;
pinned catalogs; the Postgres worker, a lost connection, two processes that
create its schema at once; two processes that share the files of one machine;
fingerprint and sampled diffs, relative tolerances; the rewriting of SQL.

The dbt translation, OpenLineage events, output formats and most of the command
line are sequential translations of text: their correctness is about formats
and grammars, not about orders of steps, and tests with examples reach it better
than a model.
