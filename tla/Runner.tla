------------------------------- MODULE Runner -------------------------------
(***************************************************************************)
(* The run driver of the engine: `Runner::execute` in                      *)
(* crates/phlo-transform-engine/src/run.rs, with the state it persists     *)
(* (state.rs), cooperative cancellation (cancel.rs), the retry policy      *)
(* (failure.rs) and `--resume` after a kill or a cancellation.             *)
(*                                                                         *)
(* One behaviour is the life of one run id: a first invocation, and up to  *)
(* MaxEpochs - 1 resumed ones.  The scheduler is one task (variable pc is  *)
(* the place it has reached); each dispatched model is a task of its own,  *)
(* which the warehouse answers at any time.                                *)
(***************************************************************************)
EXTENDS Naturals, FiniteSets

CONSTANTS
    Models,       \* the planned models
    Seeds,        \* the planned seeds
    Tests,        \* the planned tests
    Deps,         \* Deps[m]: the planned models m reads
    Reads,        \* Reads[m]: the planned seeds m reads
    Covers,       \* Covers[t]: the planned models test t is about
    TestReads,    \* TestReads[t]: the planned seeds test t reads
    Plans,        \* the model actions a first plan may hold
    SeedPlans,    \* the seed actions a first plan may hold
    Concurrency,  \* RunOptions.concurrency (at least 1)
    MaxAttempts,  \* RetryPolicy::max_attempts, that is 1 + retries
    MaxEpochs,    \* bound: invocations of this run id
    MaxDrops      \* bound: relations somebody else drops between invocations

PlanAction == {"build", "skip", "cached"}

ASSUME FiniteAssumption ==
    /\ IsFiniteSet(Models)
    /\ IsFiniteSet(Seeds)
    /\ IsFiniteSet(Tests)
ASSUME GraphAssumption ==
    /\ Deps \in [Models -> SUBSET Models]
    /\ Reads \in [Models -> SUBSET Seeds]
    /\ Covers \in [Tests -> SUBSET Models]
    /\ TestReads \in [Tests -> SUBSET Seeds]
\* ModelId and SeedId are different types.
ASSUME DisjointAssumption == Models \cap Seeds = {}
\* The compiler rejects a dependency cycle, so every set of models has one
\* that reads none of the others.
ASSUME AcyclicAssumption ==
    \A S \in SUBSET Models : S # {} => \E m \in S : Deps[m] \cap S = {}
ASSUME PlanAssumption ==
    /\ Plans \subseteq [Models -> PlanAction]
    /\ SeedPlans \subseteq [Seeds -> {"build", "skip"}]
ASSUME BoundAssumption ==
    /\ Concurrency \in Nat \ {0}
    /\ MaxAttempts \in Nat \ {0}
    /\ MaxEpochs \in Nat \ {0}
    /\ MaxDrops \in Nat

VARIABLES
    pc,         \* where the scheduler is; "down" after a kill
    failFast,   \* RunOptions.fail_fast of this invocation
    stopReq,    \* the CancelHandle's flag
    cancelled,  \* execute()'s local `cancelled`
    aborting,   \* execute()'s local `fail_fast`
    plan,       \* plan_info[m].action
    seedPlan,   \* the planned seeds' actions
    seedStatus, \* seed_results
    status,     \* execute()'s status map
    remaining,  \* its count of unreleased dependencies
    ready,      \* its ready queue (order abstracted)
    task,       \* the spawned task of each model
    tries,      \* attempts known to this invocation, earlier ones included
    testStatus, \* the results of run_tests
    noted,      \* models the closing record loop is past

    runRow,     \* runs.status
    rec,        \* model_runs.status
    recTries,   \* the length of model_runs.attempts_json
    seedRec,    \* seed_runs.status
    recorded,   \* models whose model_versions row is at the desired version

    rel,        \* the physical relation: "absent", "old", or this run's "new"
    orphan,     \* models with a statement alive that no task waits for
    epoch,      \* invocations so far
    dropped,    \* relations somebody else dropped so far
    made,       \* history: the statements sent for a model so far
    short       \* history: models for which an invocation began with fewer
                \* attempts on record than had been made

sched    == <<pc, failFast, stopReq, cancelled, aborting>>
planVars == <<plan, seedPlan>>
work     == <<status, remaining, ready, task, tries>>
durable  == <<runRow, rec, recTries, seedRec, recorded>>
physical == <<rel, orphan>>
bounds   == <<epoch, dropped>>
history  == <<made, short>>
vars == <<sched, planVars, seedStatus, work, testStatus, noted, durable,
          physical, bounds, history>>

-----------------------------------------------------------------------------
Status == {"pending", "running", "passed", "failed", "skipped", "cached",
           "blocked", "cancelled"}

\* ExecutionStatus::is_terminal and is_satisfied.
Terminal  == {"passed", "failed", "skipped", "cached", "blocked", "cancelled"}
Satisfied == {"passed", "skipped", "cached"}

Phase == {"seeds", "prep", "block", "top", "dispatch", "select", "drain",
          "tests", "record", "over", "down"}
Active == Phase \ {"over", "down"}
Live == {"exec", "backoff", "ok", "err"}

TypeOK ==
    /\ pc \in Phase
    /\ failFast \in BOOLEAN /\ stopReq \in BOOLEAN
    /\ cancelled \in BOOLEAN /\ aborting \in BOOLEAN
    /\ plan \in [Models -> PlanAction]
    /\ seedPlan \in [Seeds -> {"build", "skip"}]
    /\ seedStatus \in [Seeds -> Status]
    /\ status \in [Models -> Status]
    /\ remaining \in [Models -> Nat]
    /\ ready \in SUBSET Models
    /\ task \in [Models -> Live \cup {"none"}]
    /\ tries \in [Models -> Nat]
    /\ testStatus \in [Tests -> Status]
    /\ noted \in SUBSET Models
    /\ runRow \in {"running", "passed", "failed", "cancelled"}
    /\ rec \in [Models -> Status]
    /\ recTries \in [Models -> Nat]
    /\ seedRec \in [Seeds -> Status]
    /\ recorded \in SUBSET Models
    /\ rel \in [Models -> {"absent", "old", "new"}]
    /\ orphan \in SUBSET Models
    /\ epoch \in 1..MaxEpochs
    /\ dropped \in SUBSET Models
    /\ made \in [Models -> Nat]
    /\ short \in SUBSET Models

Inflight == {m \in Models : task[m] \in Live}
Stopped == cancelled \/ aborting
Dependents(m) == {c \in Models : m \in Deps[c]}

\* release_dependents: each planned dependent waits for one model less.
Release(m) == [c \in Models |-> IF c \in Dependents(m) /\ remaining[c] > 0
                                THEN remaining[c] - 1 ELSE remaining[c]]

\* block_dependents: the unfinished models reached from m through unfinished
\* models, that is the least set that holds m's unfinished dependents and is
\* closed under the unfinished dependents of its members.
Blockable(m) == {c \in Dependents(m) : status[c] \notin Terminal}
Cone(m) ==
    {x \in Models : \A S \in SUBSET Models :
        (/\ Blockable(m) \subseteq S
         /\ \A c \in S : Blockable(c) \subseteq S) => x \in S}

\* status after m ends as s and (where it does not release its dependents)
\* blocks everything downstream of it.
Ended(m, s) == [status EXCEPT ![m] = s]
EndedBlocking(m, s) ==
    [c \in Models |-> IF c = m THEN s
                      ELSE IF c \in Cone(m) THEN "blocked" ELSE status[c]]

\* persist_model: the rows of the models in S are replaced, attempts included.
Persist(S, s, n) ==
    /\ rec' = [m \in Models |-> IF m \in S THEN s[m] ELSE rec[m]]
    /\ recTries' = [m \in Models |-> IF m \in S THEN n[m] ELSE recTries[m]]
OnlyTries(m) == [c \in Models |-> IF c = m THEN tries[m] ELSE 0]
NoTries == [m \in Models |-> 0]

FailedSeeds == {s \in Seeds : seedStatus[s] = "failed"}
ReadsFailedSeed(m) == Reads[m] \cap FailedSeeds # {}
\* Variant: any pending model, whatever it waits for.
Runnable_Pending(m) == status[m] = "pending"
Runnable(m) == remaining[m] = 0 /\ status[m] = "pending"

\* What an invocation forgets when it ends, and starts the next one with.
Forget ==
    /\ stopReq' = FALSE /\ cancelled' = FALSE /\ aborting' = FALSE
    /\ seedStatus' = [s \in Seeds |-> "pending"]
    /\ status' = [m \in Models |-> "pending"]
    /\ remaining' = [m \in Models |-> Cardinality(Deps[m])]
    /\ ready' = {}
    /\ task' = [m \in Models |-> "none"]
    /\ testStatus' = [t \in Tests |-> "pending"]
    /\ noted' = {}

Init ==
    /\ pc = "seeds"
    /\ failFast \in BOOLEAN
    /\ stopReq = FALSE /\ cancelled = FALSE /\ aborting = FALSE
    /\ plan \in Plans
    /\ seedPlan \in SeedPlans
    /\ seedStatus = [s \in Seeds |-> "pending"]
    /\ status = [m \in Models |-> "pending"]
    /\ remaining = [m \in Models |-> Cardinality(Deps[m])]
    /\ ready = {}
    /\ task = [m \in Models |-> "none"]
    /\ tries = NoTries
    /\ testStatus = [t \in Tests |-> "pending"]
    /\ noted = {}
    /\ runRow = "running"
    /\ rec = [m \in Models |-> "pending"]
    /\ recTries = NoTries
    /\ seedRec = [s \in Seeds |-> "pending"]
    /\ recorded = {m \in Models : plan[m] = "skip"}
    /\ rel \in [Models -> {"absent", "old"}]
    /\ \A m \in Models : plan[m] # "build" => rel[m] = "old"
    /\ orphan = {}
    /\ epoch = 1
    /\ dropped = {}
    /\ made = NoTries
    /\ short = {}

-----------------------------------------------------------------------------
(***************************************************************************)
(* Seeds: one after the other, before any model.                           *)
(***************************************************************************)
SeedIdle == \A s \in Seeds : seedStatus[s] # "running"

\* A seed after the stop: not started.
CancelSeed(s) ==
    /\ pc = "seeds" /\ SeedIdle /\ seedStatus[s] = "pending"
    /\ Stopped
    /\ seedStatus' = [seedStatus EXCEPT ![s] = "cancelled"]
    /\ seedRec' = [seedRec EXCEPT ![s] = "cancelled"]
    /\ UNCHANGED <<sched, planVars, work, testStatus, noted, runRow, rec,
                   recTries, recorded, physical, bounds, history>>

\* A seed that is not loaded: reused if this run loaded it before (its record
\* stays), skipped otherwise.
SkipSeed(s) ==
    /\ pc = "seeds" /\ SeedIdle /\ seedStatus[s] = "pending"
    /\ ~Stopped /\ seedPlan[s] = "skip"
    /\ \/ /\ seedRec[s] = "passed"
          /\ seedStatus' = [seedStatus EXCEPT ![s] = "cached"]
          /\ UNCHANGED seedRec
       \/ /\ seedRec[s] # "passed"
          /\ seedStatus' = [seedStatus EXCEPT ![s] = "skipped"]
          /\ seedRec' = [seedRec EXCEPT ![s] = "skipped"]
    /\ UNCHANGED <<sched, planVars, work, testStatus, noted, runRow, rec,
                   recTries, recorded, physical, bounds, history>>

StartSeed(s) ==
    /\ pc = "seeds" /\ SeedIdle /\ seedStatus[s] = "pending"
    /\ ~Stopped /\ seedPlan[s] = "build"
    /\ seedStatus' = [seedStatus EXCEPT ![s] = "running"]
    /\ UNCHANGED <<sched, planVars, work, testStatus, noted, durable,
                   physical, bounds, history>>

\* The load (its retries folded in) answers; only now does the driver look at
\* fail-fast and at the cancel flag.
EndSeed(s, end) ==
    /\ pc = "seeds" /\ seedStatus[s] = "running"
    /\ seedStatus' = [seedStatus EXCEPT ![s] = end]
    /\ seedRec' = [seedRec EXCEPT ![s] = end]
    /\ aborting' = (aborting \/ (end = "failed" /\ failFast))
    /\ cancelled' = (cancelled \/ stopReq)
    /\ UNCHANGED <<pc, failFast, stopReq, planVars, work, testStatus, noted,
                   runRow, rec, recTries, recorded, physical, bounds, history>>

SeedsDone ==
    /\ pc = "seeds"
    /\ \A s \in Seeds : seedStatus[s] \in Terminal
    /\ pc' = "prep"
    /\ UNCHANGED <<failFast, stopReq, cancelled, aborting, planVars, seedStatus,
                   work, testStatus, noted, durable, physical,
                   bounds, history>>

-----------------------------------------------------------------------------
(***************************************************************************)
(* Models that are not built, then models a failed seed blocks.            *)
(***************************************************************************)
\* PriorRun::reusable_model for a model whose relation existed when the run
\* was planned: resume_plan turned exactly those into a skip.
Reusable(m) == rec[m] = "passed" /\ plan[m] = "skip"

Reuse(m) ==
    /\ pc = "prep" /\ status[m] = "pending" /\ Reusable(m)
    /\ status' = Ended(m, "cached")
    /\ remaining' = Release(m)
    /\ UNCHANGED <<sched, planVars, seedStatus, ready, task, tries, testStatus,
                   noted, durable, physical, bounds, history>>

SkipModel(m) ==
    /\ pc = "prep" /\ status[m] = "pending" /\ ~Reusable(m)
    /\ plan[m] = "skip"
    /\ status' = Ended(m, "skipped")
    /\ remaining' = Release(m)
    /\ Persist({m}, status', NoTries)
    /\ UNCHANGED <<sched, planVars, seedStatus, ready, task, tries, testStatus,
                   noted, runRow, seedRec, recorded, physical,
                   bounds, history>>

\* A cache adoption is verified again at run time: adopted and recorded, or
\* turned back into a build.
AdoptCached(m) ==
    /\ pc = "prep" /\ status[m] = "pending" /\ plan[m] = "cached"
    /\ status' = Ended(m, "cached")
    /\ remaining' = Release(m)
    /\ Persist({m}, status', NoTries)
    /\ recorded' = recorded \cup {m}
    /\ UNCHANGED <<sched, planVars, seedStatus, ready, task, tries, testStatus,
                   noted, runRow, seedRec, physical, bounds, history>>

RefuseCached(m) ==
    /\ pc = "prep" /\ status[m] = "pending" /\ plan[m] = "cached"
    /\ plan' = [plan EXCEPT ![m] = "build"]
    /\ UNCHANGED <<sched, seedPlan, seedStatus, work, testStatus, noted, durable,
                   physical, bounds, history>>

PrepDone ==
    /\ pc = "prep"
    /\ \A m \in Models : status[m] = "pending" => plan[m] = "build"
    /\ pc' = "block"
    /\ UNCHANGED <<failFast, stopReq, cancelled, aborting, planVars, seedStatus,
                   work, testStatus, noted, durable, physical,
                   bounds, history>>

BlockReader(m) ==
    /\ pc = "block" /\ status[m] = "pending" /\ ReadsFailedSeed(m)
    /\ status' = EndedBlocking(m, "blocked")
    /\ Persist({m} \cup Cone(m), status', NoTries)
    /\ UNCHANGED <<sched, planVars, seedStatus, remaining, ready, task, tries,
                   testStatus, noted, runRow, seedRec, recorded, physical,
                   bounds, history>>

BlockDone ==
    /\ pc = "block"
    /\ \A m \in Models : status[m] = "pending" => ~ReadsFailedSeed(m)
    /\ pc' = "top"
    /\ ready' = {m \in Models : Runnable(m)}
    /\ UNCHANGED <<failFast, stopReq, cancelled, aborting, planVars, seedStatus,
                   status, remaining, task, tries, testStatus, noted, durable,
                   physical, bounds, history>>

-----------------------------------------------------------------------------
(***************************************************************************)
(* The main loop.                                                          *)
(***************************************************************************)
\* while inflight > 0 || !ready.is_empty(): break on a stop, observe the
\* handle, or dispatch.
LoopTop ==
    /\ pc = "top"
    /\ LET more == Inflight # {} \/ ready # {} IN
       /\ cancelled' = (cancelled \/ (more /\ ~Stopped /\ stopReq))
       /\ pc' = IF more /\ ~Stopped /\ ~stopReq THEN "dispatch" ELSE "drain"
    /\ UNCHANGED <<failFast, stopReq, aborting, planVars, seedStatus, work,
                   testStatus, noted, durable, physical, bounds, history>>

\* persist_model_start writes a fresh running row, then the task is spawned.
Dispatch(m) ==
    /\ pc = "dispatch" /\ m \in ready
    /\ Cardinality(Inflight) < Concurrency
    /\ ready' = ready \ {m}
    /\ status' = Ended(m, "running")
    /\ Persist({m}, status', NoTries)
    /\ task' = [task EXCEPT ![m] = "exec"]
    /\ made' = [made EXCEPT ![m] = @ + 1]
    /\ UNCHANGED <<sched, planVars, seedStatus, remaining, tries, testStatus,
                   noted, runRow, seedRec, recorded, physical, bounds, short>>

\* Variant: a batch is full or it waits for more.
DispatchDone_Full ==
    /\ pc = "dispatch" /\ Cardinality(Inflight) >= Concurrency
    /\ pc' = "select"
    /\ UNCHANGED <<failFast, stopReq, cancelled, aborting, planVars, seedStatus,
                   work, testStatus, noted, durable, physical,
                   bounds, history>>

DispatchDone ==
    /\ pc = "dispatch"
    /\ ready = {} \/ Cardinality(Inflight) >= Concurrency
    /\ pc' = IF ready = {} /\ Inflight = {} THEN "drain" ELSE "select"
    /\ UNCHANGED <<failFast, stopReq, cancelled, aborting, planVars, seedStatus,
                   work, testStatus, noted, durable, physical,
                   bounds, history>>

\* Variant: the handle is looked at only between completions.
SelectCancel_Idle ==
    /\ pc = "select" /\ stopReq /\ Inflight = {}
    /\ cancelled' = TRUE /\ pc' = "drain"
    /\ UNCHANGED <<failFast, stopReq, aborting, planVars, seedStatus, work,
                   testStatus, noted, durable, physical, bounds, history>>

\* The other arm of the select!: the handle fires.
SelectCancel ==
    /\ pc = "select" /\ stopReq
    /\ cancelled' = TRUE
    /\ pc' = "drain"
    /\ UNCHANGED <<failFast, stopReq, aborting, planVars, seedStatus, work,
                   testStatus, noted, durable, physical, bounds, history>>

JoinPassed(m) ==
    /\ pc = "select" /\ task[m] = "ok"
    /\ pc' = "top"
    /\ task' = [task EXCEPT ![m] = "none"]
    /\ status' = Ended(m, "passed")
    /\ Persist({m}, status', tries)
    /\ remaining' = Release(m)
    /\ ready' = ready \cup {c \in Dependents(m) :
                             remaining'[c] = 0 /\ status'[c] = "pending"}
    /\ UNCHANGED <<failFast, stopReq, cancelled, aborting, planVars, seedStatus,
                   tries, testStatus, noted, runRow, seedRec, recorded,
                   physical, bounds, history>>

\* A failure blocks everything downstream of it; under --fail-fast it stops
\* the run too.
JoinFailed(m) ==
    /\ pc = "select" /\ task[m] = "err"
    /\ pc' = "top"
    /\ task' = [task EXCEPT ![m] = "none"]
    /\ status' = EndedBlocking(m, "failed")
    /\ Persist({m} \cup Cone(m), status', OnlyTries(m))
    /\ aborting' = (aborting \/ failFast)
    /\ ready' = IF failFast THEN {} ELSE ready
    /\ UNCHANGED <<failFast, stopReq, cancelled, planVars, seedStatus,
                   remaining, tries, testStatus, noted, runRow, seedRec,
                   recorded, physical, bounds, history>>

-----------------------------------------------------------------------------
(***************************************************************************)
(* A model's task: one statement at a time, retried with a backoff.        *)
(***************************************************************************)
\* The statement succeeds; the result is not on record until it is joined.
AttemptOk(m) ==
    /\ task[m] = "exec"
    /\ tries' = [tries EXCEPT ![m] = @ + 1]
    /\ rel' = [rel EXCEPT ![m] = "new"]
    /\ task' = [task EXCEPT ![m] = "ok"]
    /\ UNCHANGED <<sched, planVars, seedStatus, status, remaining, ready,
                   testStatus, noted, durable, orphan, bounds, history>>

\* Variant: retries counted from zero in every attempt loop.
AttemptFail_Uncounted(m, retryable, effect) ==
    /\ task[m] = "exec" /\ tries[m] <= MaxAttempts + MaxEpochs
    /\ tries' = [tries EXCEPT ![m] = @ + 1]
    /\ rel' = [rel EXCEPT ![m] = effect]
    /\ Persist({m}, [rec EXCEPT ![m] = "running"], tries')
    /\ task' = [task EXCEPT ![m] =
           IF retryable /\ ~stopReq THEN "backoff" ELSE "err"]
    /\ UNCHANGED <<sched, planVars, seedStatus, status, remaining, ready,
                   testStatus, noted, runRow, seedRec, recorded, orphan,
                   bounds, history>>

\* It fails, perhaps between the DROP and the CREATE of a replacement, and the
\* attempt is on record before the backoff.  RetryPolicy::should_retry.
AttemptFail(m, retryable, effect) ==
    /\ task[m] = "exec"
    /\ tries' = [tries EXCEPT ![m] = @ + 1]
    /\ rel' = [rel EXCEPT ![m] = effect]
    /\ Persist({m}, [rec EXCEPT ![m] = "running"], tries')
    /\ task' = [task EXCEPT ![m] =
           IF retryable /\ tries'[m] < MaxAttempts /\ ~stopReq
           THEN "backoff" ELSE "err"]
    /\ UNCHANGED <<sched, planVars, seedStatus, status, remaining, ready,
                   testStatus, noted, runRow, seedRec, recorded, orphan,
                   bounds, history>>

Retry(m) ==
    /\ task[m] = "backoff"
    /\ task' = [task EXCEPT ![m] = "exec"]
    /\ made' = [made EXCEPT ![m] = @ + 1]
    /\ UNCHANGED <<sched, planVars, seedStatus, status, remaining, ready, tries,
                   testStatus, noted, durable, physical, bounds, short>>

\* A statement whose task is gone lands in the warehouse after all.
OrphanLands(m) ==
    /\ m \in orphan
    /\ orphan' = orphan \ {m}
    /\ rel' = [rel EXCEPT ![m] = "new"]
    /\ UNCHANGED <<sched, planVars, seedStatus, work, testStatus, noted,
                   durable, bounds, history>>

-----------------------------------------------------------------------------
(***************************************************************************)
(* Shutdown: join what completed, abort the rest, classify, test, record.  *)
(***************************************************************************)
DrainPassed(m) ==
    /\ pc = "drain" /\ task[m] = "ok"
    /\ task' = [task EXCEPT ![m] = "none"]
    /\ status' = Ended(m, "passed")
    /\ Persist({m}, status', tries)
    /\ remaining' = Release(m)
    /\ UNCHANGED <<sched, planVars, seedStatus, ready, tries, testStatus, noted,
                   runRow, seedRec, recorded, physical, bounds, history>>

DrainFailed(m) ==
    /\ pc = "drain" /\ task[m] = "err"
    /\ task' = [task EXCEPT ![m] = "none"]
    /\ status' = EndedBlocking(m, "failed")
    /\ Persist({m} \cup Cone(m), status', OnlyTries(m))
    /\ UNCHANGED <<sched, planVars, seedStatus, remaining, ready, tries,
                   testStatus, noted, runRow, seedRec, recorded, physical,
                   bounds, history>>

\* abort_all drops the task at its await.  The statement it was waiting for
\* may be alive still (survives): cancelling it is best effort.
DrainAbort(m, survives) ==
    /\ pc = "drain" /\ Stopped
    /\ task[m] \in {"exec", "backoff"}
    /\ survives => task[m] = "exec"
    /\ task' = [task EXCEPT ![m] = "none"]
    /\ orphan' = IF survives THEN orphan \cup {m} ELSE orphan
    /\ UNCHANGED <<sched, planVars, seedStatus, status, remaining, ready, tries,
                   testStatus, noted, durable, rel, bounds, history>>

Classify(m) ==
    /\ pc = "drain" /\ Inflight = {}
    /\ status[m] \notin Terminal
    /\ status' = Ended(m, IF Stopped THEN "cancelled" ELSE "blocked")
    /\ Persist({m}, status', NoTries)
    /\ UNCHANGED <<sched, planVars, seedStatus, remaining, ready, task, tries,
                   testStatus, noted, runRow, seedRec, recorded, physical,
                   bounds, history>>

DrainDone ==
    /\ pc = "drain" /\ Inflight = {}
    /\ \A m \in Models : status[m] \in Terminal
    /\ pc' = "tests"
    /\ UNCHANGED <<failFast, stopReq, cancelled, aborting, planVars, seedStatus,
                   work, testStatus, noted, durable, physical,
                   bounds, history>>

TestIdle == \A t \in Tests : testStatus[t] # "running"
TestReady(t) ==
    /\ \A m \in Covers[t] : status[m] \in Satisfied
    /\ TestReads[t] \cap FailedSeeds = {}

\* A test that is not started: cancelled on a stop, blocked when a model it
\* covers is not satisfied.
SkipTest(t) ==
    /\ pc = "tests" /\ TestIdle /\ testStatus[t] = "pending"
    /\ \/ /\ Stopped \/ stopReq
          /\ testStatus' = [testStatus EXCEPT ![t] = "cancelled"]
       \/ /\ ~(Stopped \/ stopReq) /\ ~TestReady(t)
          /\ testStatus' = [testStatus EXCEPT ![t] = "blocked"]
    /\ UNCHANGED <<sched, planVars, seedStatus, work, noted, durable, physical,
                   bounds, history>>

StartTest(t) ==
    /\ pc = "tests" /\ TestIdle /\ testStatus[t] = "pending"
    /\ ~(Stopped \/ stopReq) /\ TestReady(t)
    /\ testStatus' = [testStatus EXCEPT ![t] = "running"]
    /\ UNCHANGED <<sched, planVars, seedStatus, work, noted, durable, physical,
                   bounds, history>>

EndTest(t, end) ==
    /\ pc = "tests" /\ testStatus[t] = "running"
    /\ testStatus' = [testStatus EXCEPT ![t] = end]
    /\ UNCHANGED <<sched, planVars, seedStatus, work, noted, durable, physical,
                   bounds, history>>

TestsDone ==
    /\ pc = "tests"
    /\ \A t \in Tests : testStatus[t] \in Terminal
    /\ pc' = "record"
    /\ UNCHANGED <<failFast, stopReq, cancelled, aborting, planVars, seedStatus,
                   work, testStatus, noted, durable, physical,
                   bounds, history>>

\* record_materialized, one passed model after the other.
Record(m) ==
    /\ pc = "record" /\ m \notin noted /\ status[m] = "passed"
    /\ noted' = noted \cup {m}
    /\ recorded' = recorded \cup {m}
    /\ UNCHANGED <<sched, planVars, seedStatus, work, testStatus, runRow, rec,
                   recTries, seedRec, physical, bounds, history>>

AnyFailed ==
    \/ \E m \in Models : status[m] = "failed"
    \/ \E s \in Seeds : seedStatus[s] = "failed"
    \/ \E t \in Tests : testStatus[t] = "failed"
RunStatus == IF cancelled THEN "cancelled"
             ELSE IF AnyFailed THEN "failed" ELSE "passed"

FinishRun ==
    /\ pc = "record"
    /\ \A m \in Models : status[m] = "passed" => m \in noted
    /\ runRow' = RunStatus
    /\ pc' = "over"
    /\ UNCHANGED <<failFast, stopReq, cancelled, aborting, planVars, seedStatus,
                   work, testStatus, noted, rec, recTries, seedRec, recorded,
                   physical, bounds, history>>

-----------------------------------------------------------------------------
(***************************************************************************)
(* The world: cancellation, kills, somebody else's DROP, and --resume.     *)
(***************************************************************************)
Cancel ==
    /\ pc \in Active /\ ~stopReq
    /\ stopReq' = TRUE
    /\ UNCHANGED <<pc, failFast, cancelled, aborting, planVars, seedStatus, work,
                   testStatus, noted, durable, physical, bounds, history>>

\* The process dies; statements in the warehouse may go on.
Kill ==
    /\ pc \in Active
    /\ pc' = "down"
    /\ Forget
    /\ tries' = NoTries
    /\ \E alive \in SUBSET {m \in Models : task[m] = "exec"} :
           orphan' = orphan \cup alive
    /\ UNCHANGED <<failFast, planVars, durable, rel, bounds, history>>

\* resume accepts a run that is still running (after a kill) or cancelled.
Resumable == pc = "down" \/ (pc = "over" /\ runRow = "cancelled")

DropRelation(m) ==
    /\ Resumable /\ epoch < MaxEpochs
    /\ rel[m] # "absent" /\ Cardinality(dropped) < MaxDrops
    /\ rel' = [rel EXCEPT ![m] = "absent"]
    /\ dropped' = dropped \cup {m}
    /\ UNCHANGED <<sched, planVars, seedStatus, work, testStatus, noted,
                   durable, orphan, epoch, history>>

\* Variant: the target is not looked at again.
Replanned_NoTarget(m) ==
    IF rec[m] = "passed" \/ m \in recorded THEN {"skip"} ELSE {"build"}
\* resume_plan: the planner decides again against current state, and a model
\* that passed in this run and whose relation exists is a skip.
Replanned(m) ==
    IF rel[m] = "absent" THEN {"build"}
    ELSE IF rec[m] = "passed" \/ m \in recorded THEN {"skip"}
    ELSE IF plan[m] = "cached" THEN {"cached", "build"} ELSE {"build"}

Resume ==
    /\ Resumable /\ epoch < MaxEpochs
    /\ pc' = "seeds"
    /\ failFast' \in BOOLEAN
    /\ plan' \in [Models -> PlanAction]
    /\ \A m \in Models : plan'[m] \in Replanned(m)
    /\ seedPlan' = [s \in Seeds |-> IF seedRec[s] = "passed" THEN "skip"
                                    ELSE seedPlan[s]]
    /\ Forget
    /\ tries' = recTries
    /\ runRow' = "running"
    /\ epoch' = epoch + 1
    /\ short' = short \cup {m \in Models : recTries[m] < made[m]}
    /\ UNCHANGED <<rec, recTries, seedRec, recorded, physical, dropped, made>>

-----------------------------------------------------------------------------
Scheduler ==
    \/ \E s \in Seeds : CancelSeed(s) \/ SkipSeed(s) \/ StartSeed(s)
    \/ SeedsDone
    \/ \E m \in Models : \/ Reuse(m) \/ SkipModel(m)
                         \/ AdoptCached(m) \/ RefuseCached(m)
    \/ PrepDone
    \/ \E m \in Models : BlockReader(m)
    \/ BlockDone \/ LoopTop
    \/ \E m \in Models : Dispatch(m)
    \/ DispatchDone \/ SelectCancel
    \/ \E m \in Models : JoinPassed(m) \/ JoinFailed(m)
    \/ \E m \in Models : DrainPassed(m) \/ DrainFailed(m)
    \/ \E m \in Models, survives \in BOOLEAN : DrainAbort(m, survives)
    \/ \E m \in Models : Classify(m)
    \/ DrainDone
    \/ \E t \in Tests : SkipTest(t) \/ StartTest(t)
    \/ TestsDone
    \/ \E m \in Models : Record(m)
    \/ FinishRun

\* What the adapter answers: to a seed load, a test, a model's statement.
AnswerSeed(s) == \E end \in {"passed", "failed"} : EndSeed(s, end)
AnswerTest(t) == \E end \in {"passed", "failed"} : EndTest(t, end)
AnswerModel(m) ==
    \/ AttemptOk(m)
    \/ \E retryable \in BOOLEAN, effect \in {rel[m], "absent"} :
          AttemptFail(m, retryable, effect)

Task ==
    \/ \E s \in Seeds : AnswerSeed(s)
    \/ \E t \in Tests : AnswerTest(t)
    \/ \E m \in Models : AnswerModel(m) \/ Retry(m)

World ==
    \/ Cancel \/ Kill \/ Resume
    \/ \E m \in Models : OrphanLands(m) \/ DropRelation(m)

Next == Scheduler \/ Task \/ World

Spec == Init /\ [][Next]_vars

\* Where the driver itself may be waiting for the warehouse: it asks for the
\* identity of a reused output, of one just built (and its watermark), and
\* again before it is recorded, and it has statements cancelled.
Asking ==
    \E m \in Models :
        \/ pc = "prep" /\ status[m] = "pending" /\ plan[m] = "cached"
        \/ pc \in {"select", "drain"} /\ task[m] = "ok"
        \/ pc = "drain" /\ Stopped /\ task[m] \in {"exec", "backoff"}
        \/ pc = "record" /\ m \notin noted /\ status[m] = "passed"

\* The runtime runs the driver wherever it has nothing to wait for, and wakes a
\* task from its backoff.  Nothing makes the warehouse answer, a user cancel
\* or resume.
SchedulerFairness ==
    /\ WF_vars(~Asking /\ Scheduler)
    /\ \A m \in Models : WF_vars(Retry(m))
\* A warehouse that answers what the driver asks, for which there is no limit.
ReadFairness == WF_vars(Scheduler)
\* A warehouse that answers (or a --model-timeout that fires) in the loading of
\* a seed, a test, a model's statement.
AnswerFairness ==
    /\ \A s \in Seeds : WF_vars(AnswerSeed(s))
    /\ \A t \in Tests : WF_vars(AnswerTest(t))
    /\ \A m \in Models : WF_vars(AnswerModel(m))

FairSpec == Spec /\ SchedulerFairness

-----------------------------------------------------------------------------
(***************************************************************************)
(* Properties                                                              *)
(***************************************************************************)
\* A model has a task only while everything it reads is there: the models it
\* depends on passed, were skipped or reused, their relations exist, and its
\* seeds are loaded.  (release_dependents, block_dependents, the ready queue.)
RunsOnlyOnSatisfied ==
    \A m \in Inflight :
        /\ status[m] = "running"
        /\ \A d \in Deps[m] : status[d] \in Satisfied /\ rel[d] # "absent"
        /\ \A s \in Reads[m] : seedStatus[s] \in Satisfied

\* "blocked" always has a cause: the driver never gives up on a model whose
\* inputs are all good, which is what a lost wake-up of the ready queue or a
\* miscount of remaining dependencies would look like.
BlockedHasCause ==
    \A m \in Models : status[m] = "blocked" =>
        \/ \E d \in Deps[m] : status[d] \in {"failed", "blocked"}
        \/ ReadsFailedSeed(m)

\* The other way round: what reads a failed or blocked model, or a failed
\* seed, is itself blocked (or was not to be built), never run or cancelled.
BrokenInputPropagates ==
    \A m \in Models :
        (\/ \E d \in Deps[m] : status[d] \in {"failed", "blocked"}
         \/ pc \in {"top", "dispatch", "select", "drain", "tests", "record", "over"}
            /\ ReadsFailedSeed(m))
        => status[m] \in {"blocked", "skipped", "cached"}

\* docs/state.md: "A killed process therefore leaves an accurate partial
\* record".  A model on record as passed has the relation this run built,
\* whatever was killed, aborted or resumed since, until somebody drops it.
PassedIsBuilt ==
    \A m \in Models : rec[m] = "passed" => rel[m] = "new" \/ m \in dropped

\* A run on record as passed is whole: every model and seed of it is on record
\* as satisfied, and every relation is there.
PassedRunIsWhole ==
    runRow = "passed" =>
        /\ \A m \in Models : rec[m] \in Satisfied /\ rel[m] # "absent"
        /\ \A s \in Seeds : seedRec[s] \in Satisfied

\* The statements sent for a model over the life of a run.  Whatever becomes of
\* its records, an invocation sends no more than a retry policy allows.  And as
\* long as every invocation began with all of them on record, the earlier ones
\* count: each resumption adds at most the one that tells it whether to go on,
\* and the record of a model that passed, failed or waits for its next attempt
\* has them all.  (The rest of the records do not: a dispatch wipes what was
\* there, and so does an end as cancelled, blocked or skipped.)
RetryBudget ==
    \A m \in Models :
        /\ made[m] <= MaxAttempts * epoch
        /\ m \notin short =>
              /\ made[m] <= MaxAttempts + epoch - 1
              /\ (rec[m] \in {"passed", "failed"} \/ task[m] = "backoff") =>
                    recTries[m] = made[m]

\* A cancel that arrives while models run ends the run without any answer to
\* the statements under way, if the warehouse answers what the driver itself
\* asks.  (Not so during a seed load or a test, which the driver awaits to the
\* end.)
CancelHonoured ==
    ReadFairness =>
      ((stopReq /\ pc \in {"prep", "block", "top", "dispatch", "select", "drain"})
          ~> pc \in {"over", "down"})

\* If the warehouse answers, every invocation ends (or is killed).
Terminates ==
    AnswerFairness /\ ReadFairness => (pc \in Active ~> pc \in {"over", "down"})

-----------------------------------------------------------------------------
(***************************************************************************)
(* What a run promises: RunContract, seen through this mapping.            *)
(***************************************************************************)
Units == Models \cup Seeds
Needs == [u \in Units |-> IF u \in Models THEN Deps[u] \cup Reads[u] ELSE {}]

OutcomeOf(s) ==
    CASE s = "pending"    -> "waiting"
      [] s = "running"    -> "working"
      [] s \in Satisfied  -> "good"
      [] OTHER            -> s
UnitOutcome == [u \in Units |->
    OutcomeOf(IF u \in Models THEN status[u] ELSE seedStatus[u])]
\* A seed's table exists where the plan found it or this run loaded it.
Existing == {m \in Models : rel[m] # "absent"}
            \cup {s \in Seeds : seedPlan[s] = "skip" \/ seedRec[s] = "passed"}

Contract == INSTANCE RunContract WITH
    working <- pc \in Active,
    stopping <- Stopped,
    verdict <- runRow,
    outcome <- UnitOutcome,
    kept <- {m \in Models : rec[m] = "passed"},
    there <- Existing,
    lost <- dropped

\* Whatever the scheduler does step by step, and however invocations are
\* killed, cancelled and resumed, a run keeps its promises: work only on
\* inputs that are good and exist, one outcome per unit and invocation,
\* blocked exactly below a failure, a verdict that fits, and nothing built
\* again that passed and still exists.
ImplementsContract == Contract!Spec
=============================================================================
