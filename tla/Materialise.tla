----------------------------- MODULE Materialise -----------------------------
(***************************************************************************)
(* One model's content slot under concurrent runs: the planner's decision  *)
(* (build, skip or adopt), taken from records, existence and output        *)
(* identities read one after another (plan.rs), what the run does with it  *)
(* (run.rs), and the ordered record it leaves in the state store           *)
(* (state.rs), while other runs, other tools, catalog branches and edits   *)
(* move the relation and the workspace underneath.                         *)
(*                                                                         *)
(* A write of the relation makes a new snapshot.  The number of a snapshot *)
(* is its output identity; 0 is no identity, and no relation.              *)
(***************************************************************************)
EXTENDS Naturals, Sequences, FiniteSets

CONSTANTS
    Runs,        \* runs that may be under way at once
    Branches,    \* environments other than the default one and "main"
    Catalogs,
    Versions,    \* version hashes the workspace can compile to
    Unknown,     \* content written by something else
    MaxRuns,     \* bound: runs started
    MaxMoves     \* bound: edits, retargets, foreign changes of catalogs, runs
                 \* killed and reads of an identity that fail, together

ASSUME NameAssumption ==
    /\ {"default", "main"} \cap Branches = {}
    /\ Unknown \notin Versions
    /\ Versions # {} /\ Catalogs # {}
ASSUME BoundAssumption ==
    MaxRuns \in Nat /\ MaxMoves \in Nat

VARIABLES
    want,    \* the version the workspace compiles to
    bind,    \* the catalog each environment compiles to
    snap,    \* the snapshot each catalog holds
    holds,   \* the version each snapshot ever made was built from
    rows,    \* table model_versions, at most one row for an environment
    clock,   \* the time a run last finished at
    stage,   \* where each run is
    job,     \* what it was compiled for
    seen,    \* the evidence its planner has read so far
    reuse,   \* the record it is to adopt
    output,  \* its last build: the identity it captured, when it finished
    passed,  \* table model_runs: the version the run's model passed at
    intact,  \* runs whose target nobody wrote since they saw what it holds
    started, moves  \* how many so far

world   == <<want, bind, snap, holds>>
store   == <<rows, passed>>
process == <<stage, job, seen, reuse, output>>
bounds  == <<started, moves>>
vars == <<world, store, clock, process, intact, bounds>>

None == 0
Base == {"default", "main"}
Envs == Base \cup Branches
Snapshots == 0..Len(holds)

-----------------------------------------------------------------------------
Job == [env : Envs, version : Versions, target : Catalogs, resumed : BOOLEAN]

\* A MaterializedRecord.  own is history: whether the identity is that of the
\* snapshot its run wrote.
Row == [env : Envs, version : Versions, target : Catalogs, identity : Nat,
        at : Nat, ours : BOOLEAN, own : BOOLEAN]

NoEvidence == [exists |-> FALSE, current |-> {}, elsewhere |-> {}]
\* wrote is history: the snapshot the build made.
NoOutput == [wrote |-> None, captured |-> None, at |-> 0]

Planning == {"probe", "scope", "candidates", "decide"}
Planned == {"build", "skip", "cached", "keep"}
Running == {"building", "verify", "adopt", "built", "captured", "finished",
            "checked"}
Ended == {"refused", "skipped", "kept", "adopted", "yielded", "recorded"}
Stage == {"idle", "dead"} \cup Planning \cup Planned \cup Running \cup Ended

TypeOK ==
    /\ want \in Versions
    /\ bind \in [Envs -> Catalogs] /\ bind["default"] = bind["main"]
    /\ holds \in Seq(Versions \cup {Unknown})
    /\ snap \in [Catalogs -> Snapshots]
    /\ rows \subseteq Row
    /\ \A x, y \in rows : x.env = y.env => x = y
    /\ clock \in Nat
    /\ stage \in [Runs -> Stage]
    /\ job \in [Runs -> Job]
    /\ seen \in [Runs -> [exists : BOOLEAN, current : SUBSET Row,
                          elsewhere : SUBSET Row]]
    /\ reuse \in [Runs -> SUBSET Row]
    /\ output \in [Runs -> [wrote : Nat, captured : Nat, at : Nat]]
    /\ passed \in [Runs -> SUBSET Versions]
    /\ intact \subseteq Runs
    /\ started \in 0..MaxRuns /\ moves \in 0..MaxMoves

\* A workspace nothing was run in yet, or one with the table and the record of
\* a release that kept no identity, and perhaps no adapter.
Init ==
    /\ want \in Versions
    /\ \E base, other \in Catalogs :
        /\ bind = [e \in Envs |-> IF e \in Base THEN base ELSE other]
        /\ \/ /\ rows = {} /\ holds = <<>>
              /\ snap = [c \in Catalogs |-> None]
           \/ /\ \E ours \in BOOLEAN :
                    rows = {[env |-> "default", version |-> want,
                             target |-> base, identity |-> None, at |-> 0,
                             ours |-> ours, own |-> FALSE]}
              /\ holds = <<want>>
              /\ snap = [c \in Catalogs |-> IF c = base THEN 1 ELSE None]
        /\ job = [r \in Runs |-> [env |-> "default", version |-> want,
                                  target |-> base, resumed |-> FALSE]]
    /\ clock = 0
    /\ stage = [r \in Runs |-> "idle"]
    /\ seen = [r \in Runs |-> NoEvidence]
    /\ reuse = [r \in Runs |-> {}]
    /\ output = [r \in Runs |-> NoOutput]
    /\ passed = [r \in Runs |-> {}]
    /\ intact = {}
    /\ started = 0 /\ moves = 0

-----------------------------------------------------------------------------
(***************************************************************************)
(* Planning: four reads and a decision.                                    *)
(***************************************************************************)
Move == moves < MaxMoves /\ moves' = moves + 1 /\ UNCHANGED started
At(r, from, to) == stage[r] = from /\ stage' = [stage EXCEPT ![r] = to]
Compiled(e, again) ==
    [env |-> e, version |-> want, target |-> bind[e], resumed |-> again]

\* plan and apply, or retry_failed, on a fresh compilation.
Start(r, e) ==
    /\ started < MaxRuns /\ started' = started + 1
    /\ stage[r] \in {"idle"} \cup Ended
    /\ stage' = [stage EXCEPT ![r] = "probe"]
    /\ job' = [job EXCEPT ![r] = Compiled(e, FALSE)]
    /\ output' = [output EXCEPT ![r] = NoOutput]
    /\ passed' = [passed EXCEPT ![r] = {}]
    /\ intact' = intact \ {r}
    /\ UNCHANGED <<world, rows, clock, seen, reuse, moves>>

\* resume of a run that is still running in the store.
Resume(r) ==
    /\ At(r, "dead", "probe")
    /\ job' = [job EXCEPT ![r] = Compiled(job[r].env, TRUE)]
    /\ UNCHANGED <<world, store, clock, seen, reuse, output, intact, bounds>>

\* output_identity answers live; an error counts as no identity.
Reads(c, live) ==
    \/ live = snap[c] /\ UNCHANGED bounds
    \/ live = None /\ snap[c] # None /\ Move

\* relations_exist
Probe(r) ==
    /\ At(r, "probe", "scope")
    /\ seen' = [seen EXCEPT ![r].exists = snap[job[r].target] # None]
    /\ UNCHANGED <<world, store, clock, job, reuse, output, intact, bounds>>

\* Variant: the default environment does not count what is recorded for main.
Labels_OneWay(e) == IF e = "main" THEN Base ELSE {e}
\* The labels whose records an environment reads: the default environment and
\* main are the same catalog.
Labels(e) == IF e \in Base THEN Base ELSE {e}

\* merge_latest: its own record first, another label's if strictly later.
Shadows(e, x, y) == x.at > y.at \/ (x.at = y.at /\ x.env = e)
Scope(e) ==
    LET mine == {x \in rows : x.env \in Labels(e)}
    IN  {x \in mine : \A y \in mine \ {x} : Shadows(e, x, y)}

\* materialized_scope
ReadScope(r) ==
    /\ At(r, "scope", "candidates")
    /\ seen' = [seen EXCEPT ![r].current = Scope(job[r].env)]
    /\ UNCHANGED <<world, store, clock, job, reuse, output, intact, bounds>>

\* materialized_by_hashes: only for a relation without a record of its own.
Elsewhere(r) ==
    IF seen[r].exists /\ seen[r].current = {}
    THEN {x \in rows : x.version = job[r].version} ELSE {}
ReadCandidates(r) ==
    /\ At(r, "candidates", "decide")
    /\ seen' = [seen EXCEPT ![r].elsewhere = Elsewhere(r)]
    /\ UNCHANGED <<world, store, clock, job, reuse, output, intact, bounds>>

\* The identity is only asked for when a record has one to compare.
Asked(j, ev) ==
    \/ \E x \in ev.current : x.identity # None
    \/ \E x \in ev.elsewhere : x.env # j.env /\ x.ours /\ x.identity # None

\* Variant: a record is believed whatever the relation holds now.
Unchanged_Undrifted(j, ev, live) ==
    \E x \in ev.current : x.ours /\ x.target = j.target /\ x.version = j.version
\* decide: the environment's record says that the relation is up to date.
Unchanged(j, ev, live) ==
    \E x \in ev.current :
        /\ x.ours /\ x.target = j.target /\ x.version = j.version
        /\ x.identity \in {None, live}

\* The record of a retargeted environment, if the new target holds its output.
Moved(j, ev, live) ==
    {x \in ev.current : /\ x.ours /\ x.target # j.target
                        /\ x.version = j.version /\ x.identity = live}

\* env_rank, then the latest.
Rank(e) == CASE e = "default" -> 0 [] e = "main" -> 1 [] OTHER -> 2
Preferred(x, y) == Rank(x.env) < Rank(y.env)
                   \/ (Rank(x.env) = Rank(y.env) /\ x.at >= y.at)
\* Records of other environments whose output the relation holds.
Shared(j, ev, live) ==
    LET hits == {x \in ev.elsewhere :
                    x.env # j.env /\ x.ours /\ x.identity = live}
    IN  {x \in hits : \A y \in hits : Preferred(x, y)}

Adoptable(j, ev, live) ==
    IF live = None THEN {}
    ELSE IF ev.current = {} THEN Shared(j, ev, live) ELSE Moved(j, ev, live)

Verdict(j, ev, live) ==
    IF ~ev.exists THEN "build"
    ELSE IF Unchanged(j, ev, live) THEN "skip"
    ELSE IF Adoptable(j, ev, live) # {} THEN "cached"
    ELSE "build"

\* resume_plan keeps a model that passed at the version that is still wanted.
Reused(r) ==
    job[r].resumed /\ seen[r].exists /\ job[r].version \in passed[r]

\* The identity is read and the action decided; --force builds anyway.
Decide(r) ==
    /\ \E live \in Snapshots :
        LET verdict == Verdict(job[r], seen[r], live) IN
        /\ IF Asked(job[r], seen[r]) THEN Reads(job[r].target, live)
           ELSE live = None /\ UNCHANGED bounds
        /\ \/ /\ Reused(r)
              /\ At(r, "decide", "keep") /\ UNCHANGED reuse
           \/ /\ ~Reused(r) /\ verdict # "cached"
              /\ At(r, "decide", verdict) /\ UNCHANGED reuse
           \/ /\ ~Reused(r) /\ verdict = "cached"
              /\ At(r, "decide", "cached")
              /\ \E x \in Adoptable(job[r], seen[r], live) :
                   reuse' = [reuse EXCEPT ![r] = {x}]
           \/ /\ ~job[r].resumed
              /\ At(r, "decide", "build") /\ UNCHANGED reuse
    /\ seen' = [seen EXCEPT ![r] = NoEvidence]
    /\ UNCHANGED <<world, store, clock, job, output, intact>>

-----------------------------------------------------------------------------
(***************************************************************************)
(* Execution.                                                              *)
(***************************************************************************)
\* apply refuses a plan when what it compiles to is no longer what was planned.
Stale(r) == want # job[r].version \/ bind[job[r].env] # job[r].target
Refuse(r) ==
    /\ stage[r] \in {"build", "skip", "cached"}
    /\ ~job[r].resumed /\ Stale(r)
    /\ stage' = [stage EXCEPT ![r] = "refused"]
    /\ reuse' = [reuse EXCEPT ![r] = {}]
    /\ UNCHANGED <<world, store, clock, job, seen, output, intact, bounds>>

\* execute starts.  run applies a plan to the compilation it was made from, so
\* that a plan may be stale and not refused.
Apply(r) ==
    /\ \/ At(r, "build", "building") /\ UNCHANGED passed
       \/ At(r, "cached", "verify") /\ UNCHANGED passed
       \/ At(r, "keep", "kept") /\ UNCHANGED passed
       \/ At(r, "skip", "skipped") /\ passed' = [passed EXCEPT ![r] = {}]
    /\ UNCHANGED <<world, rows, clock, job, seen, reuse, output, intact, bounds>>

\* The identity is read again, and another answer makes it a build.
Verify(r) ==
    /\ \E live \in Snapshots :
        /\ Reads(job[r].target, live)
        /\ \/ /\ \E x \in reuse[r] : x.identity = live
              /\ At(r, "verify", "adopt")
              /\ UNCHANGED reuse
           \/ /\ \A x \in reuse[r] : x.identity # live
              /\ At(r, "verify", "building")
              /\ reuse' = [reuse EXCEPT ![r] = {}]
    /\ UNCHANGED <<world, store, clock, job, seen, output, intact>>

\* Variant: whoever records last wins.
Upsert_Unordered(x) == rows' = {y \in rows : y.env # x.env} \cup {x}
\* record_materialized: an older record changes nothing.
Upsert(x) ==
    IF \E y \in rows : y.env = x.env /\ y.at > x.at THEN rows' = rows
    ELSE rows' = {y \in rows : y.env # x.env} \cup {x}

\* Variant: the version is read from the workspace as it is by then.
Claim_Now(r, identity, at, own) ==
    [env |-> job[r].env, version |-> want, target |-> job[r].target,
     identity |-> identity, at |-> at, ours |-> TRUE, own |-> own]
\* The record of a run: what it was compiled for, and an output.
Claim(r, identity, at, own) ==
    [env |-> job[r].env, version |-> job[r].version, target |-> job[r].target,
     identity |-> identity, at |-> at, ours |-> TRUE, own |-> own]

\* The adopted record keeps the time of the run that built the output; the
\* model itself did not pass in this run.
Adopt(r) ==
    /\ At(r, "adopt", "adopted")
    /\ \E x \in reuse[r] :
        Upsert(Claim(r, x.identity, x.at, x.own))
    /\ reuse' = [reuse EXCEPT ![r] = {}]
    /\ passed' = [passed EXCEPT ![r] = {}]
    /\ UNCHANGED <<world, clock, job, seen, output, intact, bounds>>

\* Somebody wrote the relation of c: it holds snapshot s now.
Writes(c, s) ==
    /\ snap' = [snap EXCEPT ![c] = s]
    /\ intact' = {q \in intact : job[q].target # c}
NewSnapshot(c, content) ==
    /\ holds' = Append(holds, content)
    /\ Writes(c, Len(holds) + 1)

\* persist_model_start and the statement that replaces the relation.
Build(r) ==
    /\ At(r, "building", "built")
    /\ NewSnapshot(job[r].target, job[r].version)
    /\ output' = [output EXCEPT ![r] = [NoOutput EXCEPT !.wrote = Len(holds) + 1]]
    /\ passed' = [passed EXCEPT ![r] = {}]
    /\ UNCHANGED <<want, bind, rows, clock, job, seen, reuse, bounds>>

\* The coordinator reads the identity after the task returned, and persists
\* the passed model.
Capture(r) ==
    /\ At(r, "built", "captured")
    /\ \E live \in Snapshots :
        /\ Reads(job[r].target, live)
        /\ output' = [output EXCEPT ![r].captured = live]
    /\ passed' = [passed EXCEPT ![r] = {job[r].version}]
    /\ intact' = intact \cup {r}
    /\ UNCHANGED <<world, rows, clock, job, seen, reuse>>

\* Tests are over: finished_at.
Finish(r) ==
    /\ At(r, "captured", "finished")
    /\ clock' = clock + 1
    /\ output' = [output EXCEPT ![r].at = clock + 1]
    /\ UNCHANGED <<world, store, job, seen, reuse, intact, bounds>>

\* A run that has an identity records only if the relation still shows it.
Check(r) ==
    /\ \/ /\ output[r].captured = None
          /\ At(r, "finished", "checked") /\ UNCHANGED bounds
       \/ /\ output[r].captured # None
          /\ \E live \in Snapshots :
                /\ Reads(job[r].target, live)
                /\ At(r, "finished", IF live = output[r].captured
                                     THEN "checked" ELSE "yielded")
    /\ UNCHANGED <<world, store, clock, job, seen, reuse, output, intact>>

Record(r) ==
    /\ At(r, "checked", "recorded")
    /\ Upsert(Claim(r, output[r].captured, output[r].at,
                    output[r].captured = output[r].wrote))
    /\ UNCHANGED <<world, passed, clock, job, seen, reuse, output, intact, bounds>>

\* The process is killed after start_run.  One that dies while it plans leaves
\* nothing.
Dies(r) ==
    /\ Move
    /\ stage[r] \in Running
    /\ stage' = [stage EXCEPT ![r] = "dead"]
    /\ reuse' = [reuse EXCEPT ![r] = {}]
    /\ UNCHANGED <<world, store, clock, job, seen, output, intact>>

-----------------------------------------------------------------------------
(***************************************************************************)
(* What changes underneath.                                                *)
(***************************************************************************)
\* A change of the model, or of what it reads.
Edit ==
    /\ Move
    /\ want' \in Versions \ {want}
    /\ UNCHANGED <<bind, snap, holds, store, clock, process, intact>>

\* Another catalog in the configuration, or in the environment's binding.
Rebind(e, c) ==
    /\ Move /\ bind[e] # c
    /\ bind' = [f \in Envs |-> IF f = e \/ {e, f} \subseteq Base THEN c ELSE bind[f]]
    /\ UNCHANGED <<want, snap, holds, store, clock, process, intact>>

\* A catalog branch is created from another, or merged into it: the snapshot
\* keeps its identity.
Inherit(c, d) ==
    /\ Move /\ snap[c] # snap[d]
    /\ Writes(d, snap[c])
    /\ UNCHANGED <<want, bind, holds, store, clock, process>>

\* Another tool, or the statement of a dead run, writes or drops the relation.
Foreign(c) ==
    /\ Move
    /\ \/ NewSnapshot(c, Unknown)
       \/ Writes(c, None) /\ snap[c] # None /\ UNCHANGED holds
    /\ UNCHANGED <<want, bind, store, clock, process>>

RunStep(r) ==
    \/ \E e \in Envs : Start(r, e)
    \/ Resume(r) \/ Probe(r) \/ ReadScope(r) \/ ReadCandidates(r) \/ Decide(r)
    \/ Refuse(r) \/ Apply(r) \/ Verify(r) \/ Adopt(r) \/ Build(r) \/ Capture(r)
    \/ Finish(r) \/ Check(r) \/ Record(r) \/ Dies(r)

WorldStep ==
    \/ Edit
    \/ \E e \in Envs, c \in Catalogs : Rebind(e, c)
    \/ \E c, d \in Catalogs : Inherit(c, d)
    \/ \E c \in Catalogs : Foreign(c)

Next == (\E r \in Runs : RunStep(r)) \/ WorldStep
Spec == Init /\ [][Next]_vars

-----------------------------------------------------------------------------
(***************************************************************************)
(* Properties.                                                             *)
(***************************************************************************)
\* What a record says of the snapshot it names.
True(x) == holds[x.identity] = x.version

\* A record that names a snapshot names one built from the version it
\* records, if the run that recorded it had captured the snapshot it wrote:
\* retargets, adoptions across environments, resumed runs and late recorders
\* never attach a version to content of another (run.rs, record_materialized).
RowsTruthful == \A x \in rows : x.own /\ x.identity # None => True(x)

\* Nothing is left unbuilt on the word of a record unless the relation holds
\* the version that was wanted at the moment its identity was last read:
\* decide for a skip, execute for an adoption.
Vouched(x) == x.own /\ x.identity # None
Holds(r) == snap[job[r].target] # None
            /\ holds[snap[job[r].target]] = job[r].version
OnlyCurrentIsReused ==
    [][\A r \in Runs :
        \/ /\ stage[r] = "decide" /\ stage'[r] = "skip"
           /\ \A x \in seen[r].current : Vouched(x)
        \/ /\ stage[r] = "verify" /\ stage'[r] = "adopt"
           /\ \A x \in reuse[r] : Vouched(x)
        => Holds(r)]_vars

\* When a run has recorded what it built and nobody wrote the relation since
\* the run saw it there, the record that stands for its environment is of that
\* output, whatever order runs finished and recorded in (the ordered upsert,
\* and the check before it).  Only a run against another catalog, or one
\* without the identity of its own write, may have replaced it.
RecordedStands ==
    \A r \in Runs :
        /\ stage[r] = "recorded" /\ r \in intact
        /\ output[r].captured = output[r].wrote
        => \A x \in Scope(job[r].env) :
             \/ x.identity = output[r].captured
             \/ x.target # job[r].target
             \/ ~x.own
=============================================================================
