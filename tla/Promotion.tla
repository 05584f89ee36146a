------------------------------ MODULE Promotion ------------------------------
(***************************************************************************)
(* Write, audit, publish: a candidate branch is provisioned                *)
(* (environment.rs), runs write to it and bind themselves to the commit    *)
(* they leave (promotion.rs), an audit compares it with its target         *)
(* (branch_diff.rs), gates over what was recorded (audit.rs, gates.rs)     *)
(* authorise a merge, and a cleanup removes branch and catalog.            *)
(*                                                                         *)
(* Each of these is a process of its own, and it reads references, the     *)
(* state store and the warehouse one after another.  Any of them may stop  *)
(* for good between two steps, because a call failed or it died: no step   *)
(* is ever bound to happen.  What an error makes the code do is a step.    *)
(*                                                                         *)
(* A commit is known by its number: its hash.  0 is no hash, and the head  *)
(* of a reference that does not exist.                                     *)
(***************************************************************************)
EXTENDS Naturals, Sequences, FiniteSets

CONSTANTS
    Models,
    Candidates,   \* branches that runs are isolated on
    Main,         \* the reference they are cut from and promoted to
    Runs,         \* runs; a run is also the mark of the tables it built
    Selects,      \* the sets of models each run may be asked for
    Creators,     \* commands: ref create
    Auditors,     \*           diff --from candidate --to main
    Promoters,    \*           promote candidate --to main
    Deleters,     \*           ref delete
    NoRun,
    Narrow,       \* runs that built their tables without some column
    Stricter,     \* runs that recorded a contract the workspace now breaks
    Verdicts,     \* what an audit may say of the data
    Options,      \* options a promotion may be asked for with
    MaxCommits,   \* bound: commits made
    MaxAtOnce,    \* bound: processes at work at the same time
    MaxMoves      \* bound: errors that are handled (a run that fails is one),
                  \* commands on references, and branches and catalogs made by
                  \* others, together

ASSUME NameAssumption ==
    /\ Main \notin Candidates /\ NoRun \notin Runs
    /\ Narrow \subseteq Runs /\ Stricter \subseteq Runs
    /\ Selects \in [Runs -> SUBSET SUBSET Models]
ASSUME ProcessAssumption ==
    /\ Runs \cap (Creators \cup Auditors \cup Promoters \cup Deleters) = {}
    /\ Creators \cap (Auditors \cup Promoters \cup Deleters) = {}
    /\ Auditors \cap (Promoters \cup Deleters) = {}
    /\ Promoters \cap Deleters = {}
ASSUME ChoiceAssumption ==
    /\ Verdicts \subseteq {"shallow", "passed", "failed"}
    /\ Options \subseteq [waive : BOOLEAN, require : BOOLEAN, clean : BOOLEAN]
ASSUME BoundAssumption == 
    MaxCommits \in Nat \ {0} /\ MaxAtOnce \in Nat /\ MaxMoves \in Nat

VARIABLES
    commits,    \* what every commit holds, and the commits it contains
    head,       \* the commit each reference stands at
    catalog,    \* whose catalog of a candidate's generated name there is
    setup,      \* environment evidence: at most one record for a candidate
    row,        \* table runs
    order,      \* the runs in it, by started_at
    recorded,   \* table model_versions: the last build recorded on a reference
    report,     \* branch-diff evidence: at most one, the newest, a candidate
    at,         \* where each process is
    of,         \* the reference it works on
    prov,       \* what a provisioning has read and done
    look,       \* what an audit has read
    eval,       \* what a promotion has read
    held,       \* the head a run is to be bound to
    failed,     \* cleanups of which a step has failed
    merges,     \* history: the merges made, with what they rested on
    alone,      \* history: runs whose reference nobody else moved until they
                \* were bound
    dropped,    \* history: candidates a cleanup dropped the catalog of
    made,       \* history: how the branch of each candidate came to be
    resets,     \* history: references set to a commit by hand so far
    moves       \* how many so far

world   == <<commits, head, catalog>>
store   == <<setup, row, order, recorded, report>>
mine    == <<prov, look, eval, held, failed>>
process == <<at, of, mine>>
history == <<merges, alone, dropped, made, resets>>
vars == <<world, store, process, history, moves>>

Refs == Candidates \cup {Main}
Provisioners == Runs \cup Creators
Cleaners == Promoters \cup Deleters
Processes == Provisioners \cup Auditors \cup Cleaners
Builds == Runs \cup {NoRun}
Tables == [Models -> Builds]
None == 0

-----------------------------------------------------------------------------
Commit == [tables : Tables, contains : SUBSET Nat]

\* An EnvironmentSetup.  from is the hash in created_from; binding is whether
\* prior_records_binding trusts it for its catalog.
Setup == [from : Nat, binding : BOOLEAN, owned : BOOLEAN]

\* A BranchDiffReport.
Report == [cand : Nat, base : Nat, candTables : Tables, baseTables : Tables,
           breaks : BOOLEAN, verdict : {"shallow", "passed", "failed"}]

\* A run with its test rows.  todo are the tables it has not recorded, wrote
\* those of them it has built.  stands is history: the build it says each
\* table it selected holds.
Row == [status : {"none", "running", "passed", "failed"},
        tests : {"passed", "failed", "cancelled"}, bound : Nat,
        selected : SUBSET Models, todo : SUBSET Models, wrote : SUBSET Models,
        stands : Tables]

\* cut is the number of commits there were when it made the branch, if it did.
Prov == [prior : SUBSET Setup, base : Nat, cut : Nat, created : BOOLEAN]
Look == [cand : Nat, base : Nat, candTables : Tables, baseTables : Tables]
Option == [waive : BOOLEAN, require : BOOLEAN, clean : BOOLEAN]
Eval == [cand : Nat, target : Nat, run : Builds, setup : SUBSET Setup,
         report : SUBSET Report, fresh : BOOLEAN, strict : BOOLEAN,
         option : Option]
Merge == [by : Promoters, run : Runs, from : Nat, onto : Nat, into : Nat, eval : Eval,
          resets : Nat]

NoTables == [m \in Models |-> NoRun]
NoRow == [status |-> "none", tests |-> "passed", bound |-> None,
          selected |-> {}, todo |-> {}, wrote |-> {}, stands |-> NoTables]
NoProv == [prior |-> {}, base |-> None, cut |-> None, created |-> FALSE]
NoLook == [cand |-> None, base |-> None, candTables |-> NoTables,
           baseTables |-> NoTables]
NoOption == [waive |-> FALSE, require |-> FALSE, clean |-> FALSE]
NoEval == [cand |-> None, target |-> None, run |-> NoRun, setup |-> {},
           report |-> {}, fresh |-> FALSE, strict |-> FALSE,
           option |-> NoOption]

Place == {"idle", "done",
          "base", "branch", "catalog", "undo", "record",
          "ready", "running", "bind", "binding",
          "target", "versions", "compare",
          "run", "evidence", "gates", "again", "merge",
          "drop", "find", "forget"}

TypeOK ==
    /\ commits \in Seq(Commit)
    /\ \A n \in 1..Len(commits) : commits[n].contains \subseteq 1..n
    /\ head \in [Refs -> 0..Len(commits)]
    /\ catalog \in [Candidates -> {"absent", "phlo", "foreign"}]
    /\ setup \in [Candidates -> SUBSET Setup]
    /\ row \in [Runs -> Row]
    /\ order \in Seq(Runs)
    /\ recorded \in [Refs -> Tables]
    /\ report \in [Candidates -> SUBSET Report]
    /\ at \in [Processes -> Place]
    /\ of \in [Processes -> Refs]
    /\ prov \in [Provisioners -> Prov]
    /\ \A x \in Provisioners : prov[x].base \in 0..Len(commits)
    /\ look \in [Auditors -> Look]
    /\ eval \in [Promoters -> Eval]
    /\ held \in [Runs -> Nat]
    /\ failed \subseteq Cleaners
    /\ merges \subseteq Merge
    /\ alone \subseteq Runs
    /\ dropped \subseteq Candidates
    /\ made \in [Candidates -> {"never", "afresh", "behind"}]
    /\ resets \in Nat /\ moves \in Nat

\* Main exists and holds tables nobody is on record for.  Somebody may have
\* made catalogs of the generated name.
Init ==
    /\ commits = << [tables |-> NoTables, contains |-> {1}] >>
    /\ head = [r \in Refs |-> IF r = Main THEN 1 ELSE None]
    /\ catalog \in [Candidates -> {"absent", "foreign"}]
    /\ setup = [c \in Candidates |-> {}]
    /\ row = [r \in Runs |-> NoRow]
    /\ order = <<>>
    /\ recorded = [r \in Refs |-> NoTables]
    /\ report = [c \in Candidates |-> {}]
    /\ at = [x \in Processes |-> "idle"]
    /\ of = [x \in Processes |-> Main]
    /\ prov = [x \in Provisioners |-> NoProv]
    /\ look = [a \in Auditors |-> NoLook]
    /\ eval = [p \in Promoters |-> NoEval]
    /\ held = [r \in Runs |-> None]
    /\ failed = {}
    /\ merges = {} /\ alone = {} /\ dropped = {}
    /\ made = [c \in Candidates |-> "never"]
    /\ resets = 0 /\ moves = 0

-----------------------------------------------------------------------------
(***************************************************************************)
(* The catalog server, and the steps of a process.                         *)
(***************************************************************************)
Contains(n) == IF n = None THEN {} ELSE commits[n].contains
TablesAt(n) == IF n = None THEN NoTables ELSE commits[n].tables
Put(ref, tables, contained) ==
    /\ Len(commits) < MaxCommits
    /\ commits' = Append(commits, [tables |-> tables,
                        contains |-> contained \cup {Len(commits) + 1}])
    /\ head' = [head EXCEPT ![ref] = Len(commits) + 1]
Moved(ref, but) == alone' = alone \
    {r \in Runs \ {but} : of[r] = ref /\ at[r] \in {"running", "bind", "binding"}}

\* Made once, or again at the commit Main is at by now; or made again behind it,
\* where a record of an earlier branch may know of later commits.
Made(c, n) == made' = [made EXCEPT ![c] =
    IF @ = "never" \/ (@ = "afresh" /\ n = head[Main]) THEN "afresh" ELSE "behind"]

\* The last commit both histories contain.
MergeBase(a, b) ==
    LET both == Contains(a) \cap Contains(b)
    IN  IF both = {} THEN None ELSE CHOOSE n \in both : \A k \in both : k <= n
Changed(a, b) ==
    {m \in Models : TablesAt(a)[m] # TablesAt(MergeBase(a, b))[m]}
Conflict(a, b) == Changed(a, b) \cap Changed(b, a) # {}
MergedTables(from, onto) ==
    [m \in Models |-> IF m \in Changed(from, onto) THEN TablesAt(from)[m]
                                                   ELSE TablesAt(onto)[m]]

At(x, from, to) == at[x] = from /\ at' = [at EXCEPT ![x] = to]
Starts(x, to, ref) ==
    /\ Cardinality({y \in Processes : at[y] \notin {"idle", "done"}}) < MaxAtOnce
    /\ At(x, "idle", to)
    /\ of' = [of EXCEPT ![x] = ref]

Move == moves < MaxMoves /\ moves' = moves + 1

-----------------------------------------------------------------------------
(***************************************************************************)
(* ensure_candidate, and ref create.                                       *)
(***************************************************************************)
\* apply or run, on main or on a candidate: provisioning first reads the
\* candidate's record.  ref create does not.
StartOnMain(r) ==
    /\ Starts(r, "ready", Main)
    /\ UNCHANGED <<world, store, mine, history, moves>>

StartOn(x, c) ==
    /\ Starts(x, "base", c)
    /\ IF x \in Runs
       THEN prov' = [prov EXCEPT ![x].prior = setup[c]] /\ UNCHANGED moves
       ELSE UNCHANGED prov /\ Move
    /\ UNCHANGED <<world, store, look, eval, held, failed, history>>

ReadBase(x) ==
    /\ At(x, "base", "branch")
    /\ prov' = [prov EXCEPT ![x].base = head[Main]]
    /\ UNCHANGED <<world, store, of, look, eval, held, failed, history, moves>>

\* The branch is cut at the base commit read before.
CutBranch(x) ==
    /\ At(x, "branch", IF x \in Runs THEN "catalog" ELSE "record")
    /\ head[of[x]] = None
    /\ head' = [head EXCEPT ![of[x]] = prov[x].base]
    /\ prov' = [prov EXCEPT ![x].cut = Len(commits)]
    /\ Moved(of[x], x) /\ Made(of[x], prov[x].base)
    /\ UNCHANGED <<commits, catalog, store, of, look, eval, held, failed,
                   merges, dropped, resets, moves>>

\* Provisioning takes a branch that exists; ref create fails.
TakeBranch(x) ==
    /\ At(x, "branch", IF x \in Runs THEN "catalog" ELSE "done")
    /\ head[of[x]] # None
    /\ prov' = IF x \in Runs THEN prov ELSE [prov EXCEPT ![x] = NoProv]
    /\ UNCHANGED <<world, store, of, look, eval, held, failed, history, moves>>

CreateCatalog(r) ==
    /\ At(r, "catalog", "record")
    /\ catalog[of[r]] = "absent"
    /\ catalog' = [catalog EXCEPT ![of[r]] = "phlo"]
    /\ prov' = [prov EXCEPT ![r].created = TRUE]
    /\ UNCHANGED <<commits, head, store, of, look, eval, held, failed, history,
                   moves>>

\* Variant: any record vouches for a catalog.
Vouched_AnyRecord(p) == p.prior # {}
\* A catalog that exists is taken on a recorded binding only.
Vouched(p) == \E s \in p.prior : s.binding
TakeCatalog(r) ==
    /\ At(r, "catalog", "record")
    /\ catalog[of[r]] # "absent" /\ Vouched(prov[r])
    /\ UNCHANGED <<world, store, of, mine, history, moves>>

\* Variant: the branch is removed whoever made it.
RefuseCatalog_UndoAny(r) ==
    /\ At(r, "catalog", "undo")
    /\ \/ catalog[of[r]] # "absent" /\ ~Vouched(prov[r]) /\ UNCHANGED moves
       \/ Move
    /\ UNCHANGED <<world, store, of, mine, history>>
\* Refused, or the catalog could not be made: a branch just made is undone.
RefuseCatalog(r) ==
    /\ At(r, "catalog", IF prov[r].cut # None THEN "undo" ELSE "done")
    /\ \/ catalog[of[r]] # "absent" /\ ~Vouched(prov[r]) /\ UNCHANGED moves
       \/ Move
    /\ prov' = IF prov[r].cut # None THEN prov ELSE [prov EXCEPT ![r] = NoProv]
    /\ UNCHANGED <<world, store, of, look, eval, held, failed, history>>

UndoBranch(r) ==
    /\ At(r, "undo", "done")
    /\ head' = [head EXCEPT ![of[r]] = None]
    /\ prov' = [prov EXCEPT ![r] = NoProv]
    /\ Moved(of[r], r)
    /\ UNCHANGED <<commits, catalog, store, of, look, eval, held, failed,
                   merges, dropped, made, resets, moves>>

\* Variant: the commit the base is at by now is the provenance.
Provisioned_Today(x) ==
    [from |-> prov[x].base, binding |-> x \in Runs,
     owned |-> x \in Runs /\ (prov[x].created \/ \E s \in prov[x].prior : s.owned)]
\* The evidence a provisioning leaves.  A branch that existed keeps the
\* provenance recorded before, a catalog that existed its ownership.
Provisioned(x) ==
    LET p == prov[x]
    IN  [from |-> IF p.cut # None THEN p.base
                  ELSE IF p.prior = {} THEN None
                  ELSE (CHOOSE s \in p.prior : TRUE).from,
         binding |-> x \in Runs,
         owned |-> x \in Runs /\ (p.created \/ \E s \in p.prior : s.owned)]

RecordSetup(x) ==
    /\ At(x, "record", IF x \in Runs THEN "ready" ELSE "done")
    /\ setup' = [setup EXCEPT ![of[x]] = {Provisioned(x)}]
    /\ prov' = [prov EXCEPT ![x] = NoProv]
    /\ UNCHANGED <<world, row, order, recorded, report, of, look, eval, held,
                   failed, history, moves>>

-----------------------------------------------------------------------------
(***************************************************************************)
(* A run, as the reference it writes to sees it.                           *)
(***************************************************************************)
\* Variant: what the reference holds is not looked at.
Standing_ByRecord(ref) == {m \in Models : recorded[ref][m] # NoRun}
\* Tables that may be reused: still what was recorded of them.
Standing(ref) ==
    {m \in Models : /\ recorded[ref][m] # NoRun
                    /\ recorded[ref][m] = TablesAt(head[ref])[m]}

Begin(r, selected, reused) ==
    /\ At(r, "ready", "running")
    /\ reused \subseteq Standing(of[r]) \cap selected
    /\ row' = [row EXCEPT ![r] = [NoRow EXCEPT
                    !.status = "running", !.selected = selected,
                    !.todo = selected \ reused,
                    !.stands = [m \in Models |-> IF m \in reused
                                THEN recorded[of[r]][m] ELSE r]]]
    /\ order' = Append(order, r)
    /\ alone' = alone \cup {r}
    /\ UNCHANGED <<world, setup, recorded, report, of, mine, merges, dropped,
                   made, resets, moves>>

\* A table is built: a commit on the reference.
Write(r, m) ==
    /\ at[r] = "running" /\ m \in row[r].todo \ row[r].wrote
    /\ head[of[r]] # None /\ (of[r] # Main => catalog[of[r]] = "phlo")
    /\ Put(of[r], [TablesAt(head[of[r]]) EXCEPT ![m] = r],
           Contains(head[of[r]]))
    /\ row' = [row EXCEPT ![r].wrote = @ \cup {m}]
    /\ Moved(of[r], r)
    /\ UNCHANGED <<catalog, setup, order, recorded, report, process, merges,
                   dropped, made, resets, moves>>

\* The main loop records a table that was built.
Note(r, m) ==
    /\ at[r] = "running" /\ m \in row[r].wrote
    /\ row' = [row EXCEPT ![r].todo = @ \ {m}, ![r].wrote = @ \ {m}]
    /\ recorded' = [recorded EXCEPT ![of[r]][m] = r]
    /\ UNCHANGED <<world, setup, order, report, process, history, moves>>

\* Passed: nothing is left to do and no test failed; tests may be cancelled.
Pass(r, tests) ==
    /\ At(r, "running", "bind")
    /\ row[r].todo = {}
    /\ IF tests = "passed" THEN UNCHANGED moves ELSE Move
    /\ row' = [row EXCEPT ![r].status = "passed", ![r].tests = tests]
    /\ UNCHANGED <<world, setup, order, recorded, report, of, mine, history>>

\* Failed or cancelled before its tests, or a test failed.
Fail(r) ==
    /\ At(r, "running", "done")
    /\ row' = [row EXCEPT ![r].status = "failed", ![r].wrote = {},
                          ![r].tests = IF row[r].todo = {} THEN "failed" ELSE @]
    /\ Move
    /\ UNCHANGED <<world, setup, order, recorded, report, of, mine, history>>

\* bind_run_reference: the head is read, then recorded.
ResolveRun(r) ==
    /\ At(r, "bind", IF head[of[r]] = None THEN "done" ELSE "binding")
    /\ held' = [held EXCEPT ![r] = head[of[r]]]
    /\ UNCHANGED <<world, store, of, prov, look, eval, failed, history, moves>>

BindRun(r) ==
    /\ At(r, "binding", "done")
    /\ row' = [row EXCEPT ![r].bound = held[r]]
    /\ held' = [held EXCEPT ![r] = None]
    /\ UNCHANGED <<world, setup, order, recorded, report, of, prov, look, eval,
                   failed, history, moves>>

-----------------------------------------------------------------------------
(***************************************************************************)
(* diff --from candidate --to main.                                        *)
(***************************************************************************)
StartAudit(a, c) ==
    /\ Starts(a, "target", c)
    /\ head[c] # None
    /\ look' = [look EXCEPT ![a].cand = head[c]]
    /\ UNCHANGED <<world, store, prov, eval, held, failed, history, moves>>

ReadTarget(a) ==
    /\ At(a, "target", "versions")
    /\ look' = [look EXCEPT ![a].base = head[Main]]
    /\ UNCHANGED <<world, store, of, prov, eval, held, failed, history, moves>>

ReadVersions(a) ==
    /\ At(a, "versions", "compare")
    /\ look' = [look EXCEPT ![a].candTables = recorded[of[a]],
                            ![a].baseTables = recorded[Main]]
    /\ UNCHANGED <<world, store, of, prov, eval, held, failed, history, moves>>

\* A column is gone from a table.
Breaks(cand, base) ==
    \E m \in Models : cand[m] \in Narrow /\ base[m] \notin Narrow

\* What the references hold by now is compared, and the report is persisted
\* under the commits read at first.  Every table of a branch that is gone is
\* missing.
Compare(a, verdict) ==
    /\ At(a, "compare", "done")
    /\ report' = [report EXCEPT ![of[a]] =
         { [cand |-> look[a].cand, base |-> look[a].base,
            candTables |-> look[a].candTables,
            baseTables |-> look[a].baseTables,
            breaks |-> \/ head[of[a]] = None
                       \/ Breaks(TablesAt(head[of[a]]), TablesAt(head[Main])),
            verdict |-> verdict] }]
    /\ look' = [look EXCEPT ![a] = NoLook]
    /\ UNCHANGED <<world, setup, row, order, recorded, of, prov, eval, held,
                   failed, history, moves>>

-----------------------------------------------------------------------------
(***************************************************************************)
(* promote candidate --to main: evaluate_promotion, then promote.          *)
(***************************************************************************)
StartPromote(p, c) ==
    /\ Starts(p, "target", c)
    /\ head[c] # None
    /\ eval' = [eval EXCEPT ![p].cand = head[c]]
    /\ UNCHANGED <<world, store, prov, look, held, failed, history, moves>>

\* A step of the evaluation: it goes on with what it learnt, or it is refused.
Evaluate(p, from, ok, to, e) ==
    /\ At(p, from, IF ok THEN to ELSE "done")
    /\ eval' = [eval EXCEPT ![p] = IF ok THEN e ELSE NoEval]
    /\ UNCHANGED <<world, store, of, prov, look, held, failed, history, moves>>

EvalTarget(p) ==
    Evaluate(p, "target", TRUE, "run", [eval[p] EXCEPT !.target = head[Main]])

\* latest_run of the candidate's environment.
Latest(r, c) == \E i \in 1..Len(order) :
    /\ order[i] = r /\ of[r] = c
    /\ \A k \in i + 1..Len(order) : of[order[k]] # c
LatestRun(c) ==
    IF \E r \in Runs : Latest(r, c) THEN CHOOSE r \in Runs : Latest(r, c)
                                    ELSE NoRun

\* Variant: a run that passed, whatever commit it left.
RunGate_AnyCommit(r, cand) == r # NoRun /\ row[r].status = "passed"
\* The gates run, tests and blocked.
RunGate(r, cand) ==
    r # NoRun /\ row[r].status = "passed" /\ row[r].bound = cand
TestGates(r) == r # NoRun /\ row[r].tests \notin {"failed", "cancelled"}

EvalRun(p) ==
    LET r == LatestRun(of[p])
    IN  Evaluate(p, "run", RunGate(r, eval[p].cand) /\ TestGates(r),
                 "evidence", [eval[p] EXCEPT !.run = r])

\* Variant: an audit speaks for whatever came after it.
Fresh_AnyAudit(d, c, cand, target) == TRUE
\* audited_diff: the report speaks for the commits and the records it names.
Fresh(d, c, cand, target) ==
    /\ d.cand = cand /\ d.base = target
    /\ d.candTables = recorded[c] /\ d.baseTables = recorded[Main]

\* contract_breaking_changes: the workspace against what main recorded.
EvalEvidence(p) ==
    LET c == of[p]
        e == eval[p]
    IN  Evaluate(p, "evidence", TRUE, "gates",
          [e EXCEPT
            !.setup = setup[c], !.report = report[c],
            !.fresh = \E d \in report[c] : Fresh(d, c, e.cand, e.target),
            !.strict = \E m \in Models : recorded[Main][m] \in Stricter])

\* The commit of the target the evidence was established against.
Expected(e) ==
    IF e.report # {} THEN (CHOOSE d \in e.report : TRUE).base
    ELSE IF e.setup # {} THEN (CHOOSE s \in e.setup : TRUE).from
    ELSE None

SchemaGate(e) ==
    IF e.strict \/ \E d \in e.report : d.breaks
    THEN e.option.waive
    ELSE e.fresh
DataGate(e) ==
    e.option.require => e.fresh /\ \E d \in e.report : d.verdict = "passed"
BaseGate(e) == Expected(e) # None /\ Expected(e) = e.target

\* The merge check is a dry run on the heads of this moment.
MergeGate(c) == head[c] # None /\ ~Conflict(head[c], head[Main])

\* The options of the command are not looked at before.
Gates(p, option) ==
    LET e == [eval[p] EXCEPT !.option = option]
    IN  Evaluate(p, "gates", /\ SchemaGate(e) /\ DataGate(e) /\ BaseGate(e)
                             /\ MergeGate(of[p]), "again", e)

\* promote resolves both references again.
ReadAgain(p) ==
    Evaluate(p, "again", /\ head[of[p]] = eval[p].cand
                         /\ head[Main] = Expected(eval[p]), "merge", eval[p])

\* The server asserts the target's hash, and takes the commit pinned if the
\* source has it.  A merge of what the target has is no commit.
DoMerge(p) ==
    LET e == eval[p]
        onto == Expected(e)
    IN  /\ At(p, "merge", IF ~e.option.clean THEN "done"
                          ELSE IF \E s \in e.setup : s.owned THEN "drop"
                          ELSE "find")
        /\ head[Main] = onto
        /\ e.cand \in Contains(head[of[p]]) /\ ~Conflict(e.cand, onto)
        /\ IF e.cand \in Contains(onto) THEN UNCHANGED <<commits, head, alone>>
           ELSE /\ Put(Main, MergedTables(e.cand, onto),
                       Contains(onto) \cup Contains(e.cand))
                /\ Moved(Main, NoRun)
        /\ merges' = merges \cup
             { [by |-> p, run |-> e.run, from |-> e.cand, onto |-> onto,
                into |-> head'[Main], eval |-> e, resets |-> resets] }
        /\ eval' = [eval EXCEPT ![p] = NoEval]
        /\ UNCHANGED <<catalog, store, of, prov, look, held, failed, dropped,
                       made, resets, moves>>

\* The server refuses.
FailMerge(p) ==
    /\ \/ head[Main] # Expected(eval[p])
       \/ eval[p].cand \notin Contains(head[of[p]])
       \/ Conflict(eval[p].cand, head[Main])
    /\ Evaluate(p, "merge", FALSE, "done", NoEval)

-----------------------------------------------------------------------------
(***************************************************************************)
(* cleanup_candidate, after a promotion or for ref delete.                 *)
(***************************************************************************)
\* A promotion goes by the record it evaluated; ref delete reads it first,
\* and is refused for main.
StartDelete(x, c) ==
    /\ Starts(x, IF \E s \in setup[c] : s.owned THEN "drop" ELSE "find", c)
    /\ Move
    /\ UNCHANGED <<world, store, mine, history>>

DropCatalog(x) ==
    /\ At(x, "drop", "find")
    /\ catalog' = [catalog EXCEPT ![of[x]] = "absent"]
    /\ dropped' = dropped \cup {of[x]}
    /\ UNCHANGED <<commits, head, store, of, mine, merges, alone, made,
                   resets, moves>>

\* delete_branch resolves the head and deletes the branch at that head.  A
\* branch that is gone counts as deleted.
DeleteBranch(x) ==
    /\ At(x, "find", "forget")
    /\ head' = [head EXCEPT ![of[x]] = None]
    /\ Moved(of[x], NoRun)
    /\ UNCHANGED <<commits, catalog, store, of, mine, merges, dropped, made,
                   resets, moves>>

\* The other steps are tried all the same.
FailCleanup(x) ==
    /\ At(x, "drop", "find") \/ At(x, "find", "forget")
    /\ Move
    /\ failed' = failed \cup {x}
    /\ UNCHANGED <<world, store, of, prov, look, eval, held, history>>

\* remove_environment_artifacts, unless a step failed.
Forget(x) ==
    /\ At(x, "forget", "done")
    /\ setup' = IF x \in failed THEN setup ELSE [setup EXCEPT ![of[x]] = {}]
    /\ failed' = failed \ {x}
    /\ UNCHANGED <<world, row, order, recorded, report, of, prov, look, eval,
                   held, history, moves>>

-----------------------------------------------------------------------------
(***************************************************************************)
(* What others do.                                                         *)
(***************************************************************************)
\* rollback: a reference is moved to a commit it contains.
Rollback(ref, n) ==
    /\ Move
    /\ n \in Contains(head[ref]) \ {head[ref]}
    /\ head' = [head EXCEPT ![ref] = n]
    /\ Moved(ref, NoRun)
    /\ resets' = resets + 1
    /\ UNCHANGED <<commits, catalog, store, process, merges, dropped, made>>

\* Somebody makes a branch off main, or a catalog of the generated name.
ForeignBranch(c, n) ==
    /\ Move
    /\ head[c] = None /\ n \in Contains(head[Main])
    /\ head' = [head EXCEPT ![c] = n]
    /\ Moved(c, NoRun) /\ Made(c, n)
    /\ UNCHANGED <<commits, catalog, store, process, merges, dropped, resets>>

ForeignCatalog(c) ==
    /\ Move
    /\ catalog[c] = "absent"
    /\ catalog' = [catalog EXCEPT ![c] = "foreign"]
    /\ UNCHANGED <<commits, head, store, process, history>>

-----------------------------------------------------------------------------
ProvisionStep ==
    \/ \E x \in Provisioners :
        \/ \E c \in Candidates : StartOn(x, c)
        \/ ReadBase(x) \/ CutBranch(x) \/ TakeBranch(x) \/ RecordSetup(x)
    \/ \E r \in Runs : \/ StartOnMain(r) \/ CreateCatalog(r) \/ TakeCatalog(r)
                       \/ RefuseCatalog(r) \/ UndoBranch(r)

RunStep == \E r \in Runs :
    \/ \E selected \in Selects[r] : \E reused \in SUBSET selected :
            Begin(r, selected, reused)
    \/ \E m \in Models : Write(r, m) \/ Note(r, m)
    \/ \E tests \in {"passed", "cancelled"} : Pass(r, tests)
    \/ Fail(r) \/ ResolveRun(r) \/ BindRun(r)

AuditStep == \E a \in Auditors :
    \/ \E c \in Candidates : StartAudit(a, c)
    \/ ReadTarget(a) \/ ReadVersions(a)
    \/ \E verdict \in Verdicts : Compare(a, verdict)

PromoteStep == \E p \in Promoters :
    \/ \E c \in Candidates : StartPromote(p, c)
    \/ EvalTarget(p) \/ EvalRun(p) \/ EvalEvidence(p)
    \/ \E option \in Options : Gates(p, option)
    \/ ReadAgain(p) \/ DoMerge(p) \/ FailMerge(p)

CleanupStep ==
    \/ \E x \in Deleters, c \in Candidates : StartDelete(x, c)
    \/ \E x \in Cleaners :
        DropCatalog(x) \/ DeleteBranch(x) \/ FailCleanup(x) \/ Forget(x)

OtherStep ==
    \/ \E ref \in Refs, n \in 1..Len(commits) : Rollback(ref, n)
    \/ \E c \in Candidates :
        (\E n \in 1..Len(commits) : ForeignBranch(c, n)) \/ ForeignCatalog(c)

Next == \/ ProvisionStep \/ RunStep \/ AuditStep
        \/ PromoteStep \/ CleanupStep \/ OtherStep

Spec == Init /\ [][Next]_vars

-----------------------------------------------------------------------------
(***************************************************************************)
(* What is promised.                                                       *)
(***************************************************************************)
\* What reaches the target was validated: a merge takes the commit that the
\* run it rests on was bound to, and that run passed with no test failed or
\* cancelled.  Where a data diff was required, a passed one had compared the
\* two commits that were merged, whatever moved since it was read.
MergeIsVetted(e) ==
    /\ row[e.run].status = "passed" /\ row[e.run].bound = e.from
    /\ row[e.run].tests = "passed"
    /\ e.eval.option.require =>
         \E d \in e.eval.report :
            d.verdict = "passed" /\ d.cand = e.from /\ d.base = e.onto
MergesAreVetted == \A e \in merges : MergeIsVetted(e)

\* A column does not disappear from the target unless the promotion waived
\* it: although an audit reads the heads before it compares, and a promotion
\* reads everything again, one thing after the other, while branches are
\* removed and made again.  Only a reference set back by hand can show an
\* audit something else.
NoUnseenBreak == \A e \in merges :
    Breaks(TablesAt(e.into), TablesAt(e.onto)) => e.eval.option.waive \/ e.resets # 0

\* A promotion that no audit compared with this target goes by the commit the
\* branch was cut from: that is a commit the branch does contain, although
\* the record outlives branches and survives re-provisioning.  Unless one was
\* made again, under such a record, at a commit Main had left behind.
ProvenanceHolds == \A e \in merges :
    e.eval.report = {} /\ e.resets = 0 /\ made[of[e.by]] # "behind" =>
        e.onto \in Contains(e.from)

\* The commit a run is bound to holds what the run says of the tables it
\* selected, if nobody else moved the reference before it was bound.  The
\* head is read after the run, and tables may have been reused unbuilt.
MergesHoldTheirRun == \A e \in merges :
    e.run \in alone =>
        \A m \in row[e.run].selected :
            TablesAt(e.from)[m] = row[e.run].stands[m]

\* No run goes on in a catalog somebody else made, and no ownership of one is
\* recorded, unless a cleanup had dropped phlo's own under a record that was
\* used once more.
NobodyElsesCatalog == \A c \in Candidates :
    catalog[c] = "foreign" /\ c \notin dropped =>
        /\ \A s \in setup[c] : ~s.owned
        /\ \A r \in Runs : of[r] = c =>
                at[r] \notin {"record", "ready", "running", "bind", "binding"}

\* Commits that are lost with a branch, unless references were set back by
\* hand, are lost when it is deleted for its own sake; or by the
\* cleanup of a promotion, and then they were not in what it merged; or by a
\* provisioning that undoes the branch it made, and then they were made
\* after it did.
Lost(c) == Contains(head[c]) \ Contains(head[Main])
Ends(x, c, from) == of[x] = c /\ at[x] = from /\ at'[x] # from
DeletedFor(x, c, lost) ==
    \/ x \in Deleters /\ Ends(x, c, "find")
    \/ /\ x \in Promoters /\ Ends(x, c, "find")
       /\ \E e \in merges :
            e.by = x /\ lost \cap Contains(e.from) = {}
    \/ /\ x \in Runs /\ Ends(x, c, "undo")
       /\ prov[x].cut # None /\ \A n \in lost : n > prov[x].cut
OnlyLateWorkIsLost == [][\A c \in Candidates :
    head[c] # None /\ head'[c] = None /\ Lost(c) # {} /\ resets = 0 =>
        \E x \in Processes : DeletedFor(x, c, Lost(c))]_vars
=============================================================================
