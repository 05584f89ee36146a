----------------------------- MODULE Incremental -----------------------------
(***************************************************************************)
(* One incremental model of a workspace: what its table holds of the rows  *)
(* of its source (exec_op, execute_op and advance_watermark of run.rs, the *)
(* statements of the adapters, the watermark in state.rs).                 *)
(*                                                                         *)
(* Runs plan with the record and the watermark of their label, execute one *)
(* statement after another, and record when they end.  Between any two of  *)
(* their steps rows arrive, other runs write, a branch is cut, merged or   *)
(* rolled back, an answer is lost, or the run ends.                        *)
(*                                                                         *)
(* Row n is the n-th to arrive, and n is its value in the window column:   *)
(* rows arrive in the order of the window.                                 *)
(***************************************************************************)
EXTENDS Naturals, Sequences, FiniteSets

CONSTANTS
    Slots,        \* runs there may be at the same time
    Labels,       \* what runs may be started with as their environment
    Shared,       \* labels that mean the catalog of main
    Kinds,        \* how the model may be configured, and on which adapter
    MaxAttempts,  \* attempts of a model
    MaxRows,      \* bound: rows that arrive
    MaxMoves,     \* bound: failures, runs cut short, merges and rollbacks
    MaxSteps      \* bound: these, and runs started, together, one beside
                  \* another counting twice

ASSUME LabelAssumption == Shared \subseteq Labels /\ Labels # {}
ASSUME KindAssumption ==
    Kinds \subseteq [strategy : {"append", "key", "partition", "window"},
                     adapter : {"trino", "duckdb"}, overlap : Nat]
ASSUME BoundAssumption ==
    /\ MaxRows \in Nat \ {0} /\ MaxSteps \in Nat
    /\ MaxMoves \in Nat /\ MaxAttempts \in Nat \ {0}

VARIABLES
    kind,    \* never changes
    source,  \* rows that have arrived
    table,   \* the model's table in the catalog of main and of the candidate
    before,  \* that of main as it was before its last commit
    snaps,   \* snapshots made
    cut,     \* the snapshot of main the candidate was cut at, if it was
    mark,    \* table incremental_state
    record,  \* table model_versions
    clock,   \* the last finished_at handed out
    run,     \* what is going on in each slot
    runs,    \* runs started, counted like this
    late,    \* statements nobody waits for any more
    slips,   \* history: what has happened so far that may repeat or lose rows
    moves    \* how many failures and moves so far

state == <<mark, record, clock>>
tables == <<table, before, snaps>>
vars == <<kind, source, tables, cut, state, run, runs, late, slips, moves>>

Rows == 1..MaxRows
Catalogs == {"main", "candidate"}
Catalog(l) == IF l \in Shared THEN "main" ELSE "candidate"

-----------------------------------------------------------------------------
\* How often a table holds each row; twice stands for more often.  snap is the
\* commit that left it so.
Held == [Rows -> 0..2]
Absent == [there |-> FALSE, rows |-> [n \in Rows |-> 0], snap |-> 0]
Table == [there : BOOLEAN, rows : Held, snap : Nat]

\* A watermark, with the run that left it by its start, and a record, with its
\* materialized_at.  A version is the number of rows there were when the model
\* was compiled.  Value, version, snap and at are 0 when there is none.
Mark == [value : 0..MaxRows, by : Nat]
Record == [version : 0..MaxRows, snap : Nat, at : Nat]
NoMark == [value |-> 0, by |-> 0]
NoRecord == [version |-> 0, snap |-> 0, at |-> 0]

Statement == {"drop", "create", "replace", "insert", "delete", "merge"}

\* from is the bound in the predicate of a time window, seen what was read of
\* the table last, reuse the label whose record is adopted, stamp what the
\* record of this run is going to have for its materialized_at.
Run == [at : {"idle", "work", "built", "mark", "end", "adopt", "copy"},
        label : Labels, by : Nat, version : 0..MaxRows,
        todo : Seq(Statement), from : 0..MaxRows, attempt : 0..MaxAttempts,
        snap : Nat, stamp : Nat, seen : 0..MaxRows, reuse : Labels]
AnyLabel == CHOOSE l \in Labels : TRUE
Idle == [at |-> "idle", label |-> AnyLabel, by |-> 0, version |-> 0,
         todo |-> <<>>, from |-> 0, attempt |-> 0, snap |-> 0, stamp |-> 0,
         seen |-> 0, reuse |-> AnyLabel]
Late == [does : Statement, catalog : Catalogs, from : 0..MaxRows]

Slips == {"lost answer", "left running", "no watermark", "no record",
          "half done", "side by side", "other label", "published", "set back", "copied"}

TypeOK ==
    /\ kind \in Kinds
    /\ source \in 1..MaxRows
    /\ table \in [Catalogs -> Table] /\ before \in Table
    /\ \A c \in Catalogs : table[c].snap <= snaps
    /\ snaps \in Nat /\ cut \subseteq 0..snaps
    /\ mark \in [Labels -> Mark] /\ record \in [Labels -> Record]
    /\ clock \in Nat
    /\ run \in [Slots -> Run]
    /\ \A x \in Slots : run[x].at \in {"work", "adopt"} <=> run[x].todo # <<>>
    /\ runs + moves <= MaxSteps /\ runs \in Nat
    /\ late \subseteq Late
    /\ slips \subseteq Slips
    /\ moves \in 0..MaxMoves

Init ==
    /\ kind \in Kinds
    /\ source = 1
    /\ table = [c \in Catalogs |-> Absent] /\ before = Absent
    /\ snaps = 0 /\ cut = {}
    /\ mark = [l \in Labels |-> NoMark]
    /\ record = [l \in Labels |-> NoRecord]
    /\ clock = 0
    /\ run = [x \in Slots |-> Idle]
    /\ runs = 0
    /\ late = {} /\ slips = {} /\ moves = 0

Slip(what) == slips' = slips \cup what
Move == /\ moves < MaxMoves /\ runs + moves < MaxSteps
        /\ moves' = moves + 1

-----------------------------------------------------------------------------
(***************************************************************************)
(* The warehouse.                                                          *)
(***************************************************************************)
Least(a, b) == IF a <= b THEN a ELSE b
Possible(does, t) ==
    IF does = "create" THEN ~t.there
    ELSE does \in {"drop", "replace"} \/ t.there

\* What the statement makes of how often a table has row n.
Makes(does, has, n, from) ==
    CASE does = "drop" -> 0
      [] does \in {"create", "replace"} -> IF n <= source THEN 1 ELSE 0
      [] does = "insert" ->
            IF n \in from + 1..source THEN Least(has + 1, 2) ELSE has
      [] does = "delete" -> IF n <= source THEN 0 ELSE has
      [] does = "merge" -> IF n <= source /\ has = 0 THEN 1 ELSE has

Apply(does, c, from) ==
    /\ Possible(does, table[c])
    /\ snaps' = snaps + 1
    /\ table' = [table EXCEPT ![c] =
         IF does = "drop" THEN [Absent EXCEPT !.snap = snaps + 1]
         ELSE [there |-> TRUE, snap |-> snaps + 1,
               rows |-> [n \in Rows |-> Makes(does, @.rows[n], n, from)]]]
    /\ before' = IF c = "main" THEN table["main"] ELSE before

\* output_identity: only Trino can tell one content from another.
Identity(c) == IF kind.adapter = "trino" /\ table[c].there THEN table[c].snap ELSE 0
\* Variant: the query is about the source.
Highest_OfSource(c) == source
\* The query of advance_watermark.
Highest(c) ==
    LET there == {n \in Rows : table[c].rows[n] > 0}
    IN  IF there = {} THEN 0 ELSE CHOOSE n \in there : \A k \in there : k <= n

-----------------------------------------------------------------------------
(***************************************************************************)
(* Planning.                                                               *)
(***************************************************************************)
\* merge_latest: the record in the scope of a label is, of those of one catalog
\* under its labels, the one materialised last.
Scope(l) == IF l \in Shared THEN Shared ELSE {l}
Current(l) ==
    record[CHOOSE k \in Scope(l) : \A j \in Scope(l) : record[j].at <= record[k].at]

\* Variant: the table is not looked at.
Unchanged_Unseen(l) == table[Catalog(l)].there /\ Current(l).version = source
\* Nothing to do, when nothing shows that the table is not what it was.
Unchanged(l) ==
    /\ table[Catalog(l)].there
    /\ Current(l).version = source
    /\ Current(l).snap # 0 => Identity(Catalog(l)) = Current(l).snap

\* Records of other labels whose output is at the target already.
Adoptable(l) == {o \in Labels :
    /\ Current(l).version = 0 /\ table[Catalog(l)].there
    /\ record[o].version = source /\ record[o].snap # 0
    /\ Identity(Catalog(l)) = record[o].snap}

\* exec_op: the statements, with whole for a build from scratch.
Whole(full, l) == full \/ (kind.strategy = "window" /\ mark[l].value = 0)
Statements(whole) ==
    CASE whole /\ kind.adapter = "trino" -> <<"drop", "create">>
      [] whole /\ kind.adapter = "duckdb" -> <<"replace">>
      [] ~whole /\ kind.strategy \in {"append", "window"} -> <<"insert">>
      [] ~whole /\ kind.strategy = "key" /\ kind.adapter = "trino" -> <<"merge">>
      [] OTHER -> <<"delete", "insert">>

\* Variant: the predicate includes the watermark.
Bound_Included(l) == IF mark[l].value = 0 THEN 0 ELSE mark[l].value - 1
\* time_window_predicate.
Bound(l) == IF kind.strategy # "window" \/ mark[l].value < kind.overlap THEN 0
            ELSE mark[l].value - kind.overlap

Working(x, l, full) ==
    [Idle EXCEPT !.at = "work", !.label = l, !.by = runs',
        !.version = source, !.attempt = 1,
        !.todo = Statements(Whole(full, l)), !.from = Bound(l)]

\* Somebody else is at work; another label of the catalog has left the
\* watermark of this one behind.
Beside == IF \E x \in Slots : run[x].at # "idle" THEN {"side by side"} ELSE {}
Behind(l) == \E o \in Labels :
    Catalog(o) = Catalog(l) /\ mark[o].value > mark[l].value

\* An adoption has the record it adopts with it, and a build from scratch to
\* fall back on.
Start(x, l, forced) ==
    LET full == ~table[Catalog(l)].there \/ Current(l).version = 0
    IN  /\ run[x].at = "idle"
        /\ l \in Shared \/ cut # {}
        /\ forced \/ ~Unchanged(l)
        /\ runs' = runs + IF Beside = {} THEN 1 ELSE 2
        /\ runs' + moves <= MaxSteps
        /\ IF forced \/ Adoptable(l) = {}
           THEN run' = [run EXCEPT ![x] = Working(x, l, full)]
           ELSE \E o \in Adoptable(l) :
                run' = [run EXCEPT ![x] = [Working(x, l, TRUE) EXCEPT
                    !.at = "adopt", !.reuse = o, !.snap = record[o].snap,
                    !.stamp = record[o].at]]
        /\ Slip(Beside \cup IF Behind(l) THEN {"other label"} ELSE {})
        /\ UNCHANGED <<kind, source, tables, cut, state, late, moves>>

-----------------------------------------------------------------------------
(***************************************************************************)
(* An attempt.                                                             *)
(***************************************************************************)
Executing(x) == run[x].at = "work"
Does(x) == Head(run[x].todo)
Done(x) == IF Len(run[x].todo) = 1
           THEN [run[x] EXCEPT !.at = "built", !.todo = <<>>]
           ELSE [run[x] EXCEPT !.todo = Tail(@)]

Execute(x) ==
    /\ Executing(x)
    /\ Apply(Does(x), Catalog(run[x].label), run[x].from)
    /\ run' = [run EXCEPT ![x] = Done(x)]
    /\ UNCHANGED <<kind, source, cut, state, runs, late, slips, moves>>

\* Ended before its second statement.
HalfDone(x) == IF run[x].todo = <<"insert">> /\ kind.strategy \in {"key", "partition"}
               THEN {"half done"} ELSE {}

\* A statement fails: it had no effect, or its answer was lost on the way from
\* Trino.  Then the operation is tried again from its first statement, if the
\* error allows it, as only those of Trino do, or has failed.
Fail(x, applied, again) ==
    /\ Executing(x) /\ Move
    /\ applied \/ again => kind.adapter = "trino"
    /\ again => run[x].attempt < MaxAttempts
    /\ IF applied THEN Apply(Does(x), Catalog(run[x].label), run[x].from)
       ELSE UNCHANGED tables
    /\ run' = [run EXCEPT ![x] =
         IF again THEN [run[x] EXCEPT !.attempt = @ + 1,
                          !.todo = IF Does(x) \in {"drop", "create", "replace"}
                                   THEN Statements(TRUE) ELSE Statements(FALSE)]
         ELSE Idle]
    /\ Slip(HalfDone(x) \cup (IF applied THEN {"lost answer"} ELSE {})
            \cup (IF applied /\ Does(x) = "delete" THEN {"half done"} ELSE {}))
    /\ UNCHANGED <<kind, source, cut, state, runs, late>>

\* Refused for good: the table is not there any more, or there again.
Refuse(x) ==
    /\ Executing(x)
    /\ ~Possible(Does(x), table[Catalog(run[x].label)])
    /\ run' = [run EXCEPT ![x] = Idle]
    /\ Slip(HalfDone(x))
    /\ UNCHANGED <<kind, source, tables, cut, state, runs, late, moves>>

\* The attempt is timed out or aborted, or the process is gone: the statement
\* may still be executed.
Abandon(x) ==
    /\ Executing(x) /\ Move
    /\ late' = late \cup {[does |-> Does(x), catalog |-> Catalog(run[x].label),
                           from |-> run[x].from]}
    /\ run' = [run EXCEPT ![x] = Idle]
    /\ Slip({"left running"} \cup HalfDone(x))
    /\ UNCHANGED <<kind, source, tables, cut, state, runs>>

ExecuteLate(s) ==
    /\ s \in late
    /\ Apply(s.does, s.catalog, s.from)
    /\ late' = late \ {s}
    /\ UNCHANGED <<kind, source, cut, state, run, runs, slips, moves>>

-----------------------------------------------------------------------------
(***************************************************************************)
(* The main loop, and the record.                                          *)
(***************************************************************************)
\* A task is joined: what the table holds by now is captured, and
\* advance_watermark reads max(column) of it.
Join(x) ==
    /\ run[x].at = "built"
    /\ LET c == Catalog(run[x].label)
       IN  run' = [run EXCEPT ![x].snap = Identity(c), ![x].seen = Highest(c),
             ![x].at = IF kind.strategy = "window" /\ Highest(c) > 0 THEN "mark"
                       ELSE "end"]
    /\ UNCHANGED <<kind, source, tables, cut, state, runs, late, slips, moves>>

\* A task that had completed when the run was cancelled or failed fast.
Drain(x) ==
    /\ run[x].at = "built" /\ Move
    /\ run' = [run EXCEPT ![x].at = "end",
                          ![x].snap = Identity(Catalog(run[x].label))]
    /\ Slip({"no watermark"})
    /\ UNCHANGED <<kind, source, tables, cut, state, runs, late>>

\* set_watermark: the value of a run that started later stands.
Later(l, value, by) ==
    IF by >= mark[l].by THEN [mark EXCEPT ![l] = [value |-> value, by |-> by]]
    ELSE mark
SetMark(x) ==
    /\ run[x].at = "mark"
    /\ mark' = Later(run[x].label, run[x].seen, run[x].by)
    /\ run' = [run EXCEPT ![x].at = "end"]
    /\ UNCHANGED <<kind, source, tables, cut, record, clock, runs, late, slips,
                   moves>>

\* finished_at is taken once, before the first record is written.
Finish(x) ==
    /\ run[x].at = "end" /\ run[x].stamp = 0
    /\ clock' = clock + 1
    /\ run' = [run EXCEPT ![x].stamp = clock + 1]
    /\ UNCHANGED <<kind, source, tables, cut, mark, record, runs, late, slips, moves>>

\* record_materialized: a record is replaced by one that is not older.
Recorded(r) ==
    IF r.stamp >= record[r.label].at
    THEN [record EXCEPT ![r.label] =
            [version |-> r.version, snap |-> r.snap, at |-> r.stamp]]
    ELSE record

\* The table must hold what was captured.
Claims(x) == run[x].snap # 0 => Identity(Catalog(run[x].label)) = run[x].snap
End(x) ==
    /\ run[x].at = "end" /\ run[x].stamp # 0
    /\ record' = IF Claims(x) THEN Recorded(run[x]) ELSE record
    /\ run' = [run EXCEPT ![x] = Idle]
    /\ UNCHANGED <<kind, source, tables, cut, mark, clock, runs, late, slips, moves>>

\* An adoption that still holds is recorded, with the materialized_at it had.
\* Otherwise the model is built from scratch.
Adopt(x) ==
    LET r == run[x]
        holds == Identity(Catalog(r.label)) = r.snap
    IN  /\ r.at = "adopt"
        /\ record' = IF holds THEN Recorded(r) ELSE record
        /\ run' = [run EXCEPT ![x] =
             IF ~holds THEN [r EXCEPT !.at = "work", !.snap = 0, !.stamp = 0]
             ELSE IF kind.strategy = "window" THEN [r EXCEPT !.at = "copy", !.todo = <<>>]
             ELSE Idle]
        /\ UNCHANGED <<kind, source, tables, cut, mark, clock, runs, late, slips, moves>>

\* The watermark of the label adopted from, as it is by now.
CopyMark(x) ==
    LET r == run[x]
    IN  /\ r.at = "copy"
        /\ mark' = IF mark[r.reuse].value = 0 THEN mark
                   ELSE Later(r.label, mark[r.reuse].value, r.by)
        /\ Slip(IF table[Catalog(r.reuse)].snap # r.snap THEN {"copied"} ELSE {})
        /\ run' = [run EXCEPT ![x] = Idle]
        /\ UNCHANGED <<kind, source, tables, cut, record, clock, runs, late, moves>>

\* The run ends where it is: it dies, or it is not allowed to go on.
Stop(x) ==
    /\ run[x].at # "idle" /\ Move
    /\ run' = [run EXCEPT ![x] = Idle]
    /\ Slip(HalfDone(x) \cup
            (IF run[x].at \in {"built", "mark", "copy"} THEN {"no watermark"} ELSE {}) \cup
            (IF run[x].at = "end" THEN {"no record"} ELSE {}))
    /\ UNCHANGED <<kind, source, tables, cut, state, runs, late>>

-----------------------------------------------------------------------------
(***************************************************************************)
(* Rows, and the candidate branch.                                         *)
(***************************************************************************)
Arrive ==
    /\ source < MaxRows /\ source' = source + 1
    /\ UNCHANGED <<kind, tables, cut, state, run, runs, late, slips, moves>>

\* What a copy of the table in a catalog is cut off from: the second statement
\* of those who have executed their first.
Halves(c) == UNION {HalfDone(x) : x \in {y \in Slots : Catalog(run[y].label) = c}}

\* The candidate is cut from main.
CutBranch ==
    /\ kind.adapter = "trino" /\ cut = {}
    /\ table' = [table EXCEPT !["candidate"] = table["main"]]
    /\ cut' = {table["main"].snap}
    /\ Slip(Halves("main"))
    /\ UNCHANGED <<kind, source, before, snaps, state, run, runs, late, moves>>

\* It is merged, as a run that has passed left it: there is a conflict if main
\* has a new snapshot.
Publish ==
    /\ Move
    /\ table["main"].snap \in cut /\ table["candidate"].snap \notin cut
    /\ \E l \in Labels \ Shared : record[l].snap = table["candidate"].snap
    /\ table' = [table EXCEPT !["main"] = table["candidate"]]
    /\ before' = table["main"]
    /\ cut' = {table["candidate"].snap}
    /\ Slip({"published"} \cup Beside \cup Halves("candidate"))
    /\ UNCHANGED <<kind, source, snaps, state, run, runs, late>>

\* rollback: main is moved to the commit before the last one.
Rollback ==
    /\ Move
    /\ kind.adapter = "trino" /\ before.there /\ before # table["main"]
    /\ table' = [table EXCEPT !["main"] = before]
    /\ Slip({"set back"} \cup Beside)
    /\ UNCHANGED <<kind, source, before, snaps, cut, state, run, runs, late>>

-----------------------------------------------------------------------------
RunStep == \E x \in Slots :
    \/ \E l \in Labels, forced \in BOOLEAN : Start(x, l, forced)
    \/ Execute(x) \/ Refuse(x)
    \/ Join(x) \/ SetMark(x) \/ Finish(x) \/ End(x)
    \/ Adopt(x) \/ CopyMark(x)
FaultStep ==
    \/ \E x \in Slots :
        \/ \E applied, again \in BOOLEAN : Fail(x, applied, again)
        \/ Abandon(x) \/ Drain(x) \/ Stop(x)
    \/ \E s \in late : ExecuteLate(s)
WorldStep == Arrive \/ CutBranch \/ Publish \/ Rollback

Next == RunStep \/ FaultStep \/ WorldStep

Spec == Init /\ [][Next]_vars

-----------------------------------------------------------------------------
(***************************************************************************)
(* What is promised.                                                       *)
(***************************************************************************)
Happened(some) == slips \cap some # {}
Present(c) == {n \in Rows : table[c].rows[n] > 0}
IsPrefix(rows) == \E k \in 0..MaxRows : rows = 1..k

\* No row is passed over: a table holds the rows of its source up to some
\* row, with every row up to the watermark of each of its labels.  Only a
\* reference set back under its watermark, and a watermark copied from a
\* table that had moved on, break this.
RowsAreKept ==
    Happened({"set back", "copied"}) \/
    \A l \in Labels :
        table[Catalog(l)].there =>
            /\ IsPrefix(Present(Catalog(l)))
            /\ 1..mark[l].value \subseteq Present(Catalog(l))

\* No row is appended twice.  A key never lets it happen, where the merge is
\* one statement; a deletion and an insertion let it happen to runs that are
\* not alone; a window also to a row whose append was not followed by its
\* watermark, and the watermark by the record.
Excuses ==
    IF kind.strategy = "window"
    THEN Slips \ {"half done", "set back", "copied"}
    ELSE IF kind.strategy = "key" /\ kind.adapter = "trino" THEN {}
    ELSE {"side by side", "left running"}
RowsAreSingle ==
    kind.strategy = "append" \/ kind.overlap > 0 \/ Happened(Excuses) \/
    \A c \in Catalogs, n \in Rows : table[c].rows[n] <= 1

\* What the planner would leave unbuilt is complete: every row there was when
\* the recorded version was compiled.  An operation of two statements that is
\* between them, or was cut in two, is noticed by the identity of the table;
\* unless the record has none, as on DuckDB, or somebody else wrote or captured
\* the table in between.
SkippedIsComplete ==
    Happened({"set back", "copied"}) \/
    \A l \in Labels : Unchanged(l) =>
        \/ 1..source \subseteq Present(Catalog(l))
        \/ /\ Current(l).snap = 0 \/ Happened({"side by side", "left running"})
           /\ \/ Happened({"half done", "left running"})
              \/ Halves(Catalog(l)) # {}
=============================================================================
