------------------------------ MODULE Evidence ------------------------------
(***************************************************************************)
(* The evidence that promotions rest on (audit.rs): reports of a branch    *)
(* diff (branch_diff.rs), of a lineage diff (engine lineage_diff.rs), and  *)
(* bindings of a branch to a catalog.  Each is a file of the machine that  *)
(* made it, one slot per kind, and a record of the store that the machines *)
(* share.  An audit weighs the two, brings a file's content into the store *)
(* and judges whether what it found still holds.                           *)
(*                                                                         *)
(* A step is a call of the store or a write of a file; a process may stop  *)
(* before any of them.  One model stands for the datasets of a branch.     *)
(* The commit of a branch is the number of times it has moved.             *)
(***************************************************************************)
EXTENDS Compare

CONSTANTS Machines,
          Cases      \* sets of: the workspace, the branches, what may go on, bounds

Candidates == {"dev", "exp"}

(* A relation that exists has columns, of some type.  A row has a value for *)
(* whatever the model names.                                               *)
IsSequence(s) == s \in Seq(ToSet(s))

IsTable(table, names) ==
    /\ DOMAIN table = {"exists", "schema", "rows", "record", "snapshot"}
    /\ table.exists \in BOOLEAN /\ (table.exists => DOMAIN table.schema # {})
    /\ \A c \in DOMAIN table.schema :
          table.schema[c].type \in STRING \ {""} /\ table.schema[c].nullable \in BOOLEAN
    /\ IsSequence(table.rows)
    /\ \A i \in DOMAIN table.rows : \A c \in names : table.rows[i][c] \in Nat
    /\ table.record # <<>> => IsContract(table.record[1].contract)

IsModel(model) ==
    /\ IsFiniteSet(model.outputs) /\ IsSequence(model_keys(model))
    /\ IsContract(model.contract)
    /\ model.policy # <<>> => model.policy[1].tolerance \in Nat

IsCase(c) ==
    LET names == IF c.model = <<>> THEN {}
                 ELSE c.model[1].outputs \cup ToSet(model_keys(c.model[1]))
    IN  /\ c.model # <<>> => IsModel(c.model[1])
        /\ \A side \in {c.dev, c.main} :
              /\ IsSequence(side) /\ side # <<>>
              /\ \A n \in DOMAIN side : IsTable(side[n], names)
        /\ c.pairs \subseteq Candidates \X {"main", "release"}
        /\ c.same \in BOOLEAN /\ c.faulty \in BOOLEAN /\ c.slow \subseteq Machines
        /\ c.calls \in Nat

ASSUME CaseAssumption == \A kind \in Cases : \A c \in kind : IsCase(c)

VARIABLES case,      \* chosen once
          head,      \* the commits of the branches
          git,       \* the working tree of each machine
          file,      \* the artifacts on each machine
          store,     \* the state store: its table of evidence
          task,      \* what each machine is doing
          answer,    \* what its last audit or reading said
          live,      \* the bindings of each candidate that may be its last
          calls      \* how many calls were begun: the time

vars == <<case, head, git, file, store, task, answer, live, calls>>

S == INSTANCE SqliteStore

Idle == [op |-> "idle"]
None == [op |-> "none"]

(* A clock may be behind by two calls.                                     *)
Now(m) == LET n == IF m \in case.slow THEN calls ELSE calls + 2
          IN  [nano |-> n, micro |-> n, text |-> n]

-----------------------------------------------------------------------------
(* Branches.  "exp" was cut with "dev" and "release" with "main"; neither  *)
(* of them moves.                                                          *)

Side(ref, n) == IF ref \in Candidates THEN case.dev[n] ELSE case.main[n]
Heads(pair)  == <<head[pair[1]], head[pair[2]]>>
Current(ref) == Side(ref, head[ref])

Version(side) == IF side.record = <<>> THEN <<>> ELSE <<side.record[1].hash>>

Changed(new, old) ==
    IF Version(new) = <<>> THEN new.snapshot # old.snapshot ELSE Version(new) # Version(old)

Move(ref) ==
    /\ ref \in {"dev", "main"}
    /\ head[ref] < Len(IF ref = "dev" THEN case.dev ELSE case.main)
    /\ head' = [head EXCEPT ![ref] = @ + 1]
    /\ UNCHANGED <<case, git, file, store, task, answer, live, calls>>

-----------------------------------------------------------------------------
(* The report of a branch diff.  "lost" is a read of the warehouse that    *)
(* failed, which the code takes for a table, or columns, that are absent.  *)

Reads == {"none", "new_exists", "old_exists", "new_columns", "old_columns"}

NoPolicy == [max_added_rows |-> <<>>, max_removed_rows |-> <<>>, max_modified_rows |-> <<>>,
             max_changed_fraction |-> <<>>, require_keyed_diff |-> FALSE,
             require_full_diff |-> FALSE, tolerance |-> 0]

diff_policy(model) == IF model.policy = <<>> THEN NoPolicy ELSE model.policy[1]

branch_diff(pair, bound, deep, lost) ==
    LET old == Current(pair[2])
        new == IF case.same THEN [old EXCEPT !.record = Current(pair[1]).record]
                            ELSE Current(pair[1])
        model == case.model
        There(side, read) == /\ side.exists
                             /\ model # <<>> \/ side.record # <<>>
                             /\ lost # read
        there == <<There(new, "new_exists"), There(old, "old_exists")>>
        Columns(side, present, read) == IF present /\ lost # read THEN side.schema ELSE <<>>
        renames == IF model = <<>> \/ model[1].contract = NoContract THEN <<>>
                   ELSE model[1].contract[1].renames
        keys == IF model = <<>> THEN <<>> ELSE model_keys(model[1])
        compared == deep /\ there = <<TRUE, TRUE>> /\ Changed(new, old) /\ model # <<>>
                      /\ (keys # <<>> \/ model[1].policy # <<>>)
        columns == IF compared THEN model[1].outputs \ ToSet(keys) ELSE {}
        readable == keys = <<>> \/ columns \cup ToSet(keys) \subseteq
                                      DOMAIN new.schema \cap DOMAIN old.schema
        diffs == IF compared /\ readable
                   THEN <<Assigned(diff(new.rows, old.rows, keys, columns, diff_policy(model[1])),
                                   [same_relation |-> case.same])>>
                   ELSE <<>>
    IN  [failed |-> compared /\ ~readable,
         candidate_ref |-> pair[1], base_ref |-> pair[2],
         candidate_hash |-> IF bound THEN <<head[pair[1]]>> ELSE <<>>,
         base_hash |-> IF bound THEN <<head[pair[2]]>> ELSE <<>>,
         listed |-> model # <<>> \/ new.record # <<>> \/ old.record # <<>>,
         versions |-> <<Version(new), Version(old)>>,
         changes |-> compare_column_lists(Columns(new, there[1], "new_columns"),
                                          Columns(old, there[2], "old_columns"), renames),
         diffs |-> diffs, deep |-> deep,
         passed |-> diffs = <<>> \/ diffs[1].passed,
         lost |-> lost]

Names(report, pair) == report.candidate_ref = pair[1] /\ report.base_ref = pair[2]

branch_diff_record(report, id) ==
    [id |-> id, kind |-> "branch_diff", subject |-> report.candidate_ref,
     target |-> report.base_ref, created_at |-> report.finished_at, payload |-> report]

-----------------------------------------------------------------------------
(* Evidence that the store does not have yet is added; the record that     *)
(* stands for it is named.                                                 *)
import_evidence(db, record) ==
    LET listed == S!evidence_for(db, record.kind, record.subject)
        standing == Only(listed, Where(listed, "target", record.target)
                                   \cap (Where(listed, "created_at", record.created_at)
                                          \cup Where(listed, "payload", record.payload)))
    IN  IF standing # <<>> THEN [db |-> db, id |-> standing[1].id]
        ELSE [db |-> S!record_evidence(db, record), id |-> record.id]

Weighed(report, id) == <<[report |-> report, id |-> id]>>

Outdates_Always(stamp, of_pair) == TRUE

(* A file newer than the newest record of its pair.                        *)
Outdates(stamp, of_pair) ==
    of_pair = <<>> \/ cmp_rfc3339(stamp, of_pair[1].created_at) > 0

(* The file if it names the pair and is newer than the store's record of   *)
(* it; else that record, or whatever there is, to be rejected.             *)
Weigh(slot, id, records, rest, pair, named, stamp) ==
    LET of_pair == Only(records, Where(records, "target", pair[2]))
        standing == of_pair \o records \o rest
        fresher == named /\ Outdates(slot[1][stamp], of_pair)
    IN  IF fresher \/ (slot # <<>> /\ records = <<>>)
          THEN Weighed(slot[1], id)
        ELSE IF standing # <<>> THEN Weighed(standing[1].payload, standing[1].id)
        ELSE <<>>

-----------------------------------------------------------------------------
(* What a report proves for a promotion at these heads, given the versions *)
(* that are recorded now.                                                  *)

Nothing == [audited |-> FALSE, rejected |-> TRUE, breaking |-> {}, passed |-> <<>>,
            base_hash |-> <<>>]

(* Bound to these heads, of all that is recorded and as it is recorded, and *)
(* of two relations.                                                       *)
StillHolds(report, heads, versions) ==
    /\ report.candidate_hash = <<heads[1]>>
    /\ report.base_hash = <<heads[2]>>
    /\ versions = (IF report.listed THEN report.versions ELSE <<<<>>, <<>>>>)
    /\ report.diffs = <<>> \/ ~report.diffs[1].same_relation

audited_diff(found, pair, heads, versions) ==
    IF found = <<>> THEN [Nothing EXCEPT !.rejected = FALSE]
    ELSE IF ~Names(found[1].report, pair) THEN Nothing
    ELSE
      LET report == found[1].report
          fresh == StillHolds(report, heads, versions)
          shallow == ~report.deep /\ report.diffs = <<>>
      IN  [audited |-> fresh, rejected |-> ~fresh \/ shallow,
           breaking |-> breaking_columns(report.changes),
           passed |-> IF shallow THEN <<>> ELSE <<report.passed>>,
           base_hash |-> report.base_hash]

(* Against what the target recorded, at the time of the promotion.         *)
contract_breaking_changes(record) ==
    IF case.model = <<>> THEN {}
    ELSE LET model == case.model[1]
             was == IF record = <<>> THEN NoContract ELSE record[1].contract
             key == IF record = <<>> THEN Known({}) ELSE recorded_key(record[1])
         IN  breaking_contract_changes(contract_diff(was, model.contract)
                                         \cup key_change(key, effective_key(model)))

-----------------------------------------------------------------------------
(* Machines begin one thing at a time, and may stop anywhere.              *)

Begin(m) == task[m] = Idle /\ calls < case.calls /\ calls' = calls + 1

Proceed(m, op, step) == task[m].op = op /\ task[m].step = step

Goto(m, step) == task' = [task EXCEPT ![m].step = step]
Done(m)       == task' = [task EXCEPT ![m] = Idle]
Says(m, what) == answer' = [answer EXCEPT ![m] = what]

Records(kind, subject) == S!evidence_for(store, kind, subject)

Stop(m) ==
    /\ task[m] # Idle
    /\ Done(m)
    /\ UNCHANGED <<case, head, git, file, store, answer, live, calls>>

-----------------------------------------------------------------------------
(* diff --from candidate --to target: the file first, then the record.     *)

Diff(m, pair, bound, deep, lost) ==
    /\ "diff" \in case.flows
    /\ lost # "none" => case.faulty
    /\ Begin(m)
    /\ LET report == Assigned(branch_diff(pair, bound, deep, lost), [finished_at |-> Now(m)])
       IN  /\ ~report.failed
           /\ task' = [task EXCEPT ![m] =
                 [op |-> "diff", step |-> "file", report |-> report, id |-> <<m, calls, "diff">>]]
    /\ UNCHANGED <<case, head, git, file, store, answer, live>>

DiffFile(m) ==
    /\ Proceed(m, "diff", "file")
    /\ file' = [file EXCEPT ![m].diff = <<task[m].report>>]
    /\ Goto(m, "record")
    /\ UNCHANGED <<case, head, git, store, answer, live, calls>>

DiffRecord(m) ==
    /\ Proceed(m, "diff", "record")
    /\ store' = S!record_evidence(store, branch_diff_record(task[m].report, task[m].id))
    /\ Done(m)
    /\ UNCHANGED <<case, head, git, file, answer, live, calls>>

(* promote: the heads, the file and the records of the candidate, ...      *)
Audit(m, pair) ==
    /\ "diff" \in case.flows
    /\ Begin(m)
    /\ task' = [task EXCEPT ![m] =
          [op |-> "audit", step |-> "judge", pair |-> pair, heads |-> Heads(pair),
           slot |-> file[m].diff, records |-> Records("branch_diff", pair[1]),
           id |-> <<m, calls, "import">>]]
    /\ UNCHANGED <<case, head, git, file, store, answer, live>>

(* ... what the file says is imported, under the pair it names, the        *)
(* freshest is chosen, and what it proves is asked of the records of now.  *)
AuditJudge(m) ==
    /\ Proceed(m, "audit", "judge")
    /\ LET t == task[m]
           in == IF t.slot = <<>> THEN [db |-> store, id |-> <<>>]
                 ELSE import_evidence(store, branch_diff_record(t.slot[1], t.id))
           latest == newest_first(Only(in.db.evidence, Where(in.db.evidence, "kind", "branch_diff")),
                                  "created_at")
           found == Weigh(t.slot, in.id, t.records, latest, t.pair,
                          t.slot # <<>> /\ Names(t.slot[1], t.pair), "finished_at")
           versions == <<Version(Current(t.pair[1])), Version(Current(t.pair[2]))>>
       IN  /\ store' = in.db
           /\ Says(m, Assigned(audited_diff(found, t.pair, t.heads, versions),
                      [op |-> "audit", pair |-> t.pair, heads |-> t.heads, found |-> found,
                       slot |-> t.slot, records |-> t.records,
                       contract |-> contract_breaking_changes(Current(t.pair[2]).record)]))
    /\ Done(m)
    /\ UNCHANGED <<case, head, git, file, live, calls>>

-----------------------------------------------------------------------------
(* Lineage diffs.  Each machine has a checkout: the commit of the target   *)
(* branch, the commit its own branch was cut at, the commit it is at with  *)
(* that commit's content, and the content of its working tree.  The Git     *)
(* branches of the targets move together, and "dev" is checked out.        *)

Edit(m) ==
    /\ "lineage" \in case.flows
    /\ calls < case.calls /\ calls' = calls + 1
    /\ \/ git' = [git EXCEPT ![m].tree = 3 - @]
       \/ git' = [git EXCEPT ![m].head = <<m, @[2] + 1>>, ![m].committed = git[m].tree]
       \/ git' = [git EXCEPT ![m].main = @ + 1]
       \/ git' = [git EXCEPT ![m].fork = git[m].main, ![m].head = <<m, @[2] + 1>>]
    /\ UNCHANGED <<case, head, file, store, task, answer, live>>

Dirty(m) == git[m].tree # git[m].committed

comparison_base(m) == git[m].fork        \* the merge base with the target
resolve_commit(m)  == git[m].main        \* the target itself
checkout_tree(m)   == git[m].committed   \* compiled on its own, apart from the tree

(* Against the merge base: from there to the working tree, for a candidate *)
(* that may be named or not.  Between two references: from commit to       *)
(* commit.                                                                 *)
LineageOf(m, base_kind, git_ref) ==
    IF base_kind = "merge-base"
      THEN [base_kind |-> base_kind, base_commit |-> comparison_base(m), git_ref |-> git_ref,
            head |-> git[m].head, dirty |-> Dirty(m), lineage_hash |-> git[m].tree]
      ELSE [base_kind |-> base_kind, base_commit |-> resolve_commit(m), git_ref |-> git_ref,
            head |-> git[m].head, dirty |-> FALSE, lineage_hash |-> checkout_tree(m)]

LineageDiff(m, base_kind, pair, named) ==
    /\ "lineage" \in case.flows
    /\ base_kind = "ref" => named /\ pair[1] = "dev"
    /\ Begin(m)
    /\ task' = [task EXCEPT ![m] =
          [op |-> "lineage", step |-> "bind", id |-> <<m, calls, "lineage">>, at |-> Now(m),
           artifact |-> Assigned(LineageOf(m, base_kind, IF named THEN <<pair[1]>> ELSE <<>>),
                                 [base_ref |-> pair[2]])]]
    /\ UNCHANGED <<case, head, git, file, store, answer, live>>

(* Bound to the heads, if both are found, and written to the slot.         *)
LineageBind(m) ==
    /\ Proceed(m, "lineage", "bind")
    /\ \E found \in BOOLEAN :
         LET artifact == task[m].artifact
             pair == <<artifact.git_ref[1], artifact.base_ref>>
             done == Assigned(artifact, [created_at |-> task[m].at,
                       environment |-> IF found /\ artifact.git_ref # <<>>
                                         THEN <<[pair |-> pair, heads |-> Heads(pair)]>> ELSE <<>>])
         IN  /\ file' = [file EXCEPT ![m].lineage = <<done>>]
             /\ task' = [task EXCEPT ![m].step = "record", ![m].artifact = done]
    /\ UNCHANGED <<case, head, git, store, answer, live, calls>>

lineage_diff_record(artifact, id) ==
    [id |-> id, kind |-> "lineage_diff", subject |-> artifact.git_ref[1],
     target |-> artifact.base_ref, created_at |-> artifact.created_at, payload |-> artifact]

(* An artifact that names no candidate is not recorded.                    *)
LineageRecord(m) ==
    /\ Proceed(m, "lineage", "record")
    /\ store' = IF task[m].artifact.git_ref = <<>> THEN store
                ELSE S!record_evidence(store, lineage_diff_record(task[m].artifact, task[m].id))
    /\ Done(m)
    /\ UNCHANGED <<case, head, git, file, answer, live, calls>>

audited_lineage(artifact, pair, heads, lineage_hash, here, dirty) ==
    LET standing ==
            IF artifact.environment # <<>>
              THEN artifact.environment[1] = [pair |-> pair, heads |-> heads]
            ELSE IF artifact.base_kind = "merge-base"
              THEN /\ here.fork = artifact.base_commit
                   /\ here.head = artifact.head
                   /\ dirty = artifact.dirty
            ELSE /\ artifact.git_ref # <<>>
                 /\ here.head = artifact.head
                 /\ here.main = artifact.base_commit
    IN  IF ~standing \/ artifact.lineage_hash # lineage_hash THEN "stale"
        ELSE IF artifact.environment # <<>> THEN "current" ELSE "advisory"

AuditLineage(m, pair) ==
    /\ "lineage" \in case.flows
    /\ Begin(m)
    /\ task' = [task EXCEPT ![m] =
          [op |-> "audit_lineage", step |-> "judge", pair |-> pair, heads |-> Heads(pair),
           slot |-> file[m].lineage, records |-> Records("lineage_diff", pair[1]),
           lineage_hash |-> git[m].tree, id |-> <<m, calls, "import">>]]
    /\ UNCHANGED <<case, head, git, file, store, answer, live>>

LineageJudge(m) ==
    /\ Proceed(m, "audit_lineage", "judge")
    /\ LET t == task[m]
           named == /\ t.slot # <<>>
                    /\ t.slot[1].git_ref = <<t.pair[1]>>
                    /\ t.slot[1].base_ref = t.pair[2]
           in == IF t.slot = <<>> \/ t.slot[1].git_ref = <<>> THEN [db |-> store, id |-> <<>>]
                 ELSE import_evidence(store, lineage_diff_record(t.slot[1], t.id))
           found == Weigh(t.slot, in.id, t.records, <<>>, t.pair, named,
                          "created_at")
       IN  /\ store' = in.db
           /\ Says(m, [op |-> "lineage", pair |-> t.pair, heads |-> t.heads, found |-> found,
                       slot |-> t.slot, records |-> t.records, here |-> git[m],
                       lineage_hash |-> t.lineage_hash,
                       status |-> IF found = <<>> THEN "none"
                                  ELSE audited_lineage(found[1].report, t.pair, t.heads,
                                         t.lineage_hash, git[m], Dirty(m))])
    /\ Done(m)
    /\ UNCHANGED <<case, head, git, file, live, calls>>

-----------------------------------------------------------------------------
(* Bindings of a candidate to a catalog.  Two of them differ in the base   *)
(* they were made from; the catalog decides nothing here.                  *)

environment_record(setup, id, at) ==
    [id |-> id, kind |-> "environment", subject |-> setup.candidate,
     target |-> setup.created_from, created_at |-> at, payload |-> setup]

Binding(ref) == Records("environment", ref)

(* What was provisioned or removed last: more than one, if they overlapped. *)
MayStand(ref, setup, m, begun) ==
    LET since == live[ref].since
        Kept(before) == IF begun < since THEN before ELSE {}
    IN  live' = [live EXCEPT ![ref] = [setups |-> {setup} \cup Kept(@.setups),
                                       by |-> {m} \cup Kept(@.by), since |-> calls]]

(* ensure: the record unless it says nothing new, then the slot, then the  *)
(* candidate's own file.                                                   *)
Provision(m, ref, base) ==
    /\ "environment" \in case.flows
    /\ Begin(m)
    /\ task' = [task EXCEPT ![m] =
          [op |-> "provision", step |-> "check", id |-> <<m, calls, "provision">>, at |-> Now(m),
           setup |-> [candidate |-> ref, created_from |-> base]]]
    /\ UNCHANGED <<case, head, git, file, store, answer, live>>

ProvisionCheck(m) ==
    /\ Proceed(m, "provision", "check")
    /\ LET setup == task[m].setup
           standing == Binding(setup.candidate)
       IN  IF standing # <<>> /\ standing[1].payload = setup
             THEN /\ MayStand(setup.candidate, <<setup>>, m, task[m].id[2])
                  /\ Goto(m, "slot")
             ELSE /\ Goto(m, "record")
                  /\ UNCHANGED live
    /\ UNCHANGED <<case, head, git, file, store, answer, calls>>

ProvisionRecord(m) ==
    /\ Proceed(m, "provision", "record")
    /\ LET setup == task[m].setup
       IN  /\ store' = S!record_evidence(store, environment_record(setup, task[m].id, task[m].at))
           /\ MayStand(setup.candidate, <<setup>>, m, task[m].id[2])
    /\ Goto(m, "slot")
    /\ UNCHANGED <<case, head, git, file, answer, calls>>

ProvisionSlot(m) ==
    /\ Proceed(m, "provision", "slot")
    /\ file' = [file EXCEPT ![m].slot = <<task[m].setup>>]
    /\ Goto(m, "file")
    /\ UNCHANGED <<case, head, git, store, answer, live, calls>>

ProvisionFile(m) ==
    /\ Proceed(m, "provision", "file")
    /\ file' = [file EXCEPT ![m].own[task[m].setup.candidate] = <<task[m].setup>>]
    /\ Done(m)
    /\ UNCHANGED <<case, head, git, store, answer, live, calls>>

(* Where a candidate is bound: the store's word, else this machine's       *)
(* files', which become a record of now.                                   *)
Slot(m, ref) == Only(file[m].slot, Where(file[m].slot, "candidate", ref))

ReadBinding(m, ref) ==
    /\ "environment" \in case.flows
    /\ Begin(m)
    /\ LET standing == Binding(ref)
       IN  IF standing # <<>>
             THEN /\ Says(m, [op |-> "binding", setup |-> <<standing[1].payload>>])
                  /\ UNCHANGED task
             ELSE /\ task' = [task EXCEPT ![m] =
                       [op |-> "read", step |-> "import", ref |-> ref, at |-> Now(m),
                        id |-> <<m, calls, "import">>]]
                  /\ UNCHANGED answer
    /\ UNCHANGED <<case, head, git, file, store, live>>

ReadFiles(m) ==
    /\ Proceed(m, "read", "import")
    /\ LET found == file[m].own[task[m].ref] \o Slot(m, task[m].ref)
       IN  /\ store' = IF found = <<>> THEN store
                       ELSE import_evidence(store,
                              environment_record(found[1], task[m].id, task[m].at)).db
           /\ Says(m, [op |-> "binding", setup |-> IF found = <<>> THEN <<>> ELSE <<found[1]>>])
    /\ Done(m)
    /\ UNCHANGED <<case, head, git, file, live, calls>>

(* Every binding, to find a catalog that is claimed twice: the newest      *)
(* record of each candidate, and files of candidates that have none, in    *)
(* the order of the directory.                                             *)
ScanBindings(m) ==
    /\ "environment" \in case.flows
    /\ Begin(m)
    /\ LET known == {e.subject : e \in S!latest_evidence(store, "environment")}
       IN  task' = IF Candidates \subseteq known THEN task
                   ELSE [task EXCEPT ![m] =
                     [op |-> "scan", step |-> "import", at |-> Now(m), id |-> <<m, calls, "import">>,
                      left |-> Candidates \ known]]
    /\ UNCHANGED <<case, head, git, file, store, answer, live>>

ScanFile(m, ref) ==
    /\ Proceed(m, "scan", "import")
    /\ ref \in task[m].left
    /\ LET setups == ToSet(file[m].own[ref] \o Slot(m, ref))
       IN  \/ setups = {} /\ UNCHANGED store
           \/ \E setup \in setups :
                store' = import_evidence(store,
                    environment_record(setup, <<m, task[m].id[2], ref>>, task[m].at)).db
    /\ IF task[m].left = {ref} THEN Done(m)
                               ELSE task' = [task EXCEPT ![m].left = @ \ {ref}]
    /\ UNCHANGED <<case, head, git, file, answer, live, calls>>

(* ref delete: the files first.                                            *)
Delete(m, ref) ==
    /\ "environment" \in case.flows
    /\ Begin(m)
    /\ file' = [file EXCEPT ![m].own[ref] = <<>>]
    /\ task' = [task EXCEPT ![m] = [op |-> "remove", step |-> "slot", ref |-> ref]]
    /\ UNCHANGED <<case, head, git, store, answer, live>>

Emptied_Never(slot, ref) == slot
Emptied(slot, ref) == Only(slot, DOMAIN slot \ Where(slot, "candidate", ref))

RemoveSlot(m) ==
    /\ Proceed(m, "remove", "slot")
    /\ file' = [file EXCEPT ![m].slot = Emptied(@, task[m].ref)]
    /\ Goto(m, "record")
    /\ UNCHANGED <<case, head, git, store, answer, live, calls>>

RemoveRecord(m) ==
    /\ Proceed(m, "remove", "record")
    /\ store' = S!remove_evidence(store, "environment", task[m].ref)
    /\ live' = [live EXCEPT ![task[m].ref] = [setups |-> {<<>>}, by |-> {m}, since |-> calls]]
    /\ Done(m)
    /\ UNCHANGED <<case, head, git, file, answer, calls>>

-----------------------------------------------------------------------------
Init ==
    /\ \E kind \in Cases : case \in kind
    /\ head = [ref \in Candidates \cup {"main", "release"} |-> 1]
    /\ git = [m \in Machines |-> [main |-> 1, fork |-> 1, head |-> <<"cut", 1>>, committed |-> 1, tree |-> 1]]
    /\ file = [m \in Machines |-> [diff |-> <<>>, lineage |-> <<>>, slot |-> <<>>,
                                   own |-> [ref \in Candidates |-> <<>>]]]
    /\ store = [evidence |-> <<>>]
    /\ task = [m \in Machines |-> Idle]
    /\ answer = [m \in Machines |-> None]
    /\ live = [ref \in Candidates |-> [setups |-> {<<>>}, by |-> {}, since |-> 0]]
    /\ calls = 1

Next ==
    \/ \E ref \in {"dev", "main"} : Move(ref)
    \/ \E m \in Machines :
         \/ Stop(m) \/ Edit(m)
         \/ \E pair \in case.pairs :
              \/ \E bound, deep \in BOOLEAN, lost \in Reads : Diff(m, pair, bound, deep, lost)
              \/ \E kind \in {"merge-base", "ref"}, named \in BOOLEAN : LineageDiff(m, kind, pair, named)
              \/ Audit(m, pair) \/ AuditLineage(m, pair)
         \/ DiffFile(m) \/ DiffRecord(m) \/ AuditJudge(m)
         \/ LineageBind(m) \/ LineageRecord(m) \/ LineageJudge(m)
         \/ \E ref \in Candidates :
              \/ \E base \in {"main", "release"} : Provision(m, ref, base)
              \/ ReadBinding(m, ref) \/ ScanFile(m, ref) \/ Delete(m, ref)
         \/ ProvisionCheck(m) \/ ProvisionRecord(m) \/ ProvisionSlot(m) \/ ProvisionFile(m)
         \/ ReadFiles(m) \/ ScanBindings(m) \/ RemoveSlot(m) \/ RemoveRecord(m)

Spec == Init /\ [][Next]_vars

-----------------------------------------------------------------------------
(* What the properties measure by.                                         *)

Projected(row, columns) == [c \in columns |-> row[c]]
KeysOf(rows, keys)      == {Projected(rows[i], ToSet(keys)) : i \in DOMAIN rows}
RowOf(rows, keys, key)  == rows[CHOOSE i \in DOMAIN rows : Projected(rows[i], ToSet(keys)) = key]

(* A key that tells rows apart, and that never starts with NULL.           *)
Identifies(keys, rows) ==
    /\ Cardinality(KeysOf(rows, keys)) = Len(rows)
    /\ \A key \in KeysOf(rows, keys) : key[keys[1]] # 0

(* The rows of a key have, in a column, values that are told apart.        *)
DiffersIn(new, old, keys, key, c, tolerance) ==
    LET b == RowOf(old, keys, key)[c]
        n == RowOf(new, keys, key)[c]
    IN  b # n /\ (0 \in {b, n} \/ b - n > tolerance \/ n - b > tolerance)

(* The keys without a NULL whose rows differ in a column.                   *)
ChangedIn(new, old, keys, c, tolerance) ==
    {key \in KeysOf(old, keys) \cap KeysOf(new, keys) :
        /\ \A k \in ToSet(keys) : key[k] # 0
        /\ DiffersIn(new, old, keys, key, c, tolerance)}

TrueCounts(new, old, keys, columns, tolerance) ==
    LET was == KeysOf(old, keys)
        now == KeysOf(new, keys)
        modified == {key \in was \cap now :
                       \E c \in columns : DiffersIn(new, old, keys, key, c, tolerance)}
    IN  [added |-> Cardinality(now \ was), removed |-> Cardinality(was \ now),
         modified |-> Cardinality(modified),
         unchanged |-> Cardinality((was \cap now) \ modified)]

(* What a reader of a column relies on: that it is there, can hold what it *)
(* held, and has a value.                                                  *)
Narrowed(was, now) == is_numeric(was) /\ is_numeric(now) /\ widen(now, was) # now
Confused(was, now) == was # now /\ parse_trino(was) = parse_trino(now)

Broken(new, old) ==
    {c \in DOMAIN old :
        \/ c \notin DOMAIN new
        \/ old[c].type # new[c].type /\ ~Widens(new[c].type, old[c].type)
        \/ new[c].nullable /\ ~old[c].nullable}

(* A change of type that the comparison of tables lets pass.               *)
Tolerated(new, old, c) ==
    /\ c \in DOMAIN new
    /\ Narrowed(old[c].type, new[c].type) \/ Confused(old[c].type, new[c].type)
    /\ new[c].nullable => old[c].nullable

Model == case.model[1]

-----------------------------------------------------------------------------
(* Properties.                                                             *)

(* What passes the gates of schema and data diff is what it is taken for:  *)
(* at the commits that are promoted, no column of the target is broken     *)
(* for its readers, and the rows of a model whose recorded version differs *)
(* (or its snapshot, where none is recorded) are within the policy it      *)
(* declares.  Except: a read of the target that failed is taken for a      *)
(* table, or columns, that were not there; a table that neither a model    *)
(* nor a record of the target names is not compared; narrowed numbers and  *)
(* types with unknown names pass; a candidate that is bound to the         *)
(* target's own tables is compared with itself, which is noticed only if   *)
(* its rows are compared; and rows are only counted by a key that          *)
(* identifies them.                                                        *)
AuditedIsSound ==
    \A m \in Machines :
      LET a == answer[m] IN
      (a.op = "audit" /\ a.audited /\ ~a.rejected /\ a.breaking = {}) =>
        LET new == Side(a.pair[1], a.heads[1])
            old == Side(a.pair[2], a.heads[2])
            report == a.found[1].report
            keys == model_keys(Model)
            columns == Model.outputs \ ToSet(keys)
        IN  /\ (old.exists /\ ~case.same /\ (case.model # <<>> \/ old.record # <<>>)
                 /\ report.lost \notin {"old_exists", "old_columns"}) =>
                  \A c \in Broken(new.schema, old.schema) :
                      new.exists /\ Tolerated(new.schema, old.schema, c)
            /\ ( /\ case.model # <<>> /\ Model.policy # <<>> /\ keys # <<>>
                  /\ new.exists /\ old.exists /\ (case.same => new.record # <<>>)
                  /\ report.lost # "old_exists" /\ Changed(new, old)
                  /\ Identifies(keys, new.rows) /\ Identifies(keys, old.rows)
                  /\ a.passed = <<TRUE>>) =>
                  evaluate_policy(Model.policy[1], keys, Len(old.rows),
                      TrueCounts(new.rows, old.rows, keys, columns, Model.policy[1].tolerance))

(* Of what was on file and in the store for a pair, an audit uses the      *)
(* newest, and the record it names is the one it used, unless two were     *)
(* made at one instant.  Lineage that is said to hold is that of the       *)
(* working tree, and, where Git has to say it, from the base a new diff    *)
(* would take.                                                             *)
Offered(a, Named(_)) ==
    {a.records[i].payload : i \in {j \in DOMAIN a.records : a.records[j].target = a.pair[2]}}
      \cup {r \in ToSet(a.slot) : Named(r)}

FreshestIsUsed(a, Named(_), Stamp(_)) ==
    LET offered == Offered(a, Named)
        used == a.found[1]
        named == {e \in ToSet(store.evidence) : e.id = used.id}
    IN  /\ offered # {} => /\ used.report \in offered
                            /\ \A r \in offered : cmp_rfc3339(Stamp(r), Stamp(used.report)) <= 0
        /\ used.id # <<>> => \E e \in named :
              \/ e.payload = used.report
              \/ e.created_at = Stamp(used.report)

FreshestIsAudited ==
    \A m \in Machines :
      LET a == answer[m] IN
      /\ (a.op = "audit" /\ a.found # <<>>) =>
            FreshestIsUsed(a, LAMBDA r : Names(r, a.pair), LAMBDA r : r.finished_at)
      /\ (a.op = "lineage" /\ a.found # <<>>) =>
            LET r == a.found[1].report IN
            /\ FreshestIsUsed(a, LAMBDA x : x.git_ref = <<a.pair[1]>> /\ x.base_ref = a.pair[2],
                               LAMBDA x : x.created_at)
            /\ a.status # "stale" => r.lineage_hash = a.lineage_hash
            /\ a.status = "current" => r.git_ref = <<a.pair[1]>> /\ r.base_ref = a.pair[2]
            /\ a.status = "advisory" =>
                  r.base_commit = IF r.base_kind = "ref" THEN a.here.main ELSE a.here.fork

(* The store's newest binding of a candidate is the one last provisioned,  *)
(* and there is none once it was removed, unless a machine brought in a    *)
(* file it still had; the machine that removed or provisioned it last has  *)
(* no such file.  (Of provisions and removals that overlap, any is last.)  *)
BindingStands ==
    case.slow = {} => \A ref \in Candidates :
        LET standing == Binding(ref)
        IN  \/ standing = <<>> /\ <<>> \in live[ref].setups
            \/ /\ standing # <<>>
               /\ \/ <<standing[1].payload>> \in live[ref].setups
                  \/ standing[1].id[3] # "provision" /\ standing[1].id[1] \notin live[ref].by

(* Where a key identifies rows, the counts are those of the rows that came, *)
(* went and changed.  A column is listed exactly if it changed in some row  *)
(* whose key holds no NULL: a row whose key holds one is counted, and what  *)
(* changed in it is listed under no column.  And a partition is listed if   *)
(* it has another number of rows.                                           *)
CountsAreExact ==
    (case.model # <<>> /\ case.flows = {"diff"} /\ model_keys(Model) # <<>>) =>
      LET new == Current("dev").rows
          old == Current("main").rows
          keys == model_keys(Model)
          columns == Model.outputs \ ToSet(keys)
          policy == diff_policy(Model)
          found == diff(new, old, keys, columns, policy)
          partitions == partition_summary(new, old, "part")
          InPart(rows, v) == Cardinality({i \in DOMAIN rows : rows[i]["part"] = v})
      IN  /\ (Identifies(keys, new) /\ Identifies(keys, old)) =>
              /\ found.counts = TrueCounts(new, old, keys, columns, policy.tolerance)
              /\ found.delta = found.counts.added - found.counts.removed
              /\ DOMAIN found.column_changes =
                    {c \in columns : ChangedIn(new, old, keys, c, policy.tolerance) # {}}
          /\ \A v \in 1 .. 3 :
                 (InPart(new, v) # InPart(old, v)) <=>
                    v \in partitions.added \cup partitions.removed \cup partitions.changed

(* No guarantee that the target's contract gives is dropped unseen, but    *)
(* for one that is no longer stated, or a rename that was declared before; *)
(* and on tables that declare all they have, contract, table and planner   *)
(* call the same columns breaking, but for narrowed numbers, which the     *)
(* comparison of tables lets pass, renames of columns that are still       *)
(* there, and NULLs, which the planner does not ask for.                   *)
Exact(schema, renames) ==
    <<[enforced |-> TRUE, renames |-> renames,
       columns |-> [c \in DOMAIN schema |->
         [type |-> schema[c].type, nullable |-> IF schema[c].nullable THEN "yes" ELSE "no"]]]>>

GuaranteesKept(was, now) ==
    /\ was.enforced => now.enforced
    /\ \A c \in DOMAIN was.columns :
        \/ \E n \in DOMAIN was.renames \cap DOMAIN now.renames :
              was.renames[n] = c /\ now.renames[n] = c
        \/ /\ c \in DOMAIN now.columns
           /\ LET old == was.columns[c]
                  new == now.columns[c]
              IN  /\ \/ "" \in {old.type, new.type}
                     \/ parse_trino(old.type) = parse_trino(new.type)
                     \/ Widens(new.type, old.type)
                  /\ old.nullable = "no" => new.nullable # "yes"

BreaksAreSeen ==
    case.model # <<>> =>
      LET record == Current("main").record
          now == Current("dev").schema
          was == Current("main").schema
          renames == IF Model.contract = NoContract THEN <<>> ELSE Model.contract[1].renames
          Named(changes) == {c.column : c \in changes}
          broken == breaking_columns(compare_column_lists(now, was, renames))
          physical == Named(broken)
          apart == Named({c \in broken : c.kind # "nullability"})
          contract == Named(breaking_contract_changes(
                              contract_diff(Exact(was, <<>>), Exact(now, renames))))
          kept == DOMAIN now \cap DOMAIN was
          narrowed == {c \in kept : Narrowed(was[c].type, now[c].type)}
          standing == {n \in Resolved(renames, now, was) : renames[n] \in DOMAIN now}
      IN  /\ (record # <<>> /\ contract_breaking_changes(record) = {}) =>
              /\ record[1].contract # NoContract =>
                    Model.contract # NoContract /\ GuaranteesKept(record[1].contract[1], Model.contract[1])
              /\ recorded_key(record[1]) # Unknown
              /\ recorded_key(record[1])[2] # {} => recorded_key(record[1])[2] = effective_key(Model)
          /\ contract \ (narrowed \cup standing) = physical \ narrowed
          /\ forces_rebuild(now, was) <=> apart \cup narrowed # {}
=============================================================================
