---------------------------- MODULE SqliteStore -----------------------------
(***************************************************************************)
(* The local state store (SqliteStateStore, state.rs): each method of the  *)
(* StateStore trait as a function of the database.  A method is one        *)
(* statement under the database's lock.                                    *)
(*                                                                         *)
(* Tables with a row number that orders a listing are sequences, the       *)
(* others functions of their primary key.  The environment of a row is ""  *)
(* for the default one.  Columns that are stored and returned and decide   *)
(* nothing are left out.                                                   *)
(***************************************************************************)
EXTENDS StoreRows

Empty ==
    [runs |-> <<>>, model_runs |-> <<>>, seed_runs |-> <<>>, test_runs |-> <<>>,
     model_versions |-> <<>>, incremental_state |-> <<>>, seed_loads |-> <<>>,
     promotions |-> <<>>, evidence |-> <<>>]

-----------------------------------------------------------------------------
(* Runs and their progress.                                                *)

(* A second row with one primary key is an error.                          *)
start_run(db, run) ==
    IF Has(db.runs, run.id) THEN db ELSE [db EXCEPT !.runs = Append(@, run)]

reopen_run(db, id) ==
    [db EXCEPT !.runs = Updated(@, id, [status |-> "running", finished_at |-> NoStamp])]

bind_run_reference_hash(db, id, hash) ==
    [db EXCEPT !.runs = Updated(@, id, [reference_hash |-> hash])]

finish_run(db, id, status, at, failed) ==
    [db EXCEPT !.runs =
        Updated(@, id, [status |-> status, finished_at |-> at, failed |-> failed])]

record_model(db, r)    == [db EXCEPT !.model_runs = Put(@, <<r.run, r.name>>, r)]
record_seed_run(db, r) == [db EXCEPT !.seed_runs = Put(@, <<r.run, r.name>>, r)]
record_test(db, r)     == [db EXCEPT !.test_runs = Put(@, <<r.run, r.name>>, r)]

InEnvironment(rows, env) == Only(rows, Where(rows, "env", env))

runs(db) == newest_first(db.runs, "started_at")

latest_run(db, env) ==
    LET listed == newest_first(InEnvironment(db.runs, env), "started_at")
    IN  IF listed = <<>> THEN <<>> ELSE <<listed[1]>>

run(db, id) == ToSet(Only(db.runs, Where(db.runs, "id", id)))

(* LIKE ignores the case of letters.                                       *)
find_runs(db, prefix) ==
    newest_first(Only(db.runs, {i \in DOMAIN db.runs : db.runs[i].id \in prefix.folded}),
                 "started_at")

Of(table, id) == {table[k] : k \in {key \in DOMAIN table : key[1] = id}}

model_runs(db, id) == Of(db.model_runs, id)
seed_runs(db, id)  == Of(db.seed_runs, id)
test_runs(db, id)  == Of(db.test_runs, id)

-----------------------------------------------------------------------------
(* Materialisations, seeds and watermarks: ordered upserts.                *)

(* What a read of one row finds: nothing, or the row.                     *)
Row(table, key) == {table[k] : k \in {key} \cap DOMAIN table}

record_materialized_Last(db, r) ==
    [db EXCEPT !.model_versions = Put(@, <<r.name, r.env>>, r)]

record_materialized(db, r) ==
    IF /\ <<r.name, r.env>> \in DOMAIN db.model_versions
       /\ cmp_rfc3339(r.at, db.model_versions[<<r.name, r.env>>].at) < 0
      THEN db
      ELSE [db EXCEPT !.model_versions = Put(@, <<r.name, r.env>>, r)]

materialized_version(db, name, env) == Row(db.model_versions, <<name, env>>)

materialized_by_hash(db, hash) ==
    {r \in {db.model_versions[k] : k \in DOMAIN db.model_versions} : r.hash = hash}

(* Every hash that was asked for has an entry.                             *)
materialized_by_hashes(db, hashes) == [h \in hashes |-> materialized_by_hash(db, h)]

materialized_in(db, env) ==
    {db.model_versions[k] : k \in {key \in DOMAIN db.model_versions : key[2] = env}}

record_seed(db, r) ==
    IF /\ <<r.name, r.env>> \in DOMAIN db.seed_loads
       /\ cmp_rfc3339(r.at, db.seed_loads[<<r.name, r.env>>].at) < 0
      THEN db
      ELSE [db EXCEPT !.seed_loads = Put(@, <<r.name, r.env>>, r)]

seed_state(db, name, env) == Row(db.seed_loads, <<name, env>>)

seeds_in(db, env) == {db.seed_loads[k] : k \in {key \in DOMAIN db.seed_loads : key[2] = env}}

(* When the run started, or a default if it has no row.                    *)
Generation(db, id, default) ==
    IF Has(db.runs, id)
      THEN db.runs[CHOOSE i \in DOMAIN db.runs : db.runs[i].id = id].started_at
      ELSE default

set_watermark_ByArrival(db, name, env, value, id, now) ==
    [db EXCEPT !.incremental_state =
        Put(@, <<name, env>>, [value |-> value, run |-> id])]

set_watermark(db, name, env, value, id, now) ==
    IF /\ <<name, env>> \in DOMAIN db.incremental_state
       /\ cmp_rfc3339(Generation(db, id, now),
                      Generation(db, db.incremental_state[<<name, env>>].run, NoStamp)) < 0
      THEN db
      ELSE [db EXCEPT !.incremental_state =
              Put(@, <<name, env>>, [value |-> value, run |-> id])]

watermark(db, name, env) == {row.value : row \in Row(db.incremental_state, <<name, env>>)}

-----------------------------------------------------------------------------
(* Promotions and evidence.                                                *)

(* A replaced row is a new row.                                            *)
record_promotion(db, r) ==
    [db EXCEPT !.promotions = Append(Only(@, DOMAIN @ \ Where(@, "id", r.id)), r)]

promotions(db) == newest_first(db.promotions, "created_at")

record_evidence(db, r) ==
    IF Has(db.evidence, r.id) THEN db ELSE [db EXCEPT !.evidence = Append(@, r)]

evidence_for(db, kind, subject) ==
    newest_first(Only(db.evidence, Where(db.evidence, "kind", kind)
                                     \cap Where(db.evidence, "subject", subject)),
                 "created_at")

(* The first of each pair of subject and target.                           *)
latest_evidence(db, kind) ==
    LET listed == newest_first(Only(db.evidence, Where(db.evidence, "kind", kind)), "created_at")
        Earlier(i) == {j \in 1 .. i - 1 : /\ listed[j].subject = listed[i].subject
                                          /\ listed[j].target = listed[i].target}
    IN  {listed[i] : i \in {j \in DOMAIN listed : Earlier(j) = {}}}

remove_evidence(db, kind, subject) ==
    [db EXCEPT !.evidence =
        Only(@, DOMAIN @ \ (Where(@, "kind", kind) \cap Where(@, "subject", subject)))]

-----------------------------------------------------------------------------
(* Opening a database that an older release wrote: keys are filled in from *)
(* the columns of a key strategy, row by row after they were all read.     *)

legacy_keys_Any(db) ==
    {<<k, incremental_key_claim(db.model_versions[k].columns)>> :
        k \in {key \in DOMAIN db.model_versions :
                 LET r == db.model_versions[key]
                 IN  r.strategy = "key" /\ r.columns # {}}}

legacy_keys(db) ==
    {<<k, incremental_key_claim(db.model_versions[k].columns)>> :
        k \in {key \in DOMAIN db.model_versions :
                 LET r == db.model_versions[key]
                 IN  r.effective_key = <<>> /\ r.strategy = "key" /\ r.columns # {}}}

backfill(db, key, claim) ==
    [db EXCEPT !.model_versions[key].effective_key = claim]
=============================================================================
