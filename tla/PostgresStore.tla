--------------------------- MODULE PostgresStore ----------------------------
(***************************************************************************)
(* The shared state store (PostgresStateStore, state_postgres.rs): the     *)
(* same methods over the same tables.  A method is a closure that the      *)
(* worker thread runs, with one statement.  What is written differently    *)
(* from SqliteStore is the order of instants inside the database, upserts  *)
(* that keep the row number, matching by case, and absent answers.         *)
(*                                                                         *)
(* Texts are compared as bytes, as in a database with collation C; the     *)
(* connection is not lost.                                                 *)
(***************************************************************************)
EXTENDS StoreRows

Empty ==
    [runs |-> <<>>, model_runs |-> <<>>, seed_runs |-> <<>>, test_runs |-> <<>>,
     model_versions |-> <<>>, incremental_state |-> <<>>, seed_loads |-> <<>>,
     promotions |-> <<>>, evidence |-> <<>>]

(* A timestamptz has microseconds.                                         *)
phlo_cmp_rfc3339(a, b) == IF Parsed(a) /\ Parsed(b) THEN a.micro - b.micro
                                                    ELSE a.text - b.text

-----------------------------------------------------------------------------
(* Runs and their progress.                                                *)

start_run(db, run) ==
    IF Has(db.runs, run.id) THEN db ELSE [db EXCEPT !.runs = Append(@, run)]

reopen_run(db, id) ==
    [db EXCEPT !.runs = Updated(@, id, [status |-> "running", finished_at |-> NoStamp])]

bind_run_reference_hash(db, id, hash) ==
    [db EXCEPT !.runs = Updated(@, id, [reference_hash |-> hash])]

finish_run(db, id, status, at, failed) ==
    [db EXCEPT !.runs =
        Updated(@, id, [status |-> status, finished_at |-> at, failed |-> failed])]

Upsert(table, r) == Put(table, <<r.run, r.name>>, r)

record_model(db, r)    == [db EXCEPT !.model_runs = Upsert(@, r)]
record_seed_run(db, r) == [db EXCEPT !.seed_runs = Upsert(@, r)]
record_test(db, r)     == [db EXCEPT !.test_runs = Upsert(@, r)]

runs(db) == newest_first(db.runs, "started_at")

latest_run(db, env) ==
    LET listed == newest_first(Only(db.runs, Where(db.runs, "env", env)), "started_at")
    IN  IF listed = <<>> THEN <<>> ELSE <<listed[1]>>

run(db, id) == ToSet(Only(db.runs, Where(db.runs, "id", id)))

find_runs(db, prefix) ==
    newest_first(Only(db.runs, {i \in DOMAIN db.runs : db.runs[i].id \in prefix.exact}),
                 "started_at")

Of(table, id) == {table[k] : k \in {key \in DOMAIN table : key[1] = id}}

model_runs(db, id) == Of(db.model_runs, id)
seed_runs(db, id)  == Of(db.seed_runs, id)
test_runs(db, id)  == Of(db.test_runs, id)

-----------------------------------------------------------------------------
(* Materialisations, seeds and watermarks.                                 *)

(* The row of a key, as a set.                                             *)
Row(table, key) == {table[k] : k \in {key} \cap DOMAIN table}

(* DO UPDATE ... WHERE not older.                                          *)
Ordered_Last(table, r) == Put(table, <<r.name, r.env>>, r)

Ordered(table, r) ==
    IF \E row \in Row(table, <<r.name, r.env>>) : phlo_cmp_rfc3339(r.at, row.at) < 0
      THEN table ELSE Put(table, <<r.name, r.env>>, r)

record_materialized(db, r) == [db EXCEPT !.model_versions = Ordered(@, r)]

materialized_version(db, name, env) == Row(db.model_versions, <<name, env>>)

materialized_by_hash(db, hash) ==
    {r \in {db.model_versions[k] : k \in DOMAIN db.model_versions} : r.hash = hash}

(* Entries for the hashes that were found only.                            *)
materialized_by_hashes(db, hashes) ==
    [h \in {k \in hashes : materialized_by_hash(db, k) # {}} |-> materialized_by_hash(db, h)]

materialized_in(db, env) ==
    {db.model_versions[k] : k \in {key \in DOMAIN db.model_versions : key[2] = env}}

record_seed(db, r) == [db EXCEPT !.seed_loads = Ordered(@, r)]

seed_state(db, name, env) == Row(db.seed_loads, <<name, env>>)
seeds_in(db, env) == {db.seed_loads[k] : k \in {key \in DOMAIN db.seed_loads : key[2] = env}}

Started(db, id, default) ==
    IF Has(db.runs, id)
      THEN db.runs[CHOOSE i \in DOMAIN db.runs : db.runs[i].id = id].started_at
      ELSE default

set_watermark(db, name, env, value, id, now) ==
    IF \E row \in Row(db.incremental_state, <<name, env>>) :
          phlo_cmp_rfc3339(Started(db, id, now), Started(db, row.run, NoStamp)) < 0
      THEN db
      ELSE [db EXCEPT !.incremental_state =
              Put(@, <<name, env>>, [value |-> value, run |-> id])]

watermark(db, name, env) == {row.value : row \in Row(db.incremental_state, <<name, env>>)}

-----------------------------------------------------------------------------
(* Promotions and evidence.                                                *)

(* A row that is written again keeps its number.                           *)
record_promotion(db, r) ==
    [db EXCEPT !.promotions =
        IF Has(@, r.id) THEN Updated(@, r.id, r) ELSE Append(@, r)]

promotions(db) == newest_first(db.promotions, "created_at")

record_evidence(db, r) ==
    IF Has(db.evidence, r.id) THEN db ELSE [db EXCEPT !.evidence = Append(@, r)]

evidence_for(db, kind, subject) ==
    newest_first(Only(db.evidence, Where(db.evidence, "kind", kind)
                                     \cap Where(db.evidence, "subject", subject)),
                 "created_at")

latest_evidence(db, kind) ==
    LET listed == newest_first(Only(db.evidence, Where(db.evidence, "kind", kind)), "created_at")
        Seen(i) == {<<listed[j].subject, listed[j].target>> : j \in 1 .. i - 1}
    IN  {listed[i] : i \in {j \in DOMAIN listed :
                              <<listed[j].subject, listed[j].target>> \notin Seen(j)}}

remove_evidence(db, kind, subject) ==
    [db EXCEPT !.evidence =
        Only(@, DOMAIN @ \ (Where(@, "kind", kind) \cap Where(@, "subject", subject)))]

-----------------------------------------------------------------------------
(* Connecting to a schema that an older release wrote.                     *)

legacy_keys(db) ==
    {<<k, incremental_key_claim(db.model_versions[k].columns)>> :
        k \in {key \in DOMAIN db.model_versions :
                 LET r == db.model_versions[key]
                 IN  r.effective_key = <<>> /\ r.strategy = "key" /\ r.columns # {}}}

backfill(db, key, claim) ==
    [db EXCEPT !.model_versions[key].effective_key = claim]
=============================================================================
