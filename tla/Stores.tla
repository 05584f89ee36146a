------------------------------- MODULE Stores -------------------------------
(***************************************************************************)
(* Both state stores under the same calls, which may come from several     *)
(* processes and machines: each call is atomic, and they come in any       *)
(* order, so a record may arrive after a later one.  A process that opens  *)
(* a store fills in keys in steps of its own.                              *)
(***************************************************************************)
EXTENDS StoreRows

CONSTANTS RunOffers,         \* what the calls may say
          RecordOffers, SeedOffers, ProgressOffers, PromotionOffers, EvidenceOffers,
          MarkOffers,
          Typed,             \* what a user may type for a run id
          Legacy,            \* model_versions as an older release left it
          MaxCalls           \* bound: calls and openings

ASSUME BoundAssumption == MaxCalls \in Nat

(* Every stamp is one that phlo wrote (now_rfc3339), so it can be parsed;  *)
(* rounding keeps the order of instants.  A row is under its own key, and  *)
(* has all its columns.                                                    *)
Stamp   == [nano : Int, micro : Int, text : Int]
Columns == {"name", "env", "hash", "strategy", "columns", "effective_key", "at"}
Old     == UNION {{table[k] : k \in DOMAIN table} : table \in Legacy}
Stamps  == {r.at : r \in RecordOffers \cup SeedOffers \cup Old}
             \cup {run.started_at : run \in RunOffers} \cup {w.now : w \in MarkOffers}
             \cup {r.created_at : r \in PromotionOffers \cup EvidenceOffers}

ASSUME StampAssumption ==
    /\ \A s \in Stamps : s \in Stamp /\ Parsed(s)
    /\ \A s, t \in Stamps : s.nano <= t.nano => s.micro <= t.micro
ASSUME ColumnAssumption ==
    /\ \A r \in RecordOffers \cup Old : r = [c \in Columns |-> r[c]]
    /\ \A run \in RunOffers : {"id", "started_at"} \subseteq DOMAIN run
    /\ \A r, p \in PromotionOffers : /\ DOMAIN r = DOMAIN p
                                      /\ r = [c \in DOMAIN r |-> r[c]]
ASSUME LegacyAssumption ==
    \A table \in Legacy : \A k \in DOMAIN table : k = <<table[k].name, table[k].env>>

VARIABLES sq, pg,            \* the databases
          pending,           \* keys that an opening process has yet to fill in
          told,              \* what was said about materialisations and watermarks
          raced,             \* rows that were written while their key was pending
          calls

vars == <<sq, pg, pending, told, raced, calls>>

S == INSTANCE SqliteStore
P == INSTANCE PostgresStore

-----------------------------------------------------------------------------
Init ==
    /\ \E table \in Legacy :
         /\ sq = [S!Empty EXCEPT !.model_versions = table]
         /\ pg = [P!Empty EXCEPT !.model_versions = table]
         /\ told = [records |-> {table[k] : k \in DOMAIN table}, seeds |-> {},
                    marks |-> <<>>, again |-> {}]
    /\ pending = [sq |-> {}, pg |-> {}]
    /\ raced = {}
    /\ calls = 0

Call == calls < MaxCalls /\ calls' = calls + 1

Wrote(s, p) == Call /\ sq' = s /\ pg' = p /\ UNCHANGED pending
Said(s, p)  == Wrote(s, p) /\ UNCHANGED <<told, raced>>

StartRun(run) == Said(S!start_run(sq, run), P!start_run(pg, run))

ReopenRun(run) == Has(sq.runs, run.id) /\ Said(S!reopen_run(sq, run.id), P!reopen_run(pg, run.id))

BindRun(run) ==
    /\ Has(sq.runs, run.id)
    /\ Said(S!bind_run_reference_hash(sq, run.id, "head"),
            P!bind_run_reference_hash(pg, run.id, "head"))

FinishRun(run) ==
    /\ Has(sq.runs, run.id)
    /\ Said(S!finish_run(sq, run.id, "failed", run.started_at, 1),
            P!finish_run(pg, run.id, "failed", run.started_at, 1))

RecordModel(r)   == Said(S!record_model(sq, r), P!record_model(pg, r))
RecordSeedRun(r) == Said(S!record_seed_run(sq, r), P!record_seed_run(pg, r))
RecordTest(r)    == Said(S!record_test(sq, r), P!record_test(pg, r))

Pending == {p[1] : p \in pending.sq \cup pending.pg}

RecordMaterialized(r) ==
    /\ Wrote(S!record_materialized(sq, r), P!record_materialized(pg, r))
    /\ told' = [told EXCEPT !.records = @ \cup {r}]
    /\ raced' = raced \cup ({<<r.name, r.env>>} \cap Pending)

RecordSeed(r) ==
    /\ Wrote(S!record_seed(sq, r), P!record_seed(pg, r))
    /\ told' = [told EXCEPT !.seeds = @ \cup {r}]
    /\ UNCHANGED raced

SetWatermark(w) ==
    /\ Wrote(S!set_watermark(sq, w.name, w.env, w.value, w.run, w.now),
             P!set_watermark(pg, w.name, w.env, w.value, w.run, w.now))
    /\ told' = [told EXCEPT !.marks =
                  Append(@, [mark |-> w, known |-> Has(sq.runs, w.run)])]
    /\ UNCHANGED raced

RecordPromotion(r) ==
    /\ Wrote(S!record_promotion(sq, r), P!record_promotion(pg, r))
    /\ told' = [told EXCEPT !.again = @ \cup (IF Has(sq.promotions, r.id) THEN {r.id} ELSE {})]
    /\ UNCHANGED raced

RecordEvidence(r) == Said(S!record_evidence(sq, r), P!record_evidence(pg, r))

RemoveEvidence(r) ==
    Said(S!remove_evidence(sq, r.kind, r.subject), P!remove_evidence(pg, r.kind, r.subject))

(* from_connection and ensure_schema: read the rows without a key, ...     *)
Open ==
    /\ Call
    /\ pending' = [sq |-> pending.sq \cup S!legacy_keys(sq), pg |-> pending.pg \cup P!legacy_keys(pg)]
    /\ UNCHANGED <<sq, pg, told, raced>>

(* ... and update them one after the other.                                *)
Backfill(p) ==
    /\ sq' = IF p \in pending.sq THEN S!backfill(sq, p[1], p[2]) ELSE sq
    /\ pg' = IF p \in pending.pg THEN P!backfill(pg, p[1], p[2]) ELSE pg
    /\ pending' = [sq |-> pending.sq \ {p}, pg |-> pending.pg \ {p}]
    /\ UNCHANGED <<told, raced, calls>>

Next ==
    \/ \E run \in RunOffers : StartRun(run) \/ ReopenRun(run) \/ BindRun(run) \/ FinishRun(run)
    \/ \E r \in ProgressOffers : RecordModel(r) \/ RecordSeedRun(r) \/ RecordTest(r)
    \/ \E r \in RecordOffers : RecordMaterialized(r)
    \/ \E r \in SeedOffers : RecordSeed(r)
    \/ \E w \in MarkOffers : SetWatermark(w)
    \/ \E r \in PromotionOffers : RecordPromotion(r)
    \/ \E r \in EvidenceOffers : RecordEvidence(r) \/ RemoveEvidence(r)
    \/ Open
    \/ \E p \in pending.sq \cup pending.pg : Backfill(p)

Spec == Init /\ [][Next]_vars

-----------------------------------------------------------------------------
(* Properties.                                                             *)

Ids   == {run.id : run \in RunOffers}
Envs  == {"", "dev"}
Keys  == {<<r.name, r.env>> : r \in RecordOffers \cup SeedOffers \cup MarkOffers}
Kinds == {r.kind : r \in EvidenceOffers}
Hashes == {r.hash : r \in RecordOffers}

(* Stamps of one microsecond, which Postgres takes for one instant.        *)
Blurred(stamps) == \E a, b \in stamps : a.micro = b.micro /\ a.nano # b.nano

Delivered(set, key) == {r \in set : <<r.name, r.env>> = key}
Clear(set, key)     == ~Blurred({r.at : r \in Delivered(set, key)})

ListingsAreNewest ==
    /\ \A env \in Envs : \A run \in ToSet(S!InEnvironment(sq.runs, env)) :
          LET latest == S!latest_run(sq, env)
          IN  latest # <<>> /\ cmp_rfc3339(latest[1].started_at, run.started_at) >= 0
    /\ \A r \in ToSet(sq.evidence) :
          LET pair == {l \in S!latest_evidence(sq, r.kind) :
                          l.subject = r.subject /\ l.target = r.target}
          IN  Cardinality(pair) = 1 /\ \A l \in pair : cmp_rfc3339(l.created_at, r.created_at) >= 0

(* The two stores answer alike to the same calls, in whatever order they   *)
(* came, but for records of one microsecond, and promotions recorded twice *)
(* (the listing of those of one instant).  A hash nobody recorded has an   *)
(* empty entry in one store and none in the other.  And what both list     *)
(* first is the newest: "a variable-width legacy timestamp cannot shadow a *)
(* newer run", and "a candidate audited against two targets keeps both     *)
(* current records".                                                       *)
StoresAgree ==
    /\ S!runs(sq) = P!runs(pg)
    /\ \A env \in Envs : S!latest_run(sq, env) = P!latest_run(pg, env)
    /\ \A id \in Ids : /\ S!run(sq, id) = P!run(pg, id)
                       /\ S!model_runs(sq, id) = P!model_runs(pg, id)
                       /\ S!seed_runs(sq, id) = P!seed_runs(pg, id)
                       /\ S!test_runs(sq, id) = P!test_runs(pg, id)
    /\ \A p \in Typed : p.exact = p.folded => S!find_runs(sq, p) = P!find_runs(pg, p)
    /\ \A k \in Keys : Clear(told.records, k) =>
          S!materialized_version(sq, k[1], k[2]) = P!materialized_version(pg, k[1], k[2])
    /\ (\A k \in Keys : Clear(told.records, k)) =>
          /\ \A env \in Envs : S!materialized_in(sq, env) = P!materialized_in(pg, env)
          /\ LET s == S!materialized_by_hashes(sq, Hashes)
                 p == P!materialized_by_hashes(pg, Hashes)
             IN  s = [h \in Hashes |-> IF h \in DOMAIN p THEN p[h] ELSE {}]
    /\ \A k \in Keys : Clear(told.seeds, k) =>
          S!seed_state(sq, k[1], k[2]) = P!seed_state(pg, k[1], k[2])
    /\ (\A k \in Keys : Clear(told.seeds, k)) =>
          \A env \in Envs : S!seeds_in(sq, env) = P!seeds_in(pg, env)
    /\ ~Blurred({run.started_at : run \in ToSet(sq.runs)} \cup {w.now : w \in MarkOffers}) =>
          \A k \in Keys : S!watermark(sq, k[1], k[2]) = P!watermark(pg, k[1], k[2])
    /\ told.again = {} => S!promotions(sq) = P!promotions(pg)
    /\ ToSet(S!promotions(sq)) = ToSet(P!promotions(pg))
    /\ \A r \in EvidenceOffers :
          S!evidence_for(sq, r.kind, r.subject) = P!evidence_for(pg, r.kind, r.subject)
    /\ \A kind \in Kinds : S!latest_evidence(sq, kind) = P!latest_evidence(pg, kind)
    /\ ListingsAreNewest

(* "A record older than the stored one is dropped, so concurrent runs      *)
(* completing out of order cannot regress shared state": no row is older   *)
(* than anything that was ever recorded for it.                            *)
NewestRecordStands ==
    \A k \in Keys :
        /\ \A r \in Delivered(told.records, k) :
             /\ \E row \in S!materialized_version(sq, k[1], k[2]) : cmp_rfc3339(row.at, r.at) >= 0
             /\ \E row \in P!materialized_version(pg, k[1], k[2]) : row.at.micro >= r.at.micro
        /\ \A r \in Delivered(told.seeds, k) :
             /\ \E row \in S!seed_state(sq, k[1], k[2]) : cmp_rfc3339(row.at, r.at) >= 0
             /\ \E row \in P!seed_state(pg, k[1], k[2]) : row.at.micro >= r.at.micro

(* "A later-started run's observation supersedes an earlier run's, whatever *)
(* order the writes land in": the watermark is the last one written by the *)
(* run that started last, if every writer had a row when it wrote.         *)
NewestWatermarkStands ==
    \A k \in Keys :
        LET marks == {i \in DOMAIN told.marks :
                        <<told.marks[i].mark.name, told.marks[i].mark.env>> = k}
            At(i) == S!Generation(sq, told.marks[i].mark.run, NoStamp)
        IN  (marks # {} /\ \A i \in marks : told.marks[i].known) =>
              \E i \in marks :
                /\ S!watermark(sq, k[1], k[2]) = {told.marks[i].mark.value}
                /\ \A j \in marks : \/ cmp_rfc3339(At(j), At(i)) < 0
                                    \/ cmp_rfc3339(At(j), At(i)) = 0 /\ j <= i

(* "The row lands as one coherent record": what a row proves about the key *)
(* of its table is what the record in it said, or what it can be read to   *)
(* say, unless an opening process was filling in that row.                 *)
KeyIsItsRecords ==
    \A row \in S!materialized_in(sq, "") \cup S!materialized_in(sq, "dev")
                 \cup P!materialized_in(pg, "") \cup P!materialized_in(pg, "dev") :
        \/ <<row.name, row.env>> \in raced
        \/ \E r \in told.records :
              /\ [row EXCEPT !.effective_key = r.effective_key] = r
              /\ recorded_key(row) = recorded_key(r)
=============================================================================
