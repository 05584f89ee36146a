---------------------------- MODULE StoresProofs ----------------------------
(***************************************************************************)
(* Theorems about Stores, for any calls in any order, any database that an *)
(* older release left, and any number of processes that open it.           *)
(***************************************************************************)
EXTENDS Stores, SequenceTheorems, FiniteSetTheorems, TLAPS

-----------------------------------------------------------------------------
(***************************************************************************)
(* What a call leaves alone.                                               *)
(***************************************************************************)
Tables == {"runs", "model_runs", "seed_runs", "test_runs", "model_versions",
           "incremental_state", "seed_loads", "promotions", "evidence"}
ShapeInv == /\ DOMAIN sq = Tables /\ DOMAIN pg = Tables
            /\ DOMAIN told = {"records", "seeds", "marks", "again"}

rowsOf(db) == <<db.model_versions, db.seed_loads>>
marksOf(db) == <<db.runs, db.incremental_state>>

LEMMA PutIs ==
    ASSUME NEW table, NEW key, NEW row
    PROVE  /\ DOMAIN Put(table, key, row) = {key} \cup DOMAIN table
           /\ Put(table, key, row)[key] = row
           /\ \A k \in DOMAIN table \ {key} : Put(table, key, row)[k] = table[k]
  BY DEF Put

\* Runs are written by four calls, records by others.
RunCall(run) == StartRun(run) \/ ReopenRun(run) \/ BindRun(run) \/ FinishRun(run)
OtherCall ==
    \/ \E r \in ProgressOffers : RecordModel(r) \/ RecordSeedRun(r) \/ RecordTest(r)
    \/ \E r \in PromotionOffers : RecordPromotion(r)
    \/ \E r \in EvidenceOffers : RecordEvidence(r) \/ RemoveEvidence(r)
LEMMA NextCases ==
    ASSUME Next
    PROVE  \/ \E run \in RunOffers : RunCall(run)
           \/ \E r \in RecordOffers : RecordMaterialized(r)
           \/ \E r \in SeedOffers : RecordSeed(r)
           \/ \E w \in MarkOffers : SetWatermark(w)
           \/ OtherCall \/ Open
           \/ \E p \in pending.sq \cup pending.pg : Backfill(p)
  BY DEF Next, RunCall, OtherCall

LEMMA OtherIs ==
    ASSUME ShapeInv, OtherCall
    PROVE  /\ ShapeInv' /\ rowsOf(sq)' = rowsOf(sq) /\ rowsOf(pg)' = rowsOf(pg)
           /\ marksOf(sq)' = marksOf(sq) /\ pending' = pending /\ raced' = raced
           /\ told'.records = told.records /\ told'.seeds = told.seeds
           /\ told'.marks = told.marks
<1>1. ASSUME NEW r \in ProgressOffers, RecordModel(r) \/ RecordSeedRun(r) \/ RecordTest(r)
      PROVE  /\ DOMAIN sq' = Tables /\ DOMAIN pg' = Tables /\ told' = told
             /\ rowsOf(sq)' = rowsOf(sq) /\ rowsOf(pg)' = rowsOf(pg)
             /\ marksOf(sq)' = marksOf(sq) /\ pending' = pending /\ raced' = raced
  BY <1>1 DEF ShapeInv, Tables, rowsOf, marksOf, RecordModel, RecordSeedRun, RecordTest, Said,
     Wrote, S!record_model, S!record_seed_run, S!record_test, P!record_model,
     P!record_seed_run, P!record_test
<1>2. ASSUME NEW r \in PromotionOffers, RecordPromotion(r)
      PROVE  /\ DOMAIN sq' = Tables /\ DOMAIN pg' = Tables
             /\ DOMAIN told' = DOMAIN told /\ told'.records = told.records
             /\ told'.seeds = told.seeds /\ told'.marks = told.marks
             /\ rowsOf(sq)' = rowsOf(sq) /\ rowsOf(pg)' = rowsOf(pg)
             /\ marksOf(sq)' = marksOf(sq) /\ pending' = pending /\ raced' = raced
  BY <1>2 DEF ShapeInv, Tables, rowsOf, marksOf, RecordPromotion, Wrote, S!record_promotion,
     P!record_promotion
<1>3. ASSUME NEW r \in EvidenceOffers, RecordEvidence(r) \/ RemoveEvidence(r)
      PROVE  /\ DOMAIN sq' = Tables /\ DOMAIN pg' = Tables /\ told' = told
             /\ rowsOf(sq)' = rowsOf(sq) /\ rowsOf(pg)' = rowsOf(pg)
             /\ marksOf(sq)' = marksOf(sq) /\ pending' = pending /\ raced' = raced
  BY <1>3 DEF ShapeInv, Tables, rowsOf, marksOf, RecordEvidence, RemoveEvidence, Said, Wrote,
     S!record_evidence, S!remove_evidence, P!record_evidence, P!remove_evidence
<1> QED
  BY <1>1, <1>2, <1>3 DEF OtherCall, ShapeInv

LEMMA RunCallIs ==
    ASSUME ShapeInv, NEW run \in RunOffers, RunCall(run)
    PROVE  /\ ShapeInv' /\ rowsOf(sq)' = rowsOf(sq) /\ rowsOf(pg)' = rowsOf(pg)
           /\ sq'.incremental_state = sq.incremental_state
           /\ told' = told /\ pending' = pending /\ raced' = raced
<1>1. ShapeInv' /\ told' = told /\ pending' = pending /\ raced' = raced
  BY DEF ShapeInv, Tables, RunCall, StartRun, ReopenRun, BindRun, FinishRun, Said,
     Wrote, S!start_run, S!reopen_run, S!bind_run_reference_hash, S!finish_run, P!start_run,
     P!reopen_run, P!bind_run_reference_hash, P!finish_run
<1>2. /\ rowsOf(sq)' = rowsOf(sq) /\ rowsOf(pg)' = rowsOf(pg)
      /\ sq'.incremental_state = sq.incremental_state
  BY DEF ShapeInv, Tables, rowsOf, RunCall, StartRun, ReopenRun, BindRun, FinishRun, Said,
     Wrote, S!start_run, S!reopen_run, S!bind_run_reference_hash, S!finish_run, P!start_run,
     P!reopen_run, P!bind_run_reference_hash, P!finish_run
<1> QED
  BY <1>1, <1>2

LEMMA MarkIs ==
    ASSUME ShapeInv, NEW w \in MarkOffers, SetWatermark(w)
    PROVE  /\ ShapeInv' /\ rowsOf(sq)' = rowsOf(sq) /\ rowsOf(pg)' = rowsOf(pg)
           /\ sq'.runs = sq.runs /\ pending' = pending /\ raced' = raced
           /\ told'.records = told.records /\ told'.seeds = told.seeds
           /\ told'.marks = Append(told.marks, [mark |-> w, known |-> Has(sq.runs, w.run)])
<1>1. /\ DOMAIN sq' = Tables /\ DOMAIN pg' = Tables /\ rowsOf(sq)' = rowsOf(sq)
      /\ rowsOf(pg)' = rowsOf(pg) /\ sq'.runs = sq.runs
  BY DEF ShapeInv, Tables, rowsOf, SetWatermark, Wrote, S!set_watermark, P!set_watermark
<1> QED
  BY <1>1 DEF ShapeInv, SetWatermark, Wrote

-----------------------------------------------------------------------------
(***************************************************************************)
(* Records.  "unit" is what a store compares stamps by.                    *)
(***************************************************************************)
Dated(r) == r.at \in Stamp /\ Parsed(r.at)
Key(r) == <<r.name, r.env>>
NewestIn(table, said, unit) ==
    /\ \A k \in DOMAIN table : k = Key(table[k]) /\ Dated(table[k])
    /\ \A r \in said : /\ Dated(r) /\ Key(r) \in DOMAIN table
                       /\ table[Key(r)].at[unit] >= r.at[unit]

LEMMA OffersAre ==
    /\ \A r \in RecordOffers \cup SeedOffers \cup Old : Dated(r)
    /\ \A run \in RunOffers : run.started_at \in Stamp /\ Parsed(run.started_at)
  BY StampAssumption DEF Dated, Stamps

\* An ordered upsert: older records leave the row.
Ordering(table, t, r, unit) ==
    \/ /\ t = Put(table, Key(r), r)
       /\ Key(r) \in DOMAIN table => r.at[unit] >= table[Key(r)].at[unit]
    \/ t = table /\ Key(r) \in DOMAIN table /\ r.at[unit] < table[Key(r)].at[unit]

LEMMA UpsertNewest ==
    ASSUME NEW table, NEW t, NEW said, NEW unit \in {"nano", "micro"}, NEW r, Dated(r),
           NewestIn(table, said, unit), Ordering(table, t, r, unit)
    PROVE  NewestIn(t, said \cup {r}, unit)
<1>1. \A s \in Stamp : s[unit] \in Int
  BY DEF Stamp
<1>2. CASE t = table /\ Key(r) \in DOMAIN table /\ r.at[unit] < table[Key(r)].at[unit]
  <2>1. r.at[unit] \in Int /\ table[Key(r)].at[unit] \in Int
    BY <1>1, <1>2 DEF NewestIn, Dated
  <2>2. table[Key(r)].at[unit] >= r.at[unit]
    BY <1>2, <2>1
  <2> QED
    BY <1>2, <2>2 DEF NewestIn
<1>3. CASE t = Put(table, Key(r), r) /\
           (Key(r) \in DOMAIN table => r.at[unit] >= table[Key(r)].at[unit])
  <2>1. /\ DOMAIN t = {Key(r)} \cup DOMAIN table /\ t[Key(r)] = r
        /\ \A k \in DOMAIN table \ {Key(r)} : t[k] = table[k]
    BY <1>3, PutIs
  <2>2. \A k \in DOMAIN t : k = Key(t[k]) /\ Dated(t[k])
    BY <2>1 DEF NewestIn
  <2>3. ASSUME NEW o \in said
        PROVE  Dated(o) /\ Key(o) \in DOMAIN t /\ t[Key(o)].at[unit] >= o.at[unit]
    <3>1. /\ Dated(o) /\ Key(o) \in DOMAIN table /\ Dated(table[Key(o)])
          /\ table[Key(o)].at[unit] >= o.at[unit]
      BY DEF NewestIn
    <3>2. o.at[unit] \in Int /\ r.at[unit] \in Int /\ table[Key(o)].at[unit] \in Int
      BY <1>1, <3>1 DEF Dated
    <3>3. CASE Key(o) = Key(r)
      BY <1>3, <2>1, <3>1, <3>2, <3>3
    <3>4. CASE Key(o) # Key(r)
      BY <2>1, <3>1, <3>4
    <3> QED
      BY <3>3, <3>4
  <2>4. r.at[unit] >= r.at[unit]
    BY <1>1 DEF Dated
  <2> QED
    BY <2>1, <2>2, <2>3, <2>4 DEF NewestIn
<1> QED
  BY <1>2, <1>3 DEF Ordering

NewestInv ==
    /\ NewestIn(sq.model_versions, told.records, "nano")
    /\ NewestIn(pg.model_versions, told.records, "micro")
    /\ NewestIn(sq.seed_loads, told.seeds, "nano")
    /\ NewestIn(pg.seed_loads, told.seeds, "micro")

LEMMA RecordIs ==
    ASSUME ShapeInv, NewestInv, NEW r \in RecordOffers, RecordMaterialized(r)
    PROVE  /\ ShapeInv' /\ sq'.seed_loads = sq.seed_loads /\ pg'.seed_loads = pg.seed_loads
           /\ marksOf(sq)' = marksOf(sq) /\ pending' = pending
           /\ told'.records = told.records \cup {r} /\ told'.seeds = told.seeds
           /\ told'.marks = told.marks
           /\ raced' = raced \cup ({Key(r)} \cap Pending)
           /\ Ordering(sq.model_versions, sq'.model_versions, r, "nano")
           /\ Ordering(pg.model_versions, pg'.model_versions, r, "micro")
<1>0. Dated(r)
  BY OffersAre
<1>1. /\ DOMAIN sq' = Tables /\ sq'.seed_loads = sq.seed_loads /\ marksOf(sq)' = marksOf(sq)
      /\ DOMAIN pg' = Tables /\ pg'.seed_loads = pg.seed_loads
  BY DEF ShapeInv, Tables, RecordMaterialized, Wrote, S!record_materialized,
     P!record_materialized, marksOf
<1>2. Ordering(sq.model_versions, sq'.model_versions, r, "nano")
  <2>1. Key(r) \in DOMAIN sq.model_versions => Dated(sq.model_versions[Key(r)])
    BY DEF NewestInv, NewestIn
  <2>2. S!Put(sq.model_versions, Key(r), r) = Put(sq.model_versions, Key(r), r)
    BY DEF S!Put, Put
  <2>3. \/ /\ Key(r) \in DOMAIN sq.model_versions
           /\ S!cmp_rfc3339(r.at, sq.model_versions[Key(r)].at) < 0
           /\ sq' = sq
        \/ /\ ~(Key(r) \in DOMAIN sq.model_versions
                /\ S!cmp_rfc3339(r.at, sq.model_versions[Key(r)].at) < 0)
           /\ sq'.model_versions = S!Put(sq.model_versions, Key(r), r)
    BY DEF ShapeInv, Tables, RecordMaterialized, Wrote, S!record_materialized, Key
  <2> QED
    BY <1>0, <2>1, <2>2, <2>3
       DEF Ordering, S!cmp_rfc3339, S!Parsed, Dated, Parsed, Stamp
<1>3. Ordering(pg.model_versions, pg'.model_versions, r, "micro")
  <2>1. Key(r) \in DOMAIN pg.model_versions => Dated(pg.model_versions[Key(r)])
    BY DEF NewestInv, NewestIn
  <2>2. P!Put(pg.model_versions, Key(r), r) = Put(pg.model_versions, Key(r), r)
    BY DEF P!Put, Put
  <2>3. pg'.model_versions = P!Ordered(pg.model_versions, r)
    BY DEF ShapeInv, Tables, RecordMaterialized, Wrote, P!record_materialized
  <2>4. P!Row(pg.model_versions, Key(r)) =
          IF Key(r) \in DOMAIN pg.model_versions THEN {pg.model_versions[Key(r)]} ELSE {}
    BY DEF P!Row
  <2>5. \/ /\ Key(r) \in DOMAIN pg.model_versions
           /\ P!phlo_cmp_rfc3339(r.at, pg.model_versions[Key(r)].at) < 0
           /\ pg'.model_versions = pg.model_versions
        \/ /\ ~(Key(r) \in DOMAIN pg.model_versions
                /\ P!phlo_cmp_rfc3339(r.at, pg.model_versions[Key(r)].at) < 0)
           /\ pg'.model_versions = P!Put(pg.model_versions, Key(r), r)
    BY <2>3, <2>4 DEF P!Ordered, Key
  <2> QED
    BY <1>0, <2>1, <2>2, <2>5
       DEF Ordering, P!phlo_cmp_rfc3339, P!Parsed, Dated, Parsed, Stamp
<1>4. /\ DOMAIN told' = DOMAIN told /\ told'.records = told.records \cup {r}
      /\ told'.seeds = told.seeds /\ told'.marks = told.marks /\ pending' = pending
      /\ raced' = raced \cup ({Key(r)} \cap Pending)
  BY DEF ShapeInv, RecordMaterialized, Wrote, Key
<1> QED
  BY <1>1, <1>2, <1>3, <1>4 DEF ShapeInv

LEMMA SeedIs ==
    ASSUME ShapeInv, NewestInv, NEW r \in SeedOffers, RecordSeed(r)
    PROVE  /\ ShapeInv' /\ sq'.model_versions = sq.model_versions
           /\ pg'.model_versions = pg.model_versions
           /\ marksOf(sq)' = marksOf(sq) /\ pending' = pending /\ raced' = raced
           /\ told'.seeds = told.seeds \cup {r} /\ told'.records = told.records
           /\ told'.marks = told.marks
           /\ Ordering(sq.seed_loads, sq'.seed_loads, r, "nano")
           /\ Ordering(pg.seed_loads, pg'.seed_loads, r, "micro")
<1>0. Dated(r)
  BY OffersAre
<1>1. /\ DOMAIN sq' = Tables /\ sq'.model_versions = sq.model_versions
      /\ DOMAIN pg' = Tables /\ pg'.model_versions = pg.model_versions
      /\ marksOf(sq)' = marksOf(sq)
  BY DEF ShapeInv, Tables, RecordSeed, Wrote, S!record_seed, P!record_seed, marksOf
<1>2. Ordering(sq.seed_loads, sq'.seed_loads, r, "nano")
  <2>1. Key(r) \in DOMAIN sq.seed_loads => Dated(sq.seed_loads[Key(r)])
    BY DEF NewestInv, NewestIn
  <2>2. S!Put(sq.seed_loads, Key(r), r) = Put(sq.seed_loads, Key(r), r)
    BY DEF S!Put, Put
  <2>3. \/ /\ Key(r) \in DOMAIN sq.seed_loads
           /\ S!cmp_rfc3339(r.at, sq.seed_loads[Key(r)].at) < 0
           /\ sq' = sq
        \/ /\ ~(Key(r) \in DOMAIN sq.seed_loads
                /\ S!cmp_rfc3339(r.at, sq.seed_loads[Key(r)].at) < 0)
           /\ sq'.seed_loads = S!Put(sq.seed_loads, Key(r), r)
    BY DEF ShapeInv, Tables, RecordSeed, Wrote, S!record_seed, Key
  <2> QED
    BY <1>0, <2>1, <2>2, <2>3
       DEF Ordering, S!cmp_rfc3339, S!Parsed, Dated, Parsed, Stamp
<1>3. Ordering(pg.seed_loads, pg'.seed_loads, r, "micro")
  <2>1. Key(r) \in DOMAIN pg.seed_loads => Dated(pg.seed_loads[Key(r)])
    BY DEF NewestInv, NewestIn
  <2>2. P!Put(pg.seed_loads, Key(r), r) = Put(pg.seed_loads, Key(r), r)
    BY DEF P!Put, Put
  <2>3. pg'.seed_loads = P!Ordered(pg.seed_loads, r)
    BY DEF ShapeInv, Tables, RecordSeed, Wrote, P!record_seed
  <2>4. P!Row(pg.seed_loads, Key(r)) =
          IF Key(r) \in DOMAIN pg.seed_loads THEN {pg.seed_loads[Key(r)]} ELSE {}
    BY DEF P!Row
  <2>5. \/ /\ Key(r) \in DOMAIN pg.seed_loads
           /\ P!phlo_cmp_rfc3339(r.at, pg.seed_loads[Key(r)].at) < 0
           /\ pg'.seed_loads = pg.seed_loads
        \/ /\ ~(Key(r) \in DOMAIN pg.seed_loads
                /\ P!phlo_cmp_rfc3339(r.at, pg.seed_loads[Key(r)].at) < 0)
           /\ pg'.seed_loads = P!Put(pg.seed_loads, Key(r), r)
    BY <2>3, <2>4 DEF P!Ordered, Key
  <2> QED
    BY <1>0, <2>1, <2>2, <2>5
       DEF Ordering, P!phlo_cmp_rfc3339, P!Parsed, Dated, Parsed, Stamp
<1>4. /\ DOMAIN told' = DOMAIN told /\ told'.seeds = told.seeds \cup {r}
      /\ told'.records = told.records /\ told'.marks = told.marks
      /\ pending' = pending /\ raced' = raced
  BY DEF ShapeInv, RecordSeed, Wrote
<1> QED
  BY <1>1, <1>2, <1>3, <1>4 DEF ShapeInv

\* Filling in a key, where the row is still there.
Filled(table, t, p) ==
    t = [k \in DOMAIN table |->
           IF k = p[1] THEN [table[k] EXCEPT !.effective_key = p[2]] ELSE table[k]]

-----------------------------------------------------------------------------
(***************************************************************************)
(* Keys.  "touched" are the rows that were written while their key was     *)
(* pending, "said" the records, "fills" the updates that an opening        *)
(* process has yet to make in a table.                                     *)
(***************************************************************************)
IsRow(row) == row = [c \in Columns |-> row[c]]
FillFine(row, p) ==
    /\ row.strategy = "key" /\ row.columns # {}
    /\ p[2] = <<{row.columns}>> /\ row.effective_key \in {<<>>, p[2]}
FillsFine(table, fills, touched) ==
    \A p \in fills : /\ p[1] \in DOMAIN table
                     /\ p[1] \in touched \/ FillFine(table[p[1]], p)
Says(row, r) == /\ [row EXCEPT !.effective_key = r.effective_key] = r
                /\ recorded_key(row) = recorded_key(r)
KeysFine(table, fills, touched, said) ==
    /\ \A k \in DOMAIN table : IsRow(table[k])
    /\ \A k \in DOMAIN table : k \in touched \/ \E r \in said : Says(table[k], r)
    /\ FillsFine(table, fills, touched)
KeyInv == /\ KeysFine(sq.model_versions, pending.sq, raced, told.records)
          /\ KeysFine(pg.model_versions, pending.pg, raced, told.records)

LEMMA SaysItself == ASSUME NEW r, IsRow(r) PROVE Says(r, r)
<1>1. [r EXCEPT !.effective_key = r.effective_key] = r
  BY DEF IsRow
<1> QED
  BY <1>1 DEF Says

LEMMA KeysRecord ==
    ASSUME NEW table, NEW t, NEW fills, NEW touched, NEW said, NEW r, NEW unit, IsRow(r),
           NEW pended, \A p \in fills : p[1] \in pended,
           KeysFine(table, fills, touched, said), Ordering(table, t, r, unit)
    PROVE  KeysFine(t, fills, touched \cup ({Key(r)} \cap pended), said \cup {r})
<1>1. CASE t = table
  BY <1>1 DEF KeysFine, FillsFine
<1>2. CASE t = Put(table, Key(r), r)
  <2>1. /\ DOMAIN t = {Key(r)} \cup DOMAIN table /\ t[Key(r)] = r
        /\ \A k \in DOMAIN table \ {Key(r)} : t[k] = table[k]
    BY <1>2 DEF Put
  <2>2. Says(r, r)
    BY SaysItself
  <2>3. ASSUME NEW k \in DOMAIN t
        PROVE  IsRow(t[k]) /\ (k \in touched \/ \E o \in said \cup {r} : Says(t[k], o))
    <3>1. CASE k = Key(r)
      BY <2>1, <2>2, <3>1
    <3>2. CASE k # Key(r)
      <4>1. k \in DOMAIN table /\ t[k] = table[k]
        BY <2>1, <3>2
      <4>2. IsRow(table[k]) /\ (k \in touched \/ \E o \in said : Says(table[k], o))
        BY <4>1 DEF KeysFine
      <4> QED
        BY <4>1, <4>2
    <3> QED
      BY <3>1, <3>2
  <2>4. FillsFine(t, fills, touched \cup ({Key(r)} \cap pended))
    BY <2>1 DEF KeysFine, FillsFine
  <2> QED
    BY <2>3, <2>4 DEF KeysFine
<1> QED
  BY <1>1, <1>2 DEF Ordering

\* A row with its key filled in says what it said before.
LEMMA FilledSays ==
    ASSUME NEW row, NEW p, NEW r, IsRow(row), FillFine(row, p), Says(row, r)
    PROVE  Says([row EXCEPT !.effective_key = p[2]], r)
<1> DEFINE new == [row EXCEPT !.effective_key = p[2]]
<1>1. /\ new = [c \in Columns |-> IF c = "effective_key" THEN p[2] ELSE row[c]]
      /\ new.effective_key = p[2] /\ new.strategy = row.strategy /\ new.columns = row.columns
  BY DEF IsRow, Columns
<1>2. [new EXCEPT !.effective_key = r.effective_key] = r
  <2>1. [row EXCEPT !.effective_key = r.effective_key]
          = [c \in Columns |-> IF c = "effective_key" THEN r.effective_key ELSE row[c]]
    BY DEF IsRow
  <2>2. [new EXCEPT !.effective_key = r.effective_key]
          = [c \in Columns |-> IF c = "effective_key" THEN r.effective_key ELSE row[c]]
    BY <1>1
  <2> QED
    BY <2>1, <2>2 DEF Says
<1>3. p[2] # <<>> /\ p[2][1] = {row.columns}
  BY DEF FillFine
<1>4. recorded_key(new) = Known({row.columns})
  BY <1>1, <1>3 DEF recorded_key
<1>5. recorded_key(row) = Known({row.columns})
  BY <1>3 DEF FillFine, recorded_key
<1> QED
  BY <1>2, <1>4, <1>5 DEF Says

LEMMA KeysFilled ==
    ASSUME NEW table, NEW t, NEW fills, NEW touched, NEW said, NEW p \in fills,
           KeysFine(table, fills, touched, said), Filled(table, t, p)
    PROVE  KeysFine(t, fills \ {p}, touched, said)
<1>1. /\ DOMAIN t = DOMAIN table /\ p[1] \in DOMAIN table
      /\ t[p[1]] = [table[p[1]] EXCEPT !.effective_key = p[2]]
      /\ \A k \in DOMAIN table \ {p[1]} : t[k] = table[k]
  BY DEF KeysFine, FillsFine, Filled
<1>2. PICK row : row = table[p[1]] /\ IsRow(row)
  <2>1. IsRow(table[p[1]])
    BY <1>1 DEF KeysFine
  <2> QED
    BY <2>1
<1>3. PICK new : new = t[p[1]] /\ new = [row EXCEPT !.effective_key = p[2]]
  BY <1>1, <1>2
<1>4. /\ IsRow(new) /\ new.effective_key = p[2] /\ new.strategy = row.strategy
      /\ new.columns = row.columns
  BY <1>2, <1>3 DEF IsRow, Columns
<1>5. p[1] \in touched \/ (FillFine(row, p) /\ \E r \in said : Says(row, r))
  BY <1>1, <1>2 DEF KeysFine, FillsFine
<1>6. p[1] \in touched \/ \E r \in said : Says(new, r)
  BY <1>2, <1>3, <1>5, FilledSays
<1>7. FillsFine(t, fills \ {p}, touched)
  <2> SUFFICES ASSUME NEW q \in fills, q[1] \notin touched
               PROVE  q[1] \in DOMAIN t /\ FillFine(t[q[1]], q)
    BY <1>1 DEF KeysFine, FillsFine
  <2>1. q[1] \in DOMAIN table /\ FillFine(table[q[1]], q)
    BY DEF KeysFine, FillsFine
  <2>2. CASE q[1] = p[1]
    <3>1. FillFine(row, p) /\ FillFine(row, q)
      BY <1>2, <1>5, <2>1, <2>2
    <3>2. FillFine(new, q)
      BY <1>4, <3>1 DEF FillFine
    <3> QED
      BY <1>1, <1>3, <2>1, <2>2, <3>2
  <2>3. CASE q[1] # p[1]
    BY <1>1, <2>1, <2>3
  <2> QED
    BY <2>2, <2>3
<1> QED
  BY <1>1, <1>3, <1>4, <1>6, <1>7 DEF KeysFine

\* What an opening process finds to fill in.
LEMMA KeysOpened ==
    ASSUME NEW table, NEW fills, NEW more, NEW touched, NEW said,
           KeysFine(table, fills, touched, said),
           \A p \in more : /\ p[1] \in DOMAIN table /\ table[p[1]].effective_key = <<>>
                          /\ table[p[1]].strategy = "key" /\ table[p[1]].columns # {}
                          /\ p[2] = <<{table[p[1]].columns}>>
    PROVE  KeysFine(table, fills \cup more, touched, said)
  BY DEF KeysFine, FillsFine, FillFine

LEMMA NewestFilled ==
    ASSUME NEW table, NEW t, NEW said, NEW unit, NEW p, Filled(table, t, p),
           \A k \in DOMAIN table : IsRow(table[k]), NewestIn(table, said, unit)
    PROVE  NewestIn(t, said, unit)
<1>1. \A k \in DOMAIN table : \A c \in {"name", "env", "at"} : t[k][c] = table[k][c]
  BY DEF Filled, IsRow, Columns
<1>2. \A k \in DOMAIN table : /\ t[k].name = table[k].name /\ t[k].env = table[k].env
                              /\ t[k].at = table[k].at
  BY <1>1
<1>3. DOMAIN t = DOMAIN table
  BY DEF Filled
<1> QED
  BY <1>2, <1>3 DEF NewestIn, Key, Dated

RecordsInv == ShapeInv /\ NewestInv /\ KeyInv

LEMMA RecordsSame ==
    ASSUME RecordsInv, ShapeInv', rowsOf(sq)' = rowsOf(sq), rowsOf(pg)' = rowsOf(pg),
           pending' = pending, raced' = raced, told'.records = told.records,
           told'.seeds = told.seeds
    PROVE  RecordsInv'
<1>1. /\ sq'.model_versions = sq.model_versions /\ sq'.seed_loads = sq.seed_loads
      /\ pg'.model_versions = pg.model_versions /\ pg'.seed_loads = pg.seed_loads
  BY DEF rowsOf
<1> QED
  BY <1>1 DEF RecordsInv, NewestInv, KeyInv

LEMMA PendingIs ==
    /\ \A p \in pending.sq \cup pending.pg : p[1] \in Pending
  BY DEF Pending

LEMMA RecordsRecord ==
    ASSUME RecordsInv, NEW r \in RecordOffers, RecordMaterialized(r)
    PROVE  RecordsInv'
<1>1. /\ ShapeInv' /\ sq'.seed_loads = sq.seed_loads /\ pg'.seed_loads = pg.seed_loads
      /\ pending' = pending
      /\ told'.records = told.records \cup {r} /\ told'.seeds = told.seeds
      /\ raced' = raced \cup ({Key(r)} \cap Pending)
      /\ Ordering(sq.model_versions, sq'.model_versions, r, "nano")
      /\ Ordering(pg.model_versions, pg'.model_versions, r, "micro")
  BY RecordIs DEF RecordsInv
<1>2. Dated(r) /\ IsRow(r)
  BY OffersAre, ColumnAssumption DEF IsRow
<1>3. /\ NewestIn(sq'.model_versions, told.records \cup {r}, "nano")
      /\ NewestIn(pg'.model_versions, told.records \cup {r}, "micro")
  BY <1>1, <1>2, UpsertNewest DEF RecordsInv, NewestInv
<1>4. NewestInv'
  BY <1>1, <1>3 DEF RecordsInv, NewestInv
<1>5. KeysFine(sq'.model_versions, pending.sq, raced \cup ({Key(r)} \cap Pending),
               told.records \cup {r})
  BY <1>1, <1>2, PendingIs, KeysRecord DEF RecordsInv, KeyInv
<1>6. KeysFine(pg'.model_versions, pending.pg, raced \cup ({Key(r)} \cap Pending),
               told.records \cup {r})
  BY <1>1, <1>2, PendingIs, KeysRecord DEF RecordsInv, KeyInv
<1>7. KeyInv'
  BY <1>1, <1>5, <1>6 DEF KeyInv
<1> QED
  BY <1>1, <1>4, <1>7 DEF RecordsInv

LEMMA RecordsSeed ==
    ASSUME RecordsInv, NEW r \in SeedOffers, RecordSeed(r)
    PROVE  RecordsInv'
<1>1. /\ ShapeInv' /\ sq'.model_versions = sq.model_versions
      /\ pg'.model_versions = pg.model_versions
      /\ pending' = pending /\ raced' = raced
      /\ told'.seeds = told.seeds \cup {r} /\ told'.records = told.records
      /\ Ordering(sq.seed_loads, sq'.seed_loads, r, "nano")
      /\ Ordering(pg.seed_loads, pg'.seed_loads, r, "micro")
  BY SeedIs DEF RecordsInv
<1>2. Dated(r)
  BY OffersAre
<1>3. /\ NewestIn(sq'.seed_loads, told.seeds \cup {r}, "nano")
      /\ NewestIn(pg'.seed_loads, told.seeds \cup {r}, "micro")
  BY <1>1, <1>2, UpsertNewest DEF RecordsInv, NewestInv
<1>4. NewestInv'
  BY <1>1, <1>3 DEF RecordsInv, NewestInv
<1>5. KeyInv'
  BY <1>1 DEF RecordsInv, KeyInv
<1> QED
  BY <1>1, <1>4, <1>5 DEF RecordsInv

LEMMA RecordsOpen == ASSUME RecordsInv, Open PROVE RecordsInv'
<1>1. /\ UNCHANGED <<sq, pg, told, raced>>
      /\ pending'.sq = pending.sq \cup S!legacy_keys(sq)
      /\ pending'.pg = pending.pg \cup P!legacy_keys(pg)
  BY DEF Open
<1>2. ASSUME NEW p \in S!legacy_keys(sq)
      PROVE  LET row == sq.model_versions[p[1]]
             IN  /\ p[1] \in DOMAIN sq.model_versions /\ row.effective_key = <<>>
                 /\ row.strategy = "key" /\ row.columns # {} /\ p[2] = <<{row.columns}>>
  BY DEF S!legacy_keys, S!incremental_key_claim
<1>3. ASSUME NEW p \in P!legacy_keys(pg)
      PROVE  LET row == pg.model_versions[p[1]]
             IN  /\ p[1] \in DOMAIN pg.model_versions /\ row.effective_key = <<>>
                 /\ row.strategy = "key" /\ row.columns # {} /\ p[2] = <<{row.columns}>>
  BY DEF P!legacy_keys, P!incremental_key_claim
<1>4. KeysFine(sq.model_versions, pending.sq \cup S!legacy_keys(sq), raced, told.records)
  BY <1>2, KeysOpened DEF RecordsInv, KeyInv
<1>5. KeysFine(pg.model_versions, pending.pg \cup P!legacy_keys(pg), raced, told.records)
  BY <1>3, KeysOpened DEF RecordsInv, KeyInv
<1> QED
  BY <1>1, <1>4, <1>5 DEF RecordsInv, ShapeInv, NewestInv, KeyInv

LEMMA FillIs ==
    ASSUME RecordsInv, NEW p \in pending.sq \cup pending.pg, Backfill(p)
    PROVE  /\ ShapeInv' /\ told' = told /\ raced' = raced
           /\ sq'.seed_loads = sq.seed_loads /\ pg'.seed_loads = pg.seed_loads
           /\ marksOf(sq)' = marksOf(sq)
           /\ pending'.sq = pending.sq \ {p} /\ pending'.pg = pending.pg \ {p}
           /\ IF p \in pending.sq THEN Filled(sq.model_versions, sq'.model_versions, p)
              ELSE sq'.model_versions = sq.model_versions
           /\ IF p \in pending.pg THEN Filled(pg.model_versions, pg'.model_versions, p)
              ELSE pg'.model_versions = pg.model_versions
<1>1. /\ sq' = IF p \in pending.sq THEN S!backfill(sq, p[1], p[2]) ELSE sq
      /\ pg' = IF p \in pending.pg THEN P!backfill(pg, p[1], p[2]) ELSE pg
      /\ pending'.sq = pending.sq \ {p} /\ pending'.pg = pending.pg \ {p}
      /\ told' = told /\ raced' = raced
  BY DEF Backfill
<1>2. ASSUME p \in pending.sq
      PROVE  /\ DOMAIN sq' = Tables /\ sq'.seed_loads = sq.seed_loads
             /\ marksOf(sq)' = marksOf(sq)
             /\ Filled(sq.model_versions, sq'.model_versions, p)
  BY <1>1, <1>2 DEF S!backfill, Filled, RecordsInv, ShapeInv, Tables, marksOf
<1>3. ASSUME p \in pending.pg
      PROVE  /\ DOMAIN pg' = Tables /\ pg'.seed_loads = pg.seed_loads
             /\ Filled(pg.model_versions, pg'.model_versions, p)
  BY <1>1, <1>3 DEF P!backfill, Filled, RecordsInv, ShapeInv, Tables
<1> QED
  BY <1>1, <1>2, <1>3 DEF RecordsInv, ShapeInv, marksOf

LEMMA RecordsFill ==
    ASSUME RecordsInv, NEW p \in pending.sq \cup pending.pg, Backfill(p)
    PROVE  RecordsInv'
<1>1. ASSUME NEW table, NEW t, NEW fills, NEW unit,
             KeysFine(table, fills, raced, told.records), NewestIn(table, told.records, unit),
             IF p \in fills THEN Filled(table, t, p) ELSE t = table
      PROVE  KeysFine(t, fills \ {p}, raced, told.records) /\ NewestIn(t, told.records, unit)
  <2>1. CASE p \in fills
    <3>1. \A k \in DOMAIN table : IsRow(table[k])
      BY <1>1 DEF KeysFine
    <3> QED
      BY <1>1, <2>1, <3>1, KeysFilled, NewestFilled
  <2>2. CASE p \notin fills
    BY <1>1, <2>2 DEF KeysFine, FillsFine
  <2> QED
    BY <2>1, <2>2
<1>2. /\ KeysFine(sq'.model_versions, pending.sq \ {p}, raced, told.records)
      /\ NewestIn(sq'.model_versions, told.records, "nano")
  BY <1>1, FillIs DEF RecordsInv, KeyInv, NewestInv
<1>3. /\ KeysFine(pg'.model_versions, pending.pg \ {p}, raced, told.records)
      /\ NewestIn(pg'.model_versions, told.records, "micro")
  BY <1>1, FillIs DEF RecordsInv, KeyInv, NewestInv
<1> QED
  BY <1>2, <1>3, FillIs DEF RecordsInv, KeyInv, NewestInv

LEMMA RecordsInit == Init => RecordsInv
<1> SUFFICES ASSUME Init PROVE RecordsInv
  OBVIOUS
<1>1. PICK table \in Legacy :
        /\ sq = [S!Empty EXCEPT !.model_versions = table]
        /\ pg = [P!Empty EXCEPT !.model_versions = table]
        /\ told = [records |-> {table[k] : k \in DOMAIN table}, seeds |-> {},
                   marks |-> <<>>, again |-> {}]
  BY DEF Init
<1>2. /\ DOMAIN sq = Tables /\ sq.model_versions = table /\ sq.seed_loads = <<>>
      /\ DOMAIN pg = Tables /\ pg.model_versions = table /\ pg.seed_loads = <<>>
  BY <1>1 DEF S!Empty, P!Empty, Tables
<1>3. /\ told.records = {table[k] : k \in DOMAIN table} /\ told.seeds = {}
      /\ DOMAIN told = {"records", "seeds", "marks", "again"}
      /\ pending.sq = {} /\ pending.pg = {} /\ raced = {}
  BY <1>1 DEF Init
<1>4. \A k \in DOMAIN table : /\ table[k] \in Old /\ k = Key(table[k])
                             /\ Dated(table[k]) /\ IsRow(table[k])
  BY LegacyAssumption, OffersAre, ColumnAssumption DEF Old, Key, IsRow
<1>5. \A s \in Stamp : s.nano >= s.nano /\ s.micro >= s.micro
  BY DEF Stamp
<1>6. NewestInv
  BY <1>2, <1>3, <1>4, <1>5 DEF NewestInv, NewestIn, Dated
<1>7. KeysFine(table, {}, {}, {table[k] : k \in DOMAIN table})
  BY <1>4, SaysItself DEF KeysFine, FillsFine
<1> QED
  BY <1>2, <1>3, <1>6, <1>7 DEF RecordsInv, ShapeInv, KeyInv

LEMMA RecordsNext == RecordsInv /\ [Next]_vars => RecordsInv'
<1> SUFFICES ASSUME RecordsInv, [Next]_vars PROVE RecordsInv'
  OBVIOUS
<1>1. CASE UNCHANGED vars
  BY <1>1 DEF vars, RecordsInv, ShapeInv, NewestInv, KeyInv
<1>2. ASSUME NEW run \in RunOffers, RunCall(run) PROVE RecordsInv'
  BY <1>2, RunCallIs, RecordsSame DEF RecordsInv
<1>3. ASSUME NEW w \in MarkOffers, SetWatermark(w) PROVE RecordsInv'
  BY <1>3, MarkIs, RecordsSame DEF RecordsInv
<1>4. CASE OtherCall
  BY <1>4, OtherIs, RecordsSame DEF RecordsInv
<1> QED
  BY <1>1, <1>2, <1>3, <1>4, NextCases, RecordsRecord, RecordsSeed, RecordsOpen, RecordsFill

LEMMA RecordsAlways == Spec => []RecordsInv
<1>1. RecordsInv /\ [Next]_vars => RecordsInv'
  BY RecordsNext
<1> QED
  BY <1>1, RecordsInit, PTL DEF Spec

\* No row is older than a record that was ever made under its key, in whatever
\* order the records came: the ordered upserts of both stores.
THEOREM NewestRecordStandsHolds == Spec => []NewestRecordStands
<1>1. RecordsInv => NewestRecordStands
  <2> SUFFICES ASSUME RecordsInv, NEW k \in Keys
               PROVE  /\ \A r \in Delivered(told.records, k) :
                           /\ \E row \in S!materialized_version(sq, k[1], k[2]) :
                                 cmp_rfc3339(row.at, r.at) >= 0
                           /\ \E row \in P!materialized_version(pg, k[1], k[2]) :
                                 row.at.micro >= r.at.micro
                      /\ \A r \in Delivered(told.seeds, k) :
                           /\ \E row \in S!seed_state(sq, k[1], k[2]) :
                                 cmp_rfc3339(row.at, r.at) >= 0
                           /\ \E row \in P!seed_state(pg, k[1], k[2]) :
                                 row.at.micro >= r.at.micro
    BY DEF NewestRecordStands
  <2>1. k = <<k[1], k[2]>>
    BY DEF Keys
  <2>2. ASSUME NEW table, NEW said, NEW unit \in {"nano", "micro"}, NewestIn(table, said, unit),
               NEW r \in Delivered(said, k)
        PROVE  /\ k \in DOMAIN table /\ table[k].at[unit] >= r.at[unit]
               /\ Dated(table[k]) /\ Dated(r)
    BY <2>2 DEF NewestIn, Delivered, Key
  <2>3. \A a, b : Dated(a) /\ Dated(b) /\ a.at.nano >= b.at.nano => cmp_rfc3339(a.at, b.at) >= 0
    BY DEF Dated, cmp_rfc3339, Parsed, Stamp
  <2>4. \A table : k \in DOMAIN table => table[k] \in S!Row(table, <<k[1], k[2]>>)
    BY <2>1 DEF S!Row
  <2>5. \A table : k \in DOMAIN table => table[k] \in P!Row(table, <<k[1], k[2]>>)
    BY <2>1 DEF P!Row
  <2>6. ASSUME NEW r \in Delivered(told.records, k)
        PROVE  /\ \E row \in S!materialized_version(sq, k[1], k[2]) :
                     cmp_rfc3339(row.at, r.at) >= 0
               /\ \E row \in P!materialized_version(pg, k[1], k[2]) :
                     row.at.micro >= r.at.micro
    BY <2>2, <2>3, <2>4, <2>5
       DEF S!materialized_version, P!materialized_version, RecordsInv, NewestInv
  <2>7. ASSUME NEW r \in Delivered(told.seeds, k)
        PROVE  /\ \E row \in S!seed_state(sq, k[1], k[2]) : cmp_rfc3339(row.at, r.at) >= 0
               /\ \E row \in P!seed_state(pg, k[1], k[2]) : row.at.micro >= r.at.micro
    BY <2>2, <2>3, <2>4, <2>5 DEF S!seed_state, P!seed_state, RecordsInv, NewestInv
  <2> QED
    BY <2>6, <2>7
<1> QED
  BY <1>1, RecordsAlways, PTL

\* What a row proves about the key of its table is what its own record said,
\* unless it was written while an opening process was about to fill in its key.
THEOREM KeyIsItsRecordsHolds == Spec => []KeyIsItsRecords
<1>1. RecordsInv => KeyIsItsRecords
  <2> SUFFICES ASSUME RecordsInv,
                      NEW row \in S!materialized_in(sq, "") \cup S!materialized_in(sq, "dev")
                               \cup P!materialized_in(pg, "") \cup P!materialized_in(pg, "dev"),
                      <<row.name, row.env>> \notin raced
               PROVE  \E r \in told.records : Says(row, r)
    BY DEF KeyIsItsRecords, Says
  <2>1. PICK table \in {sq.model_versions, pg.model_versions} :
          \E k \in DOMAIN table : row = table[k]
    BY DEF S!materialized_in, P!materialized_in
  <2>2. PICK k \in DOMAIN table : row = table[k]
    BY <2>1
  <2>3. k = Key(table[k])
    BY DEF RecordsInv, NewestInv, NewestIn
  <2>4. k \in raced \/ \E r \in told.records : Says(table[k], r)
    BY DEF RecordsInv, KeyInv, KeysFine
  <2> QED
    BY <2>2, <2>3, <2>4 DEF Key
<1> QED
  BY <1>1, RecordsAlways, PTL

-----------------------------------------------------------------------------
(***************************************************************************)
(* Watermarks.  The row of a key holds the last mark of the run that       *)
(* started last, which takes a run's start that no later call changes.     *)
(***************************************************************************)
IsSeq(s) == \E U : s \in Seq(U)
RunsFine(rows) ==
    /\ IsSeq(rows)
    /\ \A i \in DOMAIN rows : /\ {"id", "started_at"} \subseteq DOMAIN rows[i]
                              /\ rows[i].started_at \in Stamp /\ Parsed(rows[i].started_at)
                              /\ rows[i].started_at \in Stamps
    /\ \A i, j \in DOMAIN rows : rows[i].id = rows[j].id => i = j
RunsKept(rows, t) ==
    \A i \in DOMAIN rows : /\ i \in DOMAIN t /\ t[i].id = rows[i].id
                          /\ t[i].started_at = rows[i].started_at

LEMMA AppendIs ==
    ASSUME NEW s, IsSeq(s), NEW x
    PROVE  /\ IsSeq(Append(s, x)) /\ Len(s) \in Nat /\ DOMAIN s = 1 .. Len(s)
           /\ DOMAIN Append(s, x) = 1 .. Len(s) + 1 /\ Append(s, x)[Len(s) + 1] = x
           /\ \A i \in DOMAIN s : Append(s, x)[i] = s[i]
<1>1. PICK U : s \in Seq(U)
  BY DEF IsSeq
<1>2. s \in Seq(U \cup {x})
  BY <1>1
<1>3. Append(s, x) \in Seq(U \cup {x})
  BY <1>2
<1>4. IsSeq(Append(s, x))
  BY <1>3 DEF IsSeq
<1> QED
  BY <1>2, <1>4

LEMMA UpdatedRuns ==
    ASSUME NEW rows, RunsFine(rows), NEW id, NEW columns, "id" \notin DOMAIN columns,
           "started_at" \notin DOMAIN columns
    PROVE  RunsFine(Updated(rows, id, columns)) /\ RunsKept(rows, Updated(rows, id, columns))
<1> DEFINE t == Updated(rows, id, columns)
<1>1. DOMAIN t = DOMAIN rows
  BY DEF Updated
<1>2. ASSUME NEW i \in DOMAIN rows
      PROVE  /\ t[i].id = rows[i].id /\ t[i].started_at = rows[i].started_at
             /\ {"id", "started_at"} \subseteq DOMAIN t[i]
  <2>1. /\ {"id", "started_at"} \subseteq DOMAIN rows[i]
        /\ t[i] = IF rows[i].id = id THEN Assigned(rows[i], columns) ELSE rows[i]
    BY DEF RunsFine, Updated
  <2> QED
    BY <2>1 DEF Assigned
<1>3. IsSeq(t)
  <2>1. PICK U : rows \in Seq(U)
    BY DEF RunsFine, IsSeq
  <2>2. t \in Seq({t[i] : i \in DOMAIN rows})
    BY <2>1 DEF Updated
  <2> QED
    BY <2>2 DEF IsSeq
<1> QED
  BY <1>1, <1>2, <1>3 DEF RunsFine, RunsKept

LEMMA StartedRuns ==
    ASSUME NEW rows, RunsFine(rows), NEW run \in RunOffers, ~Has(rows, run.id)
    PROVE  RunsFine(Append(rows, run)) /\ RunsKept(rows, Append(rows, run))
<1> DEFINE t == Append(rows, run)
<1>1. /\ IsSeq(t) /\ Len(rows) \in Nat /\ DOMAIN rows = 1 .. Len(rows)
      /\ DOMAIN t = 1 .. Len(rows) + 1 /\ t[Len(rows) + 1] = run
      /\ \A i \in DOMAIN rows : t[i] = rows[i]
  BY AppendIs DEF RunsFine
<1>2. /\ {"id", "started_at"} \subseteq DOMAIN run
      /\ run.started_at \in Stamp /\ Parsed(run.started_at)
      /\ run.started_at \in Stamps
  BY ColumnAssumption, OffersAre DEF Stamps
<1>3. \A i \in DOMAIN rows : rows[i].id # run.id
  BY DEF Has
<1>4. \A i \in DOMAIN t : i \in DOMAIN rows \/ i = Len(rows) + 1
  BY <1>1
<1> HIDE DEF t
<1>5. \A i \in DOMAIN t : /\ {"id", "started_at"} \subseteq DOMAIN t[i]
                          /\ t[i].started_at \in Stamp /\ Parsed(t[i].started_at)
                          /\ t[i].started_at \in Stamps
  BY <1>1, <1>2, <1>4 DEF RunsFine
<1>6. \A i, j \in DOMAIN t : t[i].id = t[j].id => i = j
  BY <1>1, <1>3, <1>4 DEF RunsFine
<1>7. RunsKept(rows, t)
  BY <1>1 DEF RunsKept
<1> QED
  BY <1>1, <1>5, <1>6, <1>7 DEF RunsFine, t

LEMMA RunsAre ==
    ASSUME ShapeInv, RunsFine(sq.runs), NEW run \in RunOffers, RunCall(run)
    PROVE  RunsFine(sq'.runs) /\ RunsKept(sq.runs, sq'.runs)
<1>1. CASE StartRun(run)
  <2>1. sq'.runs = IF Has(sq.runs, run.id) THEN sq.runs ELSE Append(sq.runs, run)
    BY <1>1 DEF StartRun, Said, Wrote, S!start_run, ShapeInv, Tables, S!Has, Has
  <2> QED
    BY <2>1, StartedRuns DEF RunsKept
<1>2. CASE ReopenRun(run) \/ BindRun(run) \/ FinishRun(run)
  <2>1. PICK columns : /\ "id" \notin DOMAIN columns /\ "started_at" \notin DOMAIN columns
                       /\ sq'.runs = Updated(sq.runs, run.id, columns)
    <3>1. CASE ReopenRun(run)
      <4> DEFINE columns == [status |-> "running", finished_at |-> NoStamp]
      <4>1. sq'.runs = Updated(sq.runs, run.id, columns)
        BY <3>1 DEF ReopenRun, Said, Wrote, S!reopen_run, ShapeInv, Tables, S!Updated, Updated,
           S!Assigned, Assigned, S!NoStamp, NoStamp
      <4>2. "id" \notin DOMAIN columns /\ "started_at" \notin DOMAIN columns
        OBVIOUS
      <4> QED
        BY <4>1, <4>2
    <3>2. CASE BindRun(run)
      <4> DEFINE columns == [reference_hash |-> "head"]
      <4>1. sq'.runs = Updated(sq.runs, run.id, columns)
        BY <3>2 DEF BindRun, Said, Wrote, S!bind_run_reference_hash, ShapeInv, Tables, S!Updated,
           Updated, S!Assigned, Assigned
      <4>2. "id" \notin DOMAIN columns /\ "started_at" \notin DOMAIN columns
        OBVIOUS
      <4> QED
        BY <4>1, <4>2
    <3>3. CASE FinishRun(run)
      <4> DEFINE columns == [status |-> "failed", finished_at |-> run.started_at, failed |-> 1]
      <4>1. sq'.runs = Updated(sq.runs, run.id, columns)
        BY <3>3 DEF FinishRun, Said, Wrote, S!finish_run, ShapeInv, Tables, S!Updated, Updated,
           S!Assigned, Assigned
      <4>2. "id" \notin DOMAIN columns /\ "started_at" \notin DOMAIN columns
        OBVIOUS
      <4> QED
        BY <4>1, <4>2
    <3> QED
      BY <1>2, <3>1, <3>2, <3>3
  <2> QED
    BY <2>1, UpdatedRuns
<1> QED
  BY <1>1, <1>2 DEF RunCall

\* When the run of an id started.
Began(rows, id) ==
    IF Has(rows, id) THEN rows[CHOOSE i \in DOMAIN rows : rows[i].id = id].started_at ELSE NoStamp

LEMMA BeganIs ==
    ASSUME NEW rows, RunsFine(rows), NEW i \in DOMAIN rows
    PROVE  Has(rows, rows[i].id) /\ Began(rows, rows[i].id) = rows[i].started_at
  BY DEF Began, Has, RunsFine

LEMMA BeganKept ==
    ASSUME NEW rows, NEW t, RunsFine(rows), RunsFine(t), RunsKept(rows, t), NEW id, Has(rows, id)
    PROVE  Has(t, id) /\ Began(t, id) = Began(rows, id)
<1>1. PICK i \in DOMAIN rows : rows[i].id = id
  BY DEF Has
<1>2. i \in DOMAIN t /\ t[i].id = id /\ t[i].started_at = rows[i].started_at
  BY <1>1 DEF RunsKept
<1> QED
  BY <1>1, <1>2, BeganIs

LEMMA BeganDated ==
    ASSUME NEW rows, RunsFine(rows), NEW id, Has(rows, id)
    PROVE  Began(rows, id) \in Stamp /\ Parsed(Began(rows, id)) /\ Began(rows, id).nano \in Int
<1>1. PICK i \in DOMAIN rows : rows[i].id = id
  BY DEF Has
<1> QED
  BY <1>1, BeganIs DEF RunsFine, Stamp

\* The marks of a key, and the one of them that its row holds.
Under(marks, k)  == {i \in DOMAIN marks : Key(marks[i].mark) = k}
Start(rows, mark) == Began(rows, mark.mark.run).nano
Stands(rows, marks, row, k, i) ==
    /\ i \in Under(marks, k) /\ row.value = marks[i].mark.value /\ row.run = marks[i].mark.run
    /\ \A j \in Under(marks, k) :
          \/ Start(rows, marks[j]) < Start(rows, marks[i])
          \/ Start(rows, marks[j]) = Start(rows, marks[i]) /\ j <= i
Standing(rows, marks, table) ==
    \A k \in DOMAIN table :
       (\A i \in Under(marks, k) : marks[i].known) =>
         \E i \in Under(marks, k) : Stands(rows, marks, table[k], k, i)
Listed(rows, marks, table) ==
    \A i \in DOMAIN marks : /\ Key(marks[i].mark) \in DOMAIN table
                            /\ marks[i].known => Has(rows, marks[i].mark.run)
MarksFine(rows, marks, table) ==
    /\ Listed(rows, marks, table)
    /\ \A k \in DOMAIN table : Under(marks, k) # {}
    /\ Standing(rows, marks, table)
MarksInv ==
    /\ ShapeInv /\ RunsFine(sq.runs) /\ IsSeq(told.marks)
    /\ MarksFine(sq.runs, told.marks, sq.incremental_state)

LEMMA MarksRuns ==
    ASSUME NEW rows, NEW t, NEW marks, NEW table, RunsFine(rows), RunsFine(t), RunsKept(rows, t),
           MarksFine(rows, marks, table)
    PROVE  MarksFine(t, marks, table)
<1>1. \A i \in DOMAIN marks : marks[i].known => Has(t, marks[i].mark.run)
  BY BeganKept DEF MarksFine, Listed
<1>2. ASSUME NEW k \in DOMAIN table, \A i \in Under(marks, k) : marks[i].known
      PROVE  \E i \in Under(marks, k) : Stands(t, marks, table[k], k, i)
  <2>1. PICK i \in Under(marks, k) : Stands(rows, marks, table[k], k, i)
    BY <1>2 DEF MarksFine, Standing
  <2>2. \A j \in Under(marks, k) : Has(rows, marks[j].mark.run)
    BY <1>2 DEF MarksFine, Listed, Under
  <2>3. \A j \in Under(marks, k) : Start(t, marks[j]) = Start(rows, marks[j])
    BY <2>2, BeganKept DEF Start
  <2>4. Stands(t, marks, table[k], k, i)
    BY <2>1, <2>3 DEF Stands
  <2> QED
    BY <2>4
<1> QED
  BY <1>1, <1>2 DEF MarksFine, Standing, Listed

\* Setting a watermark: a mark of a run that started earlier leaves the row.
Marking(rows, table, t, w) ==
    IF /\ Key(w) \in DOMAIN table
       /\ cmp_rfc3339(S!Generation([runs |-> rows], w.run, w.now),
                      Began(rows, table[Key(w)].run)) < 0
      THEN t = table
      ELSE t = Put(table, Key(w), [value |-> w.value, run |-> w.run])

LEMMA MarksMark ==
    ASSUME NEW rows, NEW marks, NEW table, NEW t, NEW w, NEW known \in BOOLEAN,
           RunsFine(rows), IsSeq(marks), MarksFine(rows, marks, table), Marking(rows, table, t, w),
           known => Has(rows, w.run)
    PROVE  MarksFine(rows, Append(marks, [mark |-> w, known |-> known]), t)
<1> DEFINE m == Append(marks, [mark |-> w, known |-> known])
           n == Len(marks) + 1
           row == [value |-> w.value, run |-> w.run]
<1>1. /\ Len(marks) \in Nat /\ DOMAIN marks = 1 .. Len(marks) /\ DOMAIN m = 1 .. n
      /\ m[n] = [mark |-> w, known |-> known] /\ \A i \in DOMAIN marks : m[i] = marks[i]
  BY AppendIs
<1>2. m[n].mark = w /\ m[n].known = known
  BY <1>1
<1>3. /\ n \notin DOMAIN marks /\ n \in DOMAIN m /\ DOMAIN marks \subseteq DOMAIN m
      /\ \A i \in DOMAIN m : i \in DOMAIN marks \/ i = n
      /\ \A i \in DOMAIN marks : i \in Int /\ i <= n
      /\ n \in Int
  BY <1>1
<1> HIDE DEF m, n
<1>4. \A k : Under(m, k) = Under(marks, k) \cup (IF k = Key(w) THEN {n} ELSE {})
  BY <1>1, <1>2, <1>3 DEF Under
<1>5. (t = table /\ Key(w) \in DOMAIN table) \/ t = Put(table, Key(w), row)
  BY DEF Marking
<1>0. row.value = w.value /\ row.run = w.run
  OBVIOUS
<1> HIDE DEF row
<1>6. /\ DOMAIN t = {Key(w)} \cup DOMAIN table
      /\ \A k \in DOMAIN table \ {Key(w)} : t[k] = table[k]
      /\ t[Key(w)] = row \/ t = table
  BY <1>5 DEF Put
<1>7. Listed(rows, m, t)
  BY <1>1, <1>2, <1>3, <1>6 DEF MarksFine, Listed
<1>8. \A k \in DOMAIN t : Under(m, k) # {}
  BY <1>4, <1>6 DEF MarksFine
<1>9. ASSUME NEW k \in DOMAIN t, \A i \in Under(m, k) : m[i].known
      PROVE  \E i \in Under(m, k) : Stands(rows, m, t[k], k, i)
  <2>1. CASE k # Key(w)
    <3>1. Under(m, k) = Under(marks, k) /\ k \in DOMAIN table /\ t[k] = table[k]
      BY <1>4, <1>6, <2>1
    <3>2. \A i \in Under(marks, k) : m[i] = marks[i]
      BY <1>1 DEF Under
    <3>3. PICK i \in Under(marks, k) : Stands(rows, marks, table[k], k, i)
      BY <1>9, <3>1, <3>2 DEF MarksFine, Standing
    <3>4. Stands(rows, m, t[k], k, i)
      BY <3>1, <3>2, <3>3 DEF Stands
    <3> QED
      BY <3>1, <3>4
  <2>2. CASE k = Key(w)
    <3>1. /\ Under(m, k) = Under(marks, k) \cup {n} /\ known
          /\ Has(rows, w.run) /\ Start(rows, m[n]) = Began(rows, w.run).nano
      <4>1. Under(m, k) = Under(marks, k) \cup {n}
        BY <1>4, <2>2
      <4>2. known
        BY <1>2, <1>9, <4>1
      <4> QED
        BY <1>2, <4>1, <4>2 DEF Start
    <3>2. S!Generation([runs |-> rows], w.run, w.now) = Began(rows, w.run)
      BY <3>1 DEF S!Generation, Began, S!Has, Has
    <3>3. \A i \in Under(marks, k) : i \in DOMAIN marks /\ m[i] = marks[i] /\ marks[i].known
      BY <1>1, <1>9, <3>1 DEF Under
    <3>4. \A i \in Under(m, k) : Has(rows, m[i].mark.run)
      BY <1>7, <1>9 DEF Under, Listed
    <3>5. \A i \in Under(m, k) : Start(rows, m[i]) \in Int
      BY <3>4, BeganDated DEF Start
    <3>6. CASE k \notin DOMAIN table
      <4>1. Under(marks, k) = {}
        BY <3>6 DEF MarksFine, Listed, Under
      <4>2. t[k] = row
        BY <1>6, <2>2, <3>6
      <4>3. Stands(rows, m, t[k], k, n)
        BY <1>0, <1>2, <1>3, <3>1, <4>1, <4>2 DEF Stands
      <4> QED
        BY <3>1, <4>3
    <3>7. CASE k \in DOMAIN table
      <4>1. PICK i \in Under(marks, k) : Stands(rows, marks, table[k], k, i)
        BY <3>3, <3>7 DEF MarksFine, Standing
      <4>2. /\ table[k].run = marks[i].mark.run /\ table[k].value = marks[i].mark.value
            /\ m[i] = marks[i] /\ i \in Under(m, k) /\ n \in Under(m, k)
            /\ Start(rows, m[i]) = Began(rows, table[k].run).nano
        BY <3>1, <3>3, <4>1 DEF Stands, Start
      <4>3. /\ Has(rows, table[k].run)
            /\ cmp_rfc3339(Began(rows, w.run), Began(rows, table[k].run))
                 = Start(rows, m[n]) - Start(rows, m[i])
        BY <3>1, <3>4, <4>2, BeganDated DEF cmp_rfc3339
      <4>4. CASE Start(rows, m[n]) < Start(rows, m[i])
        <5>1. t[k] = table[k]
          BY <2>2, <3>2, <3>5, <3>7, <4>2, <4>3, <4>4 DEF Marking
        <5>2. Stands(rows, m, t[k], k, i)
          BY <3>1, <3>3, <4>1, <4>2, <4>4, <5>1 DEF Stands
        <5> QED
          BY <4>2, <5>2
      <4>5. CASE ~(Start(rows, m[n]) < Start(rows, m[i]))
        <5>1. t[k] = row
          <6>1. t = Put(table, Key(w), row)
            BY <2>2, <3>2, <3>5, <3>7, <4>2, <4>3, <4>5 DEF Marking, row
          <6> QED
            BY <2>2, <6>1 DEF Put
        <5>2. Start(rows, m[i]) <= Start(rows, m[n])
          BY <3>5, <4>2, <4>5
        <5>3. ASSUME NEW j \in Under(m, k)
              PROVE  \/ Start(rows, m[j]) < Start(rows, m[n])
                     \/ Start(rows, m[j]) = Start(rows, m[n]) /\ j <= n
          <6>1. CASE j = n
            BY <1>3, <6>1
          <6>2. CASE j \in Under(marks, k)
            <7>1. Start(rows, m[j]) <= Start(rows, m[i])
              BY <3>3, <3>5, <4>1, <4>2, <5>3, <6>2 DEF Stands
            <7>2. j <= n
              BY <1>3, <3>3, <6>2
            <7>3. /\ Start(rows, m[j]) \in Int /\ Start(rows, m[i]) \in Int
                  /\ Start(rows, m[n]) \in Int
              BY <3>5, <4>2
            <7> QED
              BY <5>2, <7>1, <7>2, <7>3
          <6> QED
            BY <3>1, <6>1, <6>2
        <5>4. Stands(rows, m, t[k], k, n)
          BY <1>0, <1>2, <4>2, <5>1, <5>3 DEF Stands
        <5> QED
          BY <4>2, <5>4
      <4> QED
        BY <4>4, <4>5
    <3> QED
      BY <3>6, <3>7
  <2> QED
    BY <2>1, <2>2
<1> QED
  <2>1. MarksFine(rows, m, t)
    <3>1. Standing(rows, m, t)
      BY <1>9 DEF Standing
    <3> QED
      BY <1>7, <1>8, <3>1 DEF MarksFine
  <2> QED
    BY <2>1 DEF m

\* A call that leaves runs, marks and watermarks alone.
LEMMA MarksSame ==
    ASSUME MarksInv, ShapeInv', marksOf(sq)' = marksOf(sq), told'.marks = told.marks
    PROVE  MarksInv'
  BY DEF MarksInv, marksOf

LEMMA MarksRunCall ==
    ASSUME MarksInv, NEW run \in RunOffers, RunCall(run)
    PROVE  MarksInv'
<1>1. /\ ShapeInv' /\ told' = told /\ sq'.incremental_state = sq.incremental_state
  BY RunCallIs DEF MarksInv
<1>2. RunsFine(sq'.runs) /\ RunsKept(sq.runs, sq'.runs)
  BY RunsAre DEF MarksInv
<1>3. MarksFine(sq'.runs, told.marks, sq.incremental_state)
  BY <1>2, MarksRuns DEF MarksInv
<1> QED
  BY <1>1, <1>2, <1>3 DEF MarksInv

LEMMA MarksSet ==
    ASSUME MarksInv, NEW w \in MarkOffers, SetWatermark(w)
    PROVE  MarksInv'
<1> DEFINE rows == sq.runs
           table == sq.incremental_state
           t == sq'.incremental_state
<1>1. /\ ShapeInv' /\ sq'.runs = rows
      /\ told'.marks = Append(told.marks, [mark |-> w, known |-> Has(sq.runs, w.run)])
  BY MarkIs DEF MarksInv
<1>2. sq' = S!set_watermark(sq, w.name, w.env, w.value, w.run, w.now)
  BY DEF SetWatermark, Wrote
<1>3. /\ S!Generation(sq, w.run, w.now) = S!Generation([runs |-> rows], w.run, w.now)
      /\ \A id : S!Generation(sq, id, NoStamp) = Began(rows, id)
  BY DEF S!Generation, Began, S!Has, Has
<1>4. \A key, row : S!Put(table, key, row) = Put(table, key, row)
  BY DEF S!Put, Put
<1>5. \A a, b : S!cmp_rfc3339(a, b) = cmp_rfc3339(a, b)
  BY DEF S!cmp_rfc3339, cmp_rfc3339, S!Parsed, Parsed
<1>6. Marking(rows, table, t, w)
  <2>1. S!NoStamp = NoStamp
    BY DEF S!NoStamp, NoStamp
  <2>2. CASE /\ Key(w) \in DOMAIN table
             /\ cmp_rfc3339(S!Generation([runs |-> rows], w.run, w.now),
                            Began(rows, table[Key(w)].run)) < 0
    <3>1. sq' = sq
      BY <1>2, <1>3, <1>5, <2>1, <2>2 DEF S!set_watermark, Key
    <3> QED
      BY <2>2, <3>1 DEF Marking
  <2>3. CASE ~(/\ Key(w) \in DOMAIN table
               /\ cmp_rfc3339(S!Generation([runs |-> rows], w.run, w.now),
                              Began(rows, table[Key(w)].run)) < 0)
    <3>1. sq' = [sq EXCEPT !.incremental_state =
                   S!Put(@, <<w.name, w.env>>, [value |-> w.value, run |-> w.run])]
      BY <1>2, <1>3, <1>5, <2>1, <2>3 DEF S!set_watermark, Key
    <3>2. t = Put(table, Key(w), [value |-> w.value, run |-> w.run])
      BY <1>4, <3>1 DEF Key, MarksInv, ShapeInv, Tables
    <3> QED
      BY <2>3, <3>2 DEF Marking
  <2> QED
    BY <2>2, <2>3
<1>7. PICK known \in BOOLEAN : known = Has(sq.runs, w.run)
  BY DEF Has
<1>8. /\ told'.marks = Append(told.marks, [mark |-> w, known |-> known])
      /\ known => Has(rows, w.run)
  BY <1>1, <1>7
<1>9. /\ IsSeq(told'.marks) /\ MarksFine(rows, told'.marks, t)
  <2>1. MarksFine(rows, Append(told.marks, [mark |-> w, known |-> known]), t)
    BY <1>6, <1>8, MarksMark DEF MarksInv
  <2> QED
    BY <1>8, <2>1, AppendIs DEF MarksInv
<1> QED
  BY <1>1, <1>9 DEF MarksInv

LEMMA MarksInit == Init => MarksInv
<1> SUFFICES ASSUME Init PROVE MarksInv
  OBVIOUS
<1>1. PICK table \in Legacy :
        /\ sq = [S!Empty EXCEPT !.model_versions = table]
        /\ pg = [P!Empty EXCEPT !.model_versions = table]
        /\ told = [records |-> {table[k] : k \in DOMAIN table}, seeds |-> {},
                   marks |-> <<>>, again |-> {}]
  BY DEF Init
<1>2. ShapeInv
  BY <1>1 DEF S!Empty, P!Empty, ShapeInv, Tables
<1>3. sq.runs = <<>> /\ sq.incremental_state = <<>> /\ told.marks = <<>>
  BY <1>1 DEF S!Empty
<1>4. IsSeq(<<>>)
  BY DEF IsSeq
<1>5. DOMAIN <<>> = {}
  OBVIOUS
<1>6. RunsFine(<<>>)
  BY <1>4, <1>5 DEF RunsFine
<1>7. MarksFine(<<>>, <<>>, <<>>)
  BY <1>5 DEF MarksFine, Listed, Standing
<1> QED
  BY <1>2, <1>3, <1>4, <1>6, <1>7 DEF MarksInv

LEMMA MarksNext == RecordsInv /\ MarksInv /\ [Next]_vars => MarksInv'
<1> SUFFICES ASSUME RecordsInv, MarksInv, [Next]_vars PROVE MarksInv'
  OBVIOUS
<1>1. CASE UNCHANGED vars
  BY <1>1 DEF vars, MarksInv, ShapeInv
<1>2. ASSUME NEW r \in RecordOffers, RecordMaterialized(r) PROVE MarksInv'
  <2>1. ShapeInv' /\ marksOf(sq)' = marksOf(sq) /\ told'.marks = told.marks
    BY <1>2, RecordIs DEF RecordsInv
  <2> QED
    BY <2>1, MarksSame
<1>3. ASSUME NEW r \in SeedOffers, RecordSeed(r) PROVE MarksInv'
  <2>1. ShapeInv' /\ marksOf(sq)' = marksOf(sq) /\ told'.marks = told.marks
    BY <1>3, SeedIs DEF RecordsInv
  <2> QED
    BY <2>1, MarksSame
<1>4. CASE OtherCall
  BY <1>4, OtherIs, MarksSame DEF MarksInv
<1>5. CASE Open
  BY <1>5, MarksSame DEF MarksInv, Open, ShapeInv, marksOf
<1>6. ASSUME NEW p \in pending.sq \cup pending.pg, Backfill(p) PROVE MarksInv'
  BY <1>6, FillIs, MarksSame
<1> QED
  BY <1>1, <1>2, <1>3, <1>4, <1>5, <1>6, NextCases, MarksRunCall, MarksSet

\* Whatever order the marks come in, the watermark is the last one of the run
\* that started last, as long as each writer's run was in the store.
THEOREM NewestWatermarkStandsHolds == Spec => []NewestWatermarkStands
<1>1. MarksInv => NewestWatermarkStands
  <2> DEFINE At(i) == S!Generation(sq, told.marks[i].mark.run, NoStamp)
  <2> SUFFICES ASSUME MarksInv, NEW k \in Keys, Under(told.marks, k) # {},
                      \A i \in Under(told.marks, k) : told.marks[i].known
               PROVE  \E i \in Under(told.marks, k) :
                        /\ S!watermark(sq, k[1], k[2]) = {told.marks[i].mark.value}
                        /\ \A j \in Under(told.marks, k) :
                             \/ cmp_rfc3339(At(j), At(i)) < 0
                             \/ cmp_rfc3339(At(j), At(i)) = 0 /\ j <= i
    BY DEF NewestWatermarkStands, Under, Key
  <2>1. k \in DOMAIN sq.incremental_state
    BY DEF MarksInv, MarksFine, Listed, Under
  <2>2. PICK i \in Under(told.marks, k) :
          Stands(sq.runs, told.marks, sq.incremental_state[k], k, i)
    BY <2>1 DEF MarksInv, MarksFine, Standing
  <2>3. S!watermark(sq, k[1], k[2]) = {told.marks[i].mark.value}
    <3>1. k = <<k[1], k[2]>>
      BY DEF Keys
    <3>2. S!Row(sq.incremental_state, k) = {sq.incremental_state[k]}
      BY <2>1 DEF S!Row
    <3> QED
      BY <2>2, <3>1, <3>2 DEF S!watermark, Stands
  <2>4. \A id : S!Generation(sq, id, NoStamp) = Began(sq.runs, id)
    BY DEF S!Generation, Began, S!Has, Has
  <2>5. ASSUME NEW j \in Under(told.marks, k)
        PROVE  cmp_rfc3339(Began(sq.runs, told.marks[j].mark.run),
                           Began(sq.runs, told.marks[i].mark.run))
                 = Start(sq.runs, told.marks[j]) - Start(sq.runs, told.marks[i])
    <3>1. /\ Has(sq.runs, told.marks[i].mark.run) /\ Has(sq.runs, told.marks[j].mark.run)
      BY DEF MarksInv, MarksFine, Listed, Under
    <3> QED
      BY <3>1, BeganDated DEF cmp_rfc3339, Start, MarksInv
  <2>6. \A j \in Under(told.marks, k) : Start(sq.runs, told.marks[j]) \in Int
    BY BeganDated DEF MarksInv, MarksFine, Listed, Under, Start
  <2>7. ASSUME NEW j \in Under(told.marks, k)
        PROVE  \/ cmp_rfc3339(Began(sq.runs, told.marks[j].mark.run),
                              Began(sq.runs, told.marks[i].mark.run)) < 0
               \/ /\ cmp_rfc3339(Began(sq.runs, told.marks[j].mark.run),
                                 Began(sq.runs, told.marks[i].mark.run)) = 0
                  /\ j <= i
    <3>1. \/ Start(sq.runs, told.marks[j]) < Start(sq.runs, told.marks[i])
          \/ Start(sq.runs, told.marks[j]) = Start(sq.runs, told.marks[i]) /\ j <= i
      BY <2>2 DEF Stands
    <3> QED
      BY <2>5, <2>6, <3>1
  <2> QED
    BY <2>3, <2>4, <2>7
<1>2. Init => RecordsInv /\ MarksInv
  BY RecordsInit, MarksInit
<1>3. RecordsInv /\ MarksInv /\ [Next]_vars => RecordsInv' /\ MarksInv'
  BY RecordsNext, MarksNext
<1> QED
  BY <1>1, <1>2, <1>3, PTL DEF Spec
-----------------------------------------------------------------------------
(***************************************************************************)
(* Listings.  Rows in a strict order of their numbers are each listed      *)
(* once, in that order: the places are the numbers from 1.                 *)
(***************************************************************************)
Strict(order, numbers) ==
    /\ \A i \in numbers : <<i, i>> \notin order
    /\ \A i, j \in numbers : i # j => <<i, j>> \in order \/ <<j, i>> \in order
    /\ \A i, j, k \in numbers : <<i, j>> \in order /\ <<j, k>> \in order => <<i, k>> \in order

\* "listed" shows the rows of these numbers, and p is their order.
Lists(listed, rows, numbers, order, p) ==
    /\ p \in [DOMAIN listed -> numbers]
    /\ \A i \in numbers : \E n \in DOMAIN listed : p[n] = i
    /\ \A n \in DOMAIN listed : listed[n] = rows[p[n]]
    /\ \A m, n \in DOMAIN listed : m < n => <<p[m], p[n]>> \in order

Place(numbers, order, i) == 1 + Cardinality({j \in numbers : <<j, i>> \in order})

LEMMA PlacesAre ==
    ASSUME NEW numbers, IsFiniteSet(numbers), NEW order, Strict(order, numbers)
    PROVE  /\ \A i \in numbers : Place(numbers, order, i) \in 1 .. Cardinality(numbers)
           /\ \A n \in 1 .. Cardinality(numbers) :
                 \E i \in numbers : Place(numbers, order, i) = n
           /\ \A i, j \in numbers :
                 /\ Place(numbers, order, i) = Place(numbers, order, j) => i = j
                 /\ Place(numbers, order, i) < Place(numbers, order, j) => <<i, j>> \in order
<1> DEFINE N == Cardinality(numbers)
           Before(i) == {j \in numbers : <<j, i>> \in order}
           Rank(i) == Place(numbers, order, i)
           f == [i \in numbers |-> Rank(i)]
<1>1. N \in Nat /\ \A i : Rank(i) = 1 + Cardinality(Before(i))
  BY FS_CardinalityType DEF Place
<1>2. ASSUME NEW i \in numbers
      PROVE  IsFiniteSet(Before(i)) /\ Cardinality(Before(i)) \in Nat /\ Rank(i) \in 1 .. N
  <2>1. Before(i) \subseteq numbers /\ i \notin Before(i)
    BY DEF Strict
  <2>2. IsFiniteSet(Before(i)) /\ Cardinality(Before(i)) <= N /\ Cardinality(Before(i)) # N
    BY <2>1, FS_Subset
  <2>3. Cardinality(Before(i)) \in Nat
    BY <2>2, FS_CardinalityType
  <2> QED
    BY <1>1, <2>2, <2>3
<1>3. ASSUME NEW i \in numbers, NEW j \in numbers, <<i, j>> \in order
      PROVE  Rank(i) < Rank(j)
  <2>1. Before(i) \subseteq Before(j) /\ i \in Before(j) /\ i \notin Before(i)
    BY <1>3 DEF Strict
  <2>2. Cardinality(Before(i)) <= Cardinality(Before(j))
        /\ Cardinality(Before(i)) # Cardinality(Before(j))
    BY <1>2, <2>1, FS_Subset
  <2>3. Rank(i) = 1 + Cardinality(Before(i)) /\ Rank(j) = 1 + Cardinality(Before(j))
    BY <1>1
  <2>4. Cardinality(Before(i)) \in Nat /\ Cardinality(Before(j)) \in Nat
    BY <1>2
  <2> HIDE DEF Before, Rank
  <2> QED
    BY <2>2, <2>3, <2>4
<1> HIDE DEF Before, Rank
<1>4. ASSUME NEW i \in numbers, NEW j \in numbers
      PROVE  (Rank(i) = Rank(j) => i = j) /\ (Rank(i) < Rank(j) => <<i, j>> \in order)
  <2>1. i # j => <<i, j>> \in order \/ <<j, i>> \in order
    BY DEF Strict
  <2>2. Rank(i) \in Int /\ Rank(j) \in Int
    BY <1>1, <1>2
  <2> QED
    BY <1>3, <2>1, <2>2
<1>5. f \in Injection(numbers, 1 .. N)
  BY <1>2, <1>4 DEF Injection, IsInjective
<1>6. IsFiniteSet(1 .. N) /\ Cardinality(1 .. N) = N
  BY <1>1, FS_Interval
<1>7. f \in Surjection(numbers, 1 .. N)
  BY <1>5, <1>6, FS_Injection
<1>8. \A n \in 1 .. N : \E i \in numbers : Rank(i) = n
  BY <1>7 DEF Surjection
<1> QED
  BY <1>2, <1>4, <1>8 DEF Rank

\* Each place has one row, for both stores too.
LEMMA BothInOrder ==
    ASSUME NEW rows, NEW numbers, IsFiniteSet(numbers), NEW order, Strict(order, numbers)
    PROVE  /\ S!InOrder(rows, numbers, order) = InOrder(rows, numbers, order)
           /\ P!InOrder(rows, numbers, order) = InOrder(rows, numbers, order)
<1>1. \A set : S!Cardinality(set) = Cardinality(set) /\ P!Cardinality(set) = Cardinality(set)
  BY DEF S!Cardinality, P!Cardinality, Cardinality
<1> DEFINE N == Cardinality(numbers)
           Before(i) == {j \in numbers : <<j, i>> \in order}
           Here(n) == CHOOSE i \in numbers : 1 + Cardinality(Before(i)) = n
           InS(n) == CHOOSE i \in numbers : 1 + S!Cardinality(Before(i)) = n
           InP(n) == CHOOSE i \in numbers : 1 + P!Cardinality(Before(i)) = n
<1>2. ASSUME NEW n \in 1 .. N PROVE InS(n) = Here(n) /\ InP(n) = Here(n)
  <2>1. PICK i \in numbers : 1 + Cardinality(Before(i)) = n
    BY PlacesAre DEF Place
  <2>2. \A j \in numbers : 1 + Cardinality(Before(j)) = n => j = i
    <3>1. \A j : 1 + Cardinality(Before(j)) = Place(numbers, order, j)
      BY DEF Place
    <3>2. \A j \in numbers : Place(numbers, order, j) = Place(numbers, order, i) => j = i
      BY PlacesAre
    <3> HIDE DEF Before
    <3> QED
      BY <2>1, <3>1, <3>2
  <2> HIDE DEF Before
  <2>3. Here(n) = i
    BY <2>1, <2>2
  <2>4. InS(n) = i
    BY <1>1, <2>1, <2>2
  <2>5. InP(n) = i
    BY <1>1, <2>1, <2>2
  <2> QED
    BY <2>3, <2>4, <2>5
<1> HIDE DEF Here, InS, InP
<1>3. InOrder(rows, numbers, order) = [n \in 1 .. N |-> rows[Here(n)]]
  BY DEF InOrder, Here
<1>4. S!InOrder(rows, numbers, order) = [n \in 1 .. S!Cardinality(numbers) |-> rows[InS(n)]]
  BY DEF S!InOrder, InS
<1>5. P!InOrder(rows, numbers, order) = [n \in 1 .. P!Cardinality(numbers) |-> rows[InP(n)]]
  BY DEF P!InOrder, InP
<1> QED
  BY <1>1, <1>2, <1>3, <1>4, <1>5

LEMMA InOrderIs ==
    ASSUME NEW rows, NEW numbers, IsFiniteSet(numbers), NEW order, Strict(order, numbers)
    PROVE  \E p : Lists(InOrder(rows, numbers, order), rows, numbers, order, p)
<1> DEFINE N == Cardinality(numbers)
           p == [n \in 1 .. N |-> CHOOSE i \in numbers : Place(numbers, order, i) = n]
<1>1. InOrder(rows, numbers, order) = [n \in 1 .. N |-> rows[p[n]]]
  BY DEF InOrder, Place
<1>2. \A n \in 1 .. N : p[n] \in numbers /\ Place(numbers, order, p[n]) = n
  BY PlacesAre
<1>3. \A i \in numbers : p[Place(numbers, order, i)] = i
  BY <1>2, PlacesAre
<1>4. \A m, n \in 1 .. N : m < n => <<p[m], p[n]>> \in order
  BY <1>2, PlacesAre
<1>5. Lists(InOrder(rows, numbers, order), rows, numbers, order, p)
  BY <1>1, <1>2, <1>3, <1>4, PlacesAre DEF Lists
<1> QED
  BY <1>5

\* Statements that keep the order of the rows.
LEMMA OnlyIs ==
    ASSUME NEW rows, NEW numbers, IsFiniteSet(numbers), numbers \subseteq Int
    PROVE  /\ ToSet(Only(rows, numbers)) = {rows[i] : i \in numbers}
           /\ S!Only(rows, numbers) = Only(rows, numbers)
           /\ P!Only(rows, numbers) = Only(rows, numbers)
<1> DEFINE order == {q \in numbers \X numbers : q[1] < q[2]}
<1>1. Strict(order, numbers)
  BY DEF Strict
<1>2. PICK p : Lists(Only(rows, numbers), rows, numbers, order, p)
  BY <1>1, InOrderIs DEF Only
<1>3. ToSet(Only(rows, numbers)) = {rows[i] : i \in numbers}
  <2> HIDE DEF order
  <2>1. /\ \A n \in DOMAIN Only(rows, numbers) : p[n] \in numbers
        /\ \A n \in DOMAIN Only(rows, numbers) : Only(rows, numbers)[n] = rows[p[n]]
        /\ \A i \in numbers : \E n \in DOMAIN Only(rows, numbers) : p[n] = i
    BY <1>2 DEF Lists
  <2>2. ToSet(Only(rows, numbers)) \subseteq {rows[i] : i \in numbers}
    BY <2>1 DEF ToSet
  <2>3. \A i \in numbers : rows[i] \in ToSet(Only(rows, numbers))
    BY <2>1 DEF ToSet
  <2> QED
    BY <2>2, <2>3
<1> QED
  BY <1>1, <1>3, BothInOrder DEF Only, S!Only, P!Only

LEMMA OnlyAll ==
    ASSUME NEW rows, IsSeq(rows)
    PROVE  Only(rows, DOMAIN rows) = rows
<1> DEFINE N == Len(rows)
           order == {q \in (1 .. N) \X (1 .. N) : q[1] < q[2]}
           Before(i) == {j \in 1 .. N : <<j, i>> \in order}
           At(i) == 1 + Cardinality(Before(i))
<1>1. N \in Nat /\ DOMAIN rows = 1 .. N /\ rows = [n \in 1 .. N |-> rows[n]]
  BY DEF IsSeq
<1>2. ASSUME NEW i \in 1 .. N PROVE At(i) = i
  <2>1. Before(i) = 1 .. (i - 1)
    BY <1>1
  <2> HIDE DEF Before
  <2>2. Cardinality(1 .. (i - 1)) = i - 1
    BY <1>1, FS_Interval
  <2> QED
    BY <1>1, <2>1, <2>2
<1>3. Cardinality(1 .. N) = N
  BY <1>1, FS_Interval
<1> HIDE DEF N
<1>4. Only(rows, DOMAIN rows) = [n \in 1 .. N |-> rows[CHOOSE i \in 1 .. N : At(i) = n]]
  BY <1>1, <1>3 DEF Only, InOrder
<1> HIDE DEF At
<1>5. \A n \in 1 .. N : (CHOOSE i \in 1 .. N : At(i) = n) = n
  BY <1>2
<1> QED
  BY <1>1, <1>4, <1>5

DatedRows(rows, stamp) ==
    /\ \E n \in Nat : DOMAIN rows = 1 .. n
    /\ \A i \in DOMAIN rows : rows[i][stamp] \in Stamp /\ Parsed(rows[i][stamp])

\* A listing has every row, the newest first.
LEMMA NewestIs ==
    ASSUME NEW rows, NEW stamp, DatedRows(rows, stamp)
    PROVE  LET listed == newest_first(rows, stamp)
           IN  /\ \E n \in Nat : DOMAIN listed = 1 .. n
               /\ ToSet(listed) = ToSet(rows)
               /\ \A m, n \in DOMAIN listed :
                     m < n => listed[m][stamp].nano >= listed[n][stamp].nano
               /\ S!newest_first(rows, stamp) = listed /\ P!newest_first(rows, stamp) = listed
<1> DEFINE listed == newest_first(rows, stamp)
           At(i) == rows[i][stamp]
           Newer(i, j) ==
              \/ cmp_rfc3339(At(i), At(j)) > 0
              \/ /\ cmp_rfc3339(At(i), At(j)) = 0
                 /\ At(i).text > At(j).text \/ (At(i).text = At(j).text /\ i > j)
           order == {q \in (DOMAIN rows) \X (DOMAIN rows) : Newer(q[1], q[2])}
<1>1. PICK count \in Nat : DOMAIN rows = 1 .. count
  BY DEF DatedRows
<1>2. IsFiniteSet(DOMAIN rows) /\ \A i \in DOMAIN rows : i \in Int
  BY <1>1, FS_Interval
<1>3. \A i, j \in DOMAIN rows : /\ At(i).nano \in Int /\ At(i).text \in Int
                                /\ cmp_rfc3339(At(i), At(j)) = At(i).nano - At(j).nano
  BY DEF DatedRows, cmp_rfc3339, Stamp
<1>4. \A i, j \in DOMAIN rows : <<i, j>> \in order <=> Newer(i, j)
  OBVIOUS
<1> HIDE DEF order, At
<1>5. Strict(order, DOMAIN rows)
  <2>1. \A i \in DOMAIN rows : <<i, i>> \notin order
    BY <1>2, <1>3, <1>4
  <2>2. \A i, j \in DOMAIN rows : i # j => <<i, j>> \in order \/ <<j, i>> \in order
    BY <1>2, <1>3, <1>4
  <2>3. ASSUME NEW i \in DOMAIN rows, NEW j \in DOMAIN rows, NEW k \in DOMAIN rows,
               Newer(i, j), Newer(j, k)
        PROVE  Newer(i, k)
    BY <1>2, <1>3, <2>3
  <2> QED
    BY <1>4, <2>1, <2>2, <2>3 DEF Strict
<1>6. listed = InOrder(rows, DOMAIN rows, order)
  BY DEF newest_first, ByText, order, At
<1>7. PICK p : Lists(listed, rows, DOMAIN rows, order, p)
  BY <1>2, <1>5, <1>6, InOrderIs
<1>8. \E n \in Nat : DOMAIN listed = 1 .. n
  <2>1. Cardinality(DOMAIN rows) \in Nat
    BY <1>2, FS_CardinalityType
  <2> QED
    BY <1>6, <2>1 DEF InOrder
<1> HIDE DEF listed
<1>9. ToSet(listed) = ToSet(rows)
  BY <1>7 DEF Lists, ToSet
<1>10. ASSUME NEW m \in DOMAIN listed, NEW n \in DOMAIN listed, m < n
       PROVE  listed[m][stamp].nano >= listed[n][stamp].nano
  <2>1. /\ p[m] \in DOMAIN rows /\ p[n] \in DOMAIN rows /\ Newer(p[m], p[n])
        /\ listed[m][stamp] = At(p[m]) /\ listed[n][stamp] = At(p[n])
    BY <1>4, <1>7, <1>10 DEF Lists, At
  <2> QED
    BY <1>3, <2>1
<1>11. \A a, b : /\ S!cmp_rfc3339(a, b) = cmp_rfc3339(a, b)
                 /\ P!cmp_rfc3339(a, b) = cmp_rfc3339(a, b)
  BY DEF S!cmp_rfc3339, S!Parsed, P!cmp_rfc3339, P!Parsed, cmp_rfc3339, Parsed
<1>12. S!newest_first(rows, stamp) = S!InOrder(rows, DOMAIN rows, order)
  BY <1>11 DEF S!newest_first, S!ByText, order, At
<1>13. P!newest_first(rows, stamp) = P!InOrder(rows, DOMAIN rows, order)
  BY <1>11 DEF P!newest_first, P!ByText, order, At
<1>14. S!newest_first(rows, stamp) = listed /\ P!newest_first(rows, stamp) = listed
  BY <1>2, <1>5, <1>6, <1>12, <1>13, BothInOrder
<1> QED
  BY <1>8, <1>9, <1>10, <1>14 DEF listed

LEMMA OnlyDated ==
    ASSUME NEW rows, NEW stamp, DatedRows(rows, stamp), NEW numbers \in SUBSET DOMAIN rows
    PROVE  /\ DatedRows(Only(rows, numbers), stamp) /\ IsSeq(Only(rows, numbers))
           /\ ToSet(Only(rows, numbers)) = {rows[i] : i \in numbers}
           /\ S!Only(rows, numbers) = Only(rows, numbers)
           /\ P!Only(rows, numbers) = Only(rows, numbers)
<1>1. PICK count \in Nat : DOMAIN rows = 1 .. count
  BY DEF DatedRows
<1>2. IsFiniteSet(numbers) /\ numbers \subseteq Int
  BY <1>1, FS_Interval, FS_Subset
<1>3. ToSet(Only(rows, numbers)) = {rows[i] : i \in numbers}
  BY <1>2, OnlyIs
<1>4. PICK n \in Nat : Only(rows, numbers) = [m \in 1 .. n |-> Only(rows, numbers)[m]]
  <2>1. Cardinality(numbers) \in Nat
    BY <1>2, FS_CardinalityType
  <2> QED
    BY <2>1 DEF Only, InOrder
<1>6. Only(rows, numbers) \in Seq({Only(rows, numbers)[m] : m \in 1 .. n})
  BY <1>4
<1>5. \A i \in DOMAIN Only(rows, numbers) : \E j \in DOMAIN rows : Only(rows, numbers)[i] = rows[j]
  BY <1>3 DEF ToSet
<1> QED
  BY <1>2, <1>3, <1>4, <1>5, <1>6, OnlyIs DEF DatedRows, IsSeq

-----------------------------------------------------------------------------
(***************************************************************************)
(* Both stores under the same calls: what each call leaves alone in both.  *)
(***************************************************************************)
Same(tables) == \A t \in tables : sq'[t] = sq[t] /\ pg'[t] = pg[t]

LEMMA RunTouches ==
    ASSUME ShapeInv, NEW run \in RunOffers, RunCall(run)
    PROVE  Same(Tables \ {"runs"}) /\ told' = told /\ pending' = pending
  BY DEF ShapeInv, Tables, Same, RunCall, StartRun, ReopenRun, BindRun, FinishRun, Said,
     Wrote, S!start_run, S!reopen_run, S!bind_run_reference_hash, S!finish_run, P!start_run,
     P!reopen_run, P!bind_run_reference_hash, P!finish_run

LEMMA ProgressTouches ==
    ASSUME ShapeInv, NEW r \in ProgressOffers, RecordModel(r) \/ RecordSeedRun(r) \/ RecordTest(r)
    PROVE  /\ Same(Tables \ {"model_runs", "seed_runs", "test_runs"})
           /\ told' = told /\ pending' = pending
  BY DEF ShapeInv, Tables, Same, RecordModel, RecordSeedRun, RecordTest, Said, Wrote,
     S!record_model, S!record_seed_run, S!record_test, P!record_model, P!record_seed_run,
     P!record_test

LEMMA RowTouches ==
    ASSUME ShapeInv
    PROVE  /\ \A r \in RecordOffers : RecordMaterialized(r) =>
                /\ Same(Tables \ {"model_versions"}) /\ pending' = pending
                /\ told'.seeds = told.seeds /\ told'.again = told.again
           /\ \A r \in SeedOffers : RecordSeed(r) =>
                /\ Same(Tables \ {"seed_loads"}) /\ pending' = pending
                /\ told'.records = told.records /\ told'.again = told.again
           /\ \A w \in MarkOffers : SetWatermark(w) =>
                /\ Same(Tables \ {"incremental_state"}) /\ pending' = pending
                /\ told'.records = told.records /\ told'.seeds = told.seeds
                /\ told'.again = told.again
<1>1. ASSUME NEW r \in RecordOffers, RecordMaterialized(r)
      PROVE  /\ Same(Tables \ {"model_versions"}) /\ pending' = pending
             /\ told'.seeds = told.seeds /\ told'.again = told.again
  BY <1>1 DEF ShapeInv, Tables, Same, RecordMaterialized, Wrote, S!record_materialized,
     P!record_materialized
<1>2. ASSUME NEW r \in SeedOffers, RecordSeed(r)
      PROVE  /\ Same(Tables \ {"seed_loads"}) /\ pending' = pending
             /\ told'.records = told.records /\ told'.again = told.again
  BY <1>2 DEF ShapeInv, Tables, Same, RecordSeed, Wrote, S!record_seed, P!record_seed
<1>3. ASSUME NEW w \in MarkOffers, SetWatermark(w)
      PROVE  /\ Same(Tables \ {"incremental_state"}) /\ pending' = pending
             /\ told'.records = told.records /\ told'.seeds = told.seeds
             /\ told'.again = told.again
  BY <1>3 DEF ShapeInv, Tables, Same, SetWatermark, Wrote, S!set_watermark, P!set_watermark
<1> QED
  BY <1>1, <1>2, <1>3

LEMMA ListTouches ==
    ASSUME ShapeInv
    PROVE  /\ \A r \in PromotionOffers : RecordPromotion(r) =>
                /\ Same(Tables \ {"promotions"}) /\ pending' = pending
                /\ told'.records = told.records /\ told'.seeds = told.seeds
           /\ \A r \in EvidenceOffers : RecordEvidence(r) \/ RemoveEvidence(r) =>
                Same(Tables \ {"evidence"}) /\ told' = told /\ pending' = pending
<1>1. ASSUME NEW r \in PromotionOffers, RecordPromotion(r)
      PROVE  /\ Same(Tables \ {"promotions"}) /\ pending' = pending
             /\ told'.records = told.records /\ told'.seeds = told.seeds
  BY <1>1 DEF ShapeInv, Tables, Same, RecordPromotion, Wrote, S!record_promotion,
     P!record_promotion
<1>2. ASSUME NEW r \in EvidenceOffers, RecordEvidence(r) \/ RemoveEvidence(r)
      PROVE  Same(Tables \ {"evidence"}) /\ told' = told /\ pending' = pending
  BY <1>2 DEF ShapeInv, Tables, Same, RecordEvidence, RemoveEvidence, Said, Wrote,
     S!record_evidence, S!remove_evidence, P!record_evidence, P!remove_evidence
<1> QED
  BY <1>1, <1>2

LEMMA OpenTouches ==
    ASSUME ShapeInv
    PROVE  /\ Open => Same(Tables) /\ told' = told
           /\ \A p \in pending.sq \cup pending.pg : Backfill(p) =>
                Same(Tables \ {"model_versions"}) /\ told' = told
<1>1. Open => Same(Tables) /\ told' = told
  BY DEF Open, Same
<1>2. ASSUME NEW p \in pending.sq \cup pending.pg, Backfill(p)
      PROVE  Same(Tables \ {"model_versions"}) /\ told' = told
  BY <1>2 DEF ShapeInv, Tables, Same, Backfill, S!backfill, P!backfill
<1> QED
  BY <1>1, <1>2

-----------------------------------------------------------------------------
(***************************************************************************)
(* Tables that every call writes alike: runs and their progress, evidence. *)
(***************************************************************************)
Progress == {"runs", "model_runs", "seed_runs", "test_runs"}
ProgressInv == \A t \in Progress : sq[t] = pg[t]

LEMMA BothUpdated ==
    ASSUME NEW rows, NEW id, NEW columns
    PROVE  /\ S!Updated(rows, id, columns) = Updated(rows, id, columns)
           /\ P!Updated(rows, id, columns) = Updated(rows, id, columns)
  BY DEF S!Updated, P!Updated, Updated, S!Assigned, P!Assigned, Assigned

LEMMA BothPut ==
    ASSUME NEW table, NEW key, NEW row
    PROVE  /\ S!Put(table, key, row) = Put(table, key, row)
           /\ P!Put(table, key, row) = Put(table, key, row)
  BY DEF S!Put, P!Put, Put

LEMMA ProgressRun ==
    ASSUME ShapeInv, ProgressInv, NEW run \in RunOffers, RunCall(run)
    PROVE  ProgressInv'
<1>1. Same(Tables \ {"runs"}) /\ sq.runs = pg.runs
  BY RunTouches DEF ProgressInv, Progress
<1>2. CASE StartRun(run)
  BY <1>1, <1>2 DEF ShapeInv, Tables, StartRun, Said, Wrote, S!start_run, P!start_run, S!Has,
     P!Has, Same, ProgressInv, Progress
<1>3. CASE ReopenRun(run)
  BY <1>1, <1>3, BothUpdated DEF ShapeInv, Tables, ReopenRun, Said, Wrote, S!reopen_run,
     P!reopen_run, S!NoStamp, P!NoStamp, Same, ProgressInv, Progress
<1>4. CASE BindRun(run)
  BY <1>1, <1>4, BothUpdated DEF ShapeInv, Tables, BindRun, Said, Wrote,
     S!bind_run_reference_hash, P!bind_run_reference_hash, Same, ProgressInv, Progress
<1>5. CASE FinishRun(run)
  BY <1>1, <1>5, BothUpdated DEF ShapeInv, Tables, FinishRun, Said, Wrote, S!finish_run,
     P!finish_run, Same, ProgressInv, Progress
<1> QED
  BY <1>2, <1>3, <1>4, <1>5 DEF RunCall

LEMMA ProgressRecord ==
    ASSUME ShapeInv, ProgressInv, NEW r \in ProgressOffers,
           RecordModel(r) \/ RecordSeedRun(r) \/ RecordTest(r)
    PROVE  ProgressInv'
<1>1. sq.model_runs = pg.model_runs /\ sq.seed_runs = pg.seed_runs /\ sq.test_runs = pg.test_runs
  BY DEF ProgressInv, Progress
<1>2. CASE RecordModel(r)
  BY <1>1, <1>2, BothPut DEF ShapeInv, Tables, RecordModel, Said, Wrote, S!record_model,
     P!record_model, P!Upsert, ProgressInv, Progress
<1>3. CASE RecordSeedRun(r)
  BY <1>1, <1>3, BothPut DEF ShapeInv, Tables, RecordSeedRun, Said, Wrote, S!record_seed_run,
     P!record_seed_run, P!Upsert, ProgressInv, Progress
<1>4. CASE RecordTest(r)
  BY <1>1, <1>4, BothPut DEF ShapeInv, Tables, RecordTest, Said, Wrote, S!record_test,
     P!record_test, P!Upsert, ProgressInv, Progress
<1> QED
  BY <1>2, <1>3, <1>4

LEMMA ProgressSame ==
    ASSUME ProgressInv, NEW tables, Same(tables), Progress \subseteq tables
    PROVE  ProgressInv'
  BY DEF ProgressInv, Same, Progress

LEMMA ProgressNext == ShapeInv /\ ProgressInv /\ [Next]_vars => ProgressInv'
<1> SUFFICES ASSUME ShapeInv, ProgressInv, [Next]_vars PROVE ProgressInv'
  OBVIOUS
<1>1. CASE UNCHANGED vars
  BY <1>1 DEF vars, ProgressInv
<1>2. CASE Same(Tables \ {"model_versions"}) \/ Same(Tables \ {"seed_loads"})
           \/ Same(Tables \ {"incremental_state"}) \/ Same(Tables \ {"promotions"})
           \/ Same(Tables \ {"evidence"})
  BY <1>2, ProgressSame DEF Progress, Tables
<1>3. CASE Open
  BY <1>3, OpenTouches, ProgressSame DEF Progress, Tables
<1>4. CASE OtherCall
  BY <1>2, <1>4, ProgressRecord, ListTouches DEF OtherCall
<1> QED
  BY <1>1, <1>2, <1>3, <1>4, NextCases, ProgressRun, RowTouches, OpenTouches

ListFine(rows, offers) ==
    /\ IsSeq(rows) /\ DatedRows(rows, "created_at") /\ ToSet(rows) \subseteq offers
EvidenceInv == sq.evidence = pg.evidence /\ ListFine(sq.evidence, EvidenceOffers)

LEMMA ListAppend ==
    ASSUME NEW rows, NEW offers \in {PromotionOffers, EvidenceOffers}, ListFine(rows, offers),
           NEW r \in offers
    PROVE  ListFine(Append(rows, r), offers) /\ ToSet(Append(rows, r)) = ToSet(rows) \cup {r}
<1> DEFINE t == Append(rows, r)
<1>1. /\ IsSeq(t) /\ Len(rows) \in Nat /\ DOMAIN rows = 1 .. Len(rows)
      /\ DOMAIN t = 1 .. Len(rows) + 1 /\ t[Len(rows) + 1] = r
      /\ \A i \in DOMAIN rows : t[i] = rows[i]
  BY AppendIs DEF ListFine
<1>2. r.created_at \in Stamp /\ Parsed(r.created_at)
  BY StampAssumption DEF Stamps
<1>3. /\ \A i \in DOMAIN t : i \in DOMAIN rows \/ i = Len(rows) + 1
      /\ DOMAIN rows \subseteq DOMAIN t /\ Len(rows) + 1 \in DOMAIN t
  BY <1>1
<1> HIDE DEF t
<1>4. ToSet(t) = ToSet(rows) \cup {r}
  BY <1>1, <1>3 DEF ToSet
<1>5. DatedRows(t, "created_at")
  <2>1. \E n \in Nat : DOMAIN t = 1 .. n
    BY <1>1
  <2> QED
    BY <1>1, <1>2, <1>3, <2>1 DEF ListFine, DatedRows
<1> QED
  BY <1>1, <1>4, <1>5 DEF ListFine, t

LEMMA ListOnly ==
    ASSUME NEW rows, NEW offers, ListFine(rows, offers), NEW numbers \in SUBSET DOMAIN rows
    PROVE  ListFine(Only(rows, numbers), offers)
<1>1. /\ DatedRows(Only(rows, numbers), "created_at") /\ IsSeq(Only(rows, numbers))
      /\ ToSet(Only(rows, numbers)) = {rows[i] : i \in numbers}
  BY OnlyDated DEF ListFine
<1>2. \A i \in DOMAIN rows : rows[i] \in offers
  BY DEF ListFine, ToSet
<1> QED
  BY <1>1, <1>2 DEF ListFine

LEMMA ListInit == \A offers : ListFine(<<>>, offers)
<1>1. DOMAIN <<>> = {} /\ <<>> \in Seq({})
  OBVIOUS
<1>2. DOMAIN <<>> = 1 .. 0
  OBVIOUS
<1> QED
  BY <1>1, <1>2 DEF ListFine, IsSeq, DatedRows, ToSet

LEMMA BothWhere ==
    ASSUME NEW rows, NEW column, NEW value
    PROVE  /\ S!Where(rows, column, value) = Where(rows, column, value)
           /\ P!Where(rows, column, value) = Where(rows, column, value)
           /\ Where(rows, column, value) \in SUBSET DOMAIN rows
  BY DEF S!Where, P!Where, Where

LEMMA EvidenceNext == ShapeInv /\ EvidenceInv /\ [Next]_vars => EvidenceInv'
<1> SUFFICES ASSUME ShapeInv, EvidenceInv, [Next]_vars PROVE EvidenceInv'
  OBVIOUS
<1> DEFINE rows == sq.evidence
<1>1. CASE sq'.evidence = sq.evidence /\ pg'.evidence = pg.evidence
  BY <1>1 DEF EvidenceInv
<1>2. ASSUME NEW r \in EvidenceOffers, RecordEvidence(r) PROVE EvidenceInv'
  <2>1. /\ S!Has(rows, r.id) = Has(rows, r.id) /\ P!Has(rows, r.id) = Has(rows, r.id)
    BY DEF S!Has, P!Has, Has
  <2>2. /\ sq'.evidence = IF Has(rows, r.id) THEN rows ELSE Append(rows, r)
        /\ pg'.evidence = IF Has(rows, r.id) THEN rows ELSE Append(rows, r)
    BY <1>2, <2>1 DEF ShapeInv, Tables, RecordEvidence, Said, Wrote, S!record_evidence,
       P!record_evidence, EvidenceInv
  <2> QED
    BY <2>2, ListAppend DEF EvidenceInv
<1>3. ASSUME NEW r \in EvidenceOffers, RemoveEvidence(r) PROVE EvidenceInv'
  <2> DEFINE numbers == DOMAIN rows \ (Where(rows, "kind", r.kind)
                                         \cap Where(rows, "subject", r.subject))
  <2>1. numbers \in SUBSET DOMAIN rows
    OBVIOUS
  <2>2. /\ sq'.evidence = S!Only(rows, numbers) /\ pg'.evidence = P!Only(rows, numbers)
    BY <1>3, BothWhere DEF ShapeInv, Tables, RemoveEvidence, Said, Wrote, S!remove_evidence,
       P!remove_evidence, EvidenceInv
  <2> HIDE DEF numbers
  <2>3. S!Only(rows, numbers) = Only(rows, numbers) /\ P!Only(rows, numbers) = Only(rows, numbers)
    BY <2>1, OnlyDated DEF EvidenceInv, ListFine
  <2>4. ListFine(Only(rows, numbers), EvidenceOffers)
    BY <2>1, ListOnly DEF EvidenceInv
  <2> QED
    BY <2>2, <2>3, <2>4 DEF EvidenceInv
<1>4. CASE UNCHANGED vars
  BY <1>1, <1>4 DEF vars
<1>5. CASE \/ Same(Tables \ {"model_versions"}) \/ Same(Tables \ {"seed_loads"})
           \/ Same(Tables \ {"incremental_state"}) \/ Same(Tables \ {"promotions"})
           \/ Same(Tables \ {"runs"}) \/ Same(Tables \ {"model_runs", "seed_runs", "test_runs"})
           \/ Same(Tables)
  BY <1>1, <1>5 DEF Tables, Same
<1>6. CASE OtherCall
  BY <1>2, <1>3, <1>5, <1>6, ProgressTouches, ListTouches DEF OtherCall
<1> QED
  BY <1>4, <1>5, <1>6, NextCases, RunTouches, RowTouches, OpenTouches

-----------------------------------------------------------------------------
(***************************************************************************)
(* Promotions.  One store removes a row that is written again and appends  *)
(* it, the other assigns every column of it in place: the same rows.       *)
(***************************************************************************)
PromotionInv ==
    /\ ListFine(sq.promotions, PromotionOffers) /\ ListFine(pg.promotions, PromotionOffers)
    /\ ToSet(sq.promotions) = ToSet(pg.promotions)
    /\ told.again = {} => sq.promotions = pg.promotions

LEMMA PromotionAssigned ==
    ASSUME NEW row \in PromotionOffers, NEW r \in PromotionOffers
    PROVE  Assigned(row, r) = r
<1>1. DOMAIN r = DOMAIN row /\ r = [c \in DOMAIN r |-> r[c]]
  BY ColumnAssumption
<1> QED
  BY <1>1 DEF Assigned

LEMMA PromotionAgain ==
    ASSUME NEW rows, ListFine(rows, PromotionOffers), NEW r \in PromotionOffers, Has(rows, r.id)
    PROVE  /\ ListFine(Updated(rows, r.id, r), PromotionOffers)
           /\ ToSet(Updated(rows, r.id, r)) = {o \in ToSet(rows) : o.id # r.id} \cup {r}
<1> DEFINE t == Updated(rows, r.id, r)
<1>1. \A i \in DOMAIN rows : rows[i] \in PromotionOffers
  BY DEF ListFine, ToSet
<1>2. /\ DOMAIN t = DOMAIN rows
      /\ \A i \in DOMAIN rows : t[i] = IF rows[i].id = r.id THEN r ELSE rows[i]
  BY <1>1, PromotionAssigned DEF Updated
<1>3. IsSeq(t)
  <2>1. PICK U : rows \in Seq(U)
    BY DEF ListFine, IsSeq
  <2>2. t \in Seq({t[i] : i \in DOMAIN rows})
    BY <2>1 DEF Updated
  <2> QED
    BY <2>2 DEF IsSeq
<1> HIDE DEF t
<1>4. ToSet(t) = {o \in ToSet(rows) : o.id # r.id} \cup {r}
  BY <1>2 DEF ToSet, Has
<1>5. \A p \in PromotionOffers : p.created_at \in Stamp /\ Parsed(p.created_at)
  BY StampAssumption DEF Stamps
<1>6. \A i \in DOMAIN t : t[i] \in PromotionOffers
  BY <1>1, <1>2
<1>7. DatedRows(t, "created_at")
  BY <1>2, <1>5, <1>6 DEF DatedRows, ListFine
<1> QED
  BY <1>3, <1>4, <1>6, <1>7 DEF ListFine, ToSet, t

LEMMA PromotionNext == ShapeInv /\ PromotionInv /\ [Next]_vars => PromotionInv'
<1> SUFFICES ASSUME ShapeInv, PromotionInv, [Next]_vars PROVE PromotionInv'
  OBVIOUS
<1>1. CASE /\ sq'.promotions = sq.promotions /\ pg'.promotions = pg.promotions
           /\ told'.again = told.again
  BY <1>1 DEF PromotionInv
<1>2. ASSUME NEW r \in PromotionOffers, RecordPromotion(r) PROVE PromotionInv'
  <2> DEFINE mine == sq.promotions
             shared == pg.promotions
             kept == DOMAIN mine \ Where(mine, "id", r.id)
  <2>1. /\ \A rows : S!Has(rows, r.id) = Has(rows, r.id) /\ P!Has(rows, r.id) = Has(rows, r.id)
        /\ kept \in SUBSET DOMAIN mine
    BY DEF S!Has, P!Has, Has
  <2>2. Has(mine, r.id) <=> Has(shared, r.id)
    BY DEF PromotionInv, Has, ToSet
  <2>3. S!Only(mine, kept) = Only(mine, kept) /\ ToSet(Only(mine, kept)) = {mine[i] : i \in kept}
    BY <2>1, OnlyDated DEF PromotionInv, ListFine
  <2>4. /\ sq'.promotions = Append(Only(mine, kept), r)
        /\ pg'.promotions = IF Has(shared, r.id) THEN Updated(shared, r.id, r)
                            ELSE Append(shared, r)
    <3>1. sq' = [sq EXCEPT !.promotions = Append(S!Only(mine, kept), r)]
      BY <1>2, BothWhere DEF RecordPromotion, Wrote, S!record_promotion
    <3>2. pg' = [pg EXCEPT !.promotions = IF Has(shared, r.id) THEN Updated(shared, r.id, r)
                                          ELSE Append(shared, r)]
      BY <1>2, <2>1, BothUpdated DEF RecordPromotion, Wrote, P!record_promotion
    <3> HIDE DEF kept, mine, shared
    <3> QED
      BY <2>3, <3>1, <3>2 DEF ShapeInv, Tables
  <2>5. told'.again = told.again \cup (IF Has(mine, r.id) THEN {r.id} ELSE {})
    BY <1>2 DEF RecordPromotion, ShapeInv
  <2>6. ToSet(Only(mine, kept)) = {o \in ToSet(mine) : o.id # r.id}
    BY <2>3 DEF Where, ToSet
  <2>7. /\ ListFine(sq'.promotions, PromotionOffers)
        /\ ToSet(sq'.promotions) = {o \in ToSet(mine) : o.id # r.id} \cup {r}
    <3>1. ListFine(Only(mine, kept), PromotionOffers)
      BY <2>1, ListOnly DEF PromotionInv
    <3> HIDE DEF mine, kept
    <3>2. /\ ListFine(Append(Only(mine, kept), r), PromotionOffers)
          /\ ToSet(Append(Only(mine, kept), r)) = ToSet(Only(mine, kept)) \cup {r}
      BY <3>1, ListAppend
    <3> QED
      BY <2>4, <2>6, <3>2
  <2>8. /\ ListFine(pg'.promotions, PromotionOffers)
        /\ ToSet(pg'.promotions) = {o \in ToSet(shared) : o.id # r.id} \cup {r}
    <3>1. CASE Has(shared, r.id)
      BY <2>4, <3>1, PromotionAgain DEF PromotionInv
    <3>2. CASE ~Has(shared, r.id)
      <4>1. \A o \in ToSet(shared) : o.id # r.id
        BY <3>2 DEF Has, ToSet
      <4>2. ListFine(Append(shared, r), PromotionOffers)
            /\ ToSet(Append(shared, r)) = ToSet(shared) \cup {r}
        BY ListAppend DEF PromotionInv
      <4> QED
        BY <2>4, <3>2, <4>1, <4>2
    <3> QED
      BY <3>1, <3>2
  <2>9. told'.again = {} => sq'.promotions = pg'.promotions
    <3> SUFFICES ASSUME told'.again = {} PROVE sq'.promotions = pg'.promotions
      OBVIOUS
    <3>1. ~Has(mine, r.id) /\ mine = shared
      BY <2>5 DEF PromotionInv
    <3>2. kept = DOMAIN mine
      BY <3>1 DEF Where, Has
    <3>3. Only(mine, DOMAIN mine) = mine
      BY OnlyAll DEF PromotionInv, ListFine
    <3> HIDE DEF mine, shared, kept
    <3> QED
      BY <2>2, <2>4, <3>1, <3>2, <3>3
  <2> QED
    BY <2>7, <2>8, <2>9 DEF PromotionInv
<1>3. CASE UNCHANGED vars
  BY <1>1, <1>3 DEF vars
<1>4. CASE /\ \/ Same(Tables \ {"model_versions"}) \/ Same(Tables \ {"seed_loads"})
              \/ Same(Tables \ {"incremental_state"}) \/ Same(Tables \ {"evidence"})
              \/ Same(Tables \ {"runs"}) \/ Same(Tables \ {"model_runs", "seed_runs", "test_runs"})
              \/ Same(Tables)
           /\ told'.again = told.again
  BY <1>1, <1>4 DEF Tables, Same
<1>5. CASE OtherCall
  BY <1>2, <1>4, <1>5, ProgressTouches, ListTouches DEF OtherCall
<1> QED
  BY <1>2, <1>3, <1>4, <1>5, NextCases, RunTouches, RowTouches, OpenTouches

-----------------------------------------------------------------------------
(***************************************************************************)
(* Rows of records and seeds.  The stores order them by other units, so    *)
(* they agree on a key whose records they both tell apart; "fills" and     *)
(* "others" are the updates that are pending in the one and the other.     *)
(***************************************************************************)
Alike(table, other, fills, others, k) ==
    /\ k \in DOMAIN table <=> k \in DOMAIN other
    /\ k \in DOMAIN table => table[k] = other[k]
    /\ \A p \in fills \cup others : p[1] = k => p \in fills \cap others
DatesAreOf(table, said) == \A k \in DOMAIN table : \E r \in said : Key(r) = k /\ r.at = table[k].at

\* A key that no call mentions has the one record it had at first.
SaidFine(said) ==
    /\ \A r \in said : r.at \in Stamps
    /\ \A r, o \in said : Key(r) = Key(o) /\ Key(r) \notin Keys => r = o
TablesAlike(table, other, fills, others, said) ==
    /\ SaidFine(said) /\ DatesAreOf(table, said) /\ DatesAreOf(other, said)
    /\ \A k : Clear(said, k) => Alike(table, other, fills, others, k)
RowsInv ==
    /\ TablesAlike(sq.model_versions, pg.model_versions, pending.sq, pending.pg, told.records)
    /\ TablesAlike(sq.seed_loads, pg.seed_loads, {}, {}, told.seeds)

LEMMA ClearBefore ==
    ASSUME NEW said, NEW r, NEW k, Clear(said \cup {r}, k)
    PROVE  Clear(said, k)
  BY DEF Clear, Delivered, Blurred

\* Stamps that are told apart are in the same order for both.
LEMMA ClearOrder ==
    ASSUME NEW a \in Stamps, NEW b \in Stamps, a.micro = b.micro => a.nano = b.nano
    PROVE  /\ a.nano < b.nano <=> a.micro < b.micro
           /\ a.nano >= b.nano <=> a.micro >= b.micro
           /\ a.nano < b.nano <=> ~(a.nano >= b.nano)
<1>1. a.nano \in Int /\ a.micro \in Int /\ b.nano \in Int /\ b.micro \in Int
  BY StampAssumption DEF Stamp
<1>2. (a.nano <= b.nano => a.micro <= b.micro) /\ (b.nano <= a.nano => b.micro <= a.micro)
  BY StampAssumption
<1> QED
  BY <1>1, <1>2

LEMMA AlikeUpsert ==
    ASSUME NEW table, NEW t, NEW other, NEW u, NEW fills, NEW others, NEW said, NEW r,
           TablesAlike(table, other, fills, others, said), r.at \in Stamps, Key(r) \in Keys,
           Ordering(table, t, r, "nano"), Ordering(other, u, r, "micro")
    PROVE  TablesAlike(t, u, fills, others, said \cup {r})
<1>1. SaidFine(said \cup {r})
  BY DEF TablesAlike, SaidFine
<1>2. /\ DOMAIN t = {Key(r)} \cup DOMAIN table /\ \A k \in DOMAIN table \ {Key(r)} : t[k] = table[k]
      /\ DOMAIN u = {Key(r)} \cup DOMAIN other /\ \A k \in DOMAIN other \ {Key(r)} : u[k] = other[k]
      /\ t[Key(r)] = r \/ (Key(r) \in DOMAIN table /\ t[Key(r)] = table[Key(r)])
      /\ u[Key(r)] = r \/ (Key(r) \in DOMAIN other /\ u[Key(r)] = other[Key(r)])
  BY DEF Ordering, Put
<1>3. DatesAreOf(t, said \cup {r}) /\ DatesAreOf(u, said \cup {r})
  <2>1. ASSUME NEW k \in DOMAIN t PROVE \E o \in said \cup {r} : Key(o) = k /\ o.at = t[k].at
    BY <1>2 DEF TablesAlike, DatesAreOf
  <2>2. ASSUME NEW k \in DOMAIN u PROVE \E o \in said \cup {r} : Key(o) = k /\ o.at = u[k].at
    BY <1>2 DEF TablesAlike, DatesAreOf
  <2> QED
    BY <2>1, <2>2 DEF DatesAreOf
<1>4. ASSUME NEW k, Clear(said \cup {r}, k) PROVE Alike(t, u, fills, others, k)
  <2>1. Alike(table, other, fills, others, k)
    BY <1>4, ClearBefore DEF TablesAlike
  <2>2. CASE k # Key(r)
    BY <1>2, <2>1, <2>2 DEF Alike
  <2>3. CASE k = Key(r) /\ k \notin DOMAIN table
    <3>1. t[k] = r /\ u[k] = r
      BY <1>2, <2>1, <2>3 DEF Alike
    <3> QED
      BY <1>2, <2>1, <2>3, <3>1 DEF Alike
  <2>4. CASE k = Key(r) /\ k \in DOMAIN table
    <3>1. k \in DOMAIN other /\ table[k] = other[k]
      BY <2>1, <2>4 DEF Alike
    <3>2. PICK o \in said : Key(o) = k /\ o.at = table[k].at
      BY <2>4 DEF TablesAlike, DatesAreOf
    <3>3. o.at \in Stamps /\ (r.at.micro = o.at.micro => r.at.nano = o.at.nano)
      BY <1>1, <1>4, <2>4, <3>2 DEF SaidFine, Clear, Blurred, Delivered, Key
    <3>4. /\ r.at.nano < o.at.nano <=> r.at.micro < o.at.micro
          /\ r.at.nano >= o.at.nano <=> r.at.micro >= o.at.micro
          /\ r.at.nano < o.at.nano <=> ~(r.at.nano >= o.at.nano)
      BY <3>3, ClearOrder
    <3>5. t[k] = u[k]
      BY <2>4, <3>1, <3>2, <3>4 DEF Ordering, Put
    <3> QED
      BY <1>2, <2>1, <2>4, <3>5 DEF Alike
  <2> QED
    BY <2>2, <2>3, <2>4
<1> QED
  BY <1>1, <1>3, <1>4 DEF TablesAlike

LEMMA AlikeFilled ==
    ASSUME NEW table, NEW t, NEW other, NEW u, NEW fills, NEW others, NEW said, NEW p,
           TablesAlike(table, other, fills, others, said),
           \A k \in DOMAIN table : IsRow(table[k]), \A k \in DOMAIN other : IsRow(other[k]),
           IF p \in fills THEN Filled(table, t, p) ELSE t = table,
           IF p \in others THEN Filled(other, u, p) ELSE u = other
    PROVE  TablesAlike(t, u, fills \ {p}, others \ {p}, said)
<1>1. /\ DOMAIN t = DOMAIN table /\ \A k \in DOMAIN table : k # p[1] => t[k] = table[k]
      /\ DOMAIN u = DOMAIN other /\ \A k \in DOMAIN other : k # p[1] => u[k] = other[k]
  BY DEF Filled
<1>2. ASSUME NEW k \in DOMAIN table PROVE t[k].at = table[k].at
  <2>1. IsRow(table[k])
    OBVIOUS
  <2>2. t[k] = table[k] \/ t[k] = [table[k] EXCEPT !.effective_key = p[2]]
    BY DEF Filled
  <2> QED
    BY <2>1, <2>2 DEF IsRow, Columns
<1>3. ASSUME NEW k \in DOMAIN other PROVE u[k].at = other[k].at
  <2>1. IsRow(other[k])
    OBVIOUS
  <2>2. u[k] = other[k] \/ u[k] = [other[k] EXCEPT !.effective_key = p[2]]
    BY DEF Filled
  <2> QED
    BY <2>1, <2>2 DEF IsRow, Columns
<1>4. DatesAreOf(t, said) /\ DatesAreOf(u, said)
  BY <1>1, <1>2, <1>3 DEF TablesAlike, DatesAreOf
<1>5. ASSUME NEW k, Clear(said, k) PROVE Alike(t, u, fills \ {p}, others \ {p}, k)
  <2>1. Alike(table, other, fills, others, k)
    BY <1>5 DEF TablesAlike
  <2>2. k \in DOMAIN table => t[k] = u[k]
    <3>1. CASE k # p[1]
      BY <1>1, <2>1, <3>1 DEF Alike
    <3>2. CASE k = p[1]
      BY <2>1, <3>2 DEF Alike, Filled
    <3> QED
      BY <3>1, <3>2
  <2> QED
    BY <1>1, <2>1, <2>2 DEF Alike
<1> QED
  BY <1>4, <1>5 DEF TablesAlike

Legacies(table) ==
    {<<k, incremental_key_claim(table[k].columns)>> :
        k \in {key \in DOMAIN table : /\ table[key].effective_key = <<>>
                                      /\ table[key].strategy = "key"
                                      /\ table[key].columns # {}}}

LEMMA AlikeOpened ==
    ASSUME NEW table, NEW other, NEW fills, NEW others, NEW said,
           TablesAlike(table, other, fills, others, said)
    PROVE  TablesAlike(table, other, fills \cup Legacies(table), others \cup Legacies(other), said)
<1> SUFFICES ASSUME NEW k, Clear(said, k)
             PROVE  Alike(table, other, fills \cup Legacies(table), others \cup Legacies(other), k)
  BY DEF TablesAlike
<1>1. Alike(table, other, fills, others, k)
  BY DEF TablesAlike
<1>2. ASSUME NEW p, p[1] = k PROVE p \in Legacies(table) <=> p \in Legacies(other)
  BY <1>1, <1>2 DEF Alike, Legacies
<1> QED
  BY <1>1, <1>2 DEF Alike

LEMMA RowsNext == RecordsInv /\ RowsInv /\ [Next]_vars => RowsInv'
<1> SUFFICES ASSUME RecordsInv, RowsInv, [Next]_vars PROVE RowsInv'
  OBVIOUS
<1>0. ShapeInv /\ NewestInv /\ KeyInv
  BY DEF RecordsInv
<1>1. CASE /\ Same({"model_versions", "seed_loads"}) /\ pending' = pending
           /\ told'.records = told.records /\ told'.seeds = told.seeds
  BY <1>1 DEF RowsInv, Same
<1>2. ASSUME NEW r \in RecordOffers, RecordMaterialized(r) PROVE RowsInv'
  <2>1. r.at \in Stamps /\ Key(r) \in Keys
    BY DEF Stamps, Keys, Key
  <2>2. /\ TablesAlike(sq'.model_versions, pg'.model_versions, pending.sq, pending.pg,
                       told.records \cup {r})
        /\ pending' = pending /\ told'.records = told.records \cup {r}
        /\ told'.seeds = told.seeds
        /\ sq'.seed_loads = sq.seed_loads /\ pg'.seed_loads = pg.seed_loads
    BY <1>0, <1>2, <2>1, RecordIs, AlikeUpsert DEF RowsInv
  <2> QED
    BY <2>2 DEF RowsInv
<1>3. ASSUME NEW r \in SeedOffers, RecordSeed(r) PROVE RowsInv'
  <2>1. r.at \in Stamps /\ Key(r) \in Keys
    BY DEF Stamps, Keys, Key
  <2>2. /\ TablesAlike(sq'.seed_loads, pg'.seed_loads, {}, {}, told.seeds \cup {r})
        /\ pending' = pending /\ told'.seeds = told.seeds \cup {r}
        /\ told'.records = told.records
        /\ sq'.model_versions = sq.model_versions /\ pg'.model_versions = pg.model_versions
    BY <1>0, <1>3, <2>1, SeedIs, AlikeUpsert DEF RowsInv
  <2> QED
    BY <2>2 DEF RowsInv
<1>4. CASE Open
  <2>1. /\ sq' = sq /\ pg' = pg /\ told' = told
        /\ pending'.sq = pending.sq \cup S!legacy_keys(sq)
        /\ pending'.pg = pending.pg \cup P!legacy_keys(pg)
    BY <1>4 DEF Open
  <2>2. /\ S!legacy_keys(sq) = Legacies(sq.model_versions)
        /\ P!legacy_keys(pg) = Legacies(pg.model_versions)
    BY DEF S!legacy_keys, P!legacy_keys, Legacies, S!incremental_key_claim,
       P!incremental_key_claim, incremental_key_claim
  <2> QED
    BY <2>1, <2>2, AlikeOpened DEF RowsInv
<1>5. ASSUME NEW p \in pending.sq \cup pending.pg, Backfill(p) PROVE RowsInv'
  <2>1. /\ \A k \in DOMAIN sq.model_versions : IsRow(sq.model_versions[k])
        /\ \A k \in DOMAIN pg.model_versions : IsRow(pg.model_versions[k])
    BY <1>0 DEF KeyInv, KeysFine
  <2>2. TablesAlike(sq'.model_versions, pg'.model_versions, pending.sq \ {p}, pending.pg \ {p},
                    told.records)
    BY <1>5, <2>1, FillIs, AlikeFilled DEF RowsInv
  <2> QED
    BY <1>5, <2>2, FillIs DEF RowsInv
<1>6. CASE UNCHANGED vars
  BY <1>1, <1>6 DEF vars, Same
<1>7. CASE /\ \/ Same(Tables \ {"runs"}) \/ Same(Tables \ {"model_runs", "seed_runs", "test_runs"})
              \/ Same(Tables \ {"evidence"}) \/ Same(Tables \ {"promotions"})
              \/ Same(Tables \ {"incremental_state"})
           /\ pending' = pending /\ told'.records = told.records /\ told'.seeds = told.seeds
  BY <1>1, <1>7 DEF Tables, Same
<1>8. CASE OtherCall
  BY <1>0, <1>7, <1>8, ProgressTouches, ListTouches DEF OtherCall
<1> QED
  BY <1>0, <1>2, <1>3, <1>4, <1>5, <1>6, <1>7, <1>8, NextCases, RunTouches, RowTouches

-----------------------------------------------------------------------------
(***************************************************************************)
(* Watermarks, ordered by the starts of runs and, for a run that is not in *)
(* the store, the time of the call.                                        *)
(***************************************************************************)
Starts == {run.started_at : run \in ToSet(sq.runs)} \cup {w.now : w \in MarkOffers}
WatermarkInv == ~Blurred(Starts) => sq.incremental_state = pg.incremental_state

LEMMA StartsKept ==
    ASSUME RunsKept(sq.runs, sq'.runs), ~Blurred(Starts')
    PROVE  ~Blurred(Starts)
<1>1. Starts \subseteq Starts'
  <2>1. \A i \in DOMAIN sq.runs : sq.runs[i].started_at \in Starts'
    BY DEF RunsKept, Starts, ToSet
  <2> QED
    BY <2>1 DEF Starts, ToSet
<1> QED
  BY <1>1 DEF Blurred

\* The instant that a store compares a writer by.
LEMMA BothBegan ==
    ASSUME NEW db, NEW id, NEW default
    PROVE  /\ S!Generation(db, id, default)
                = IF Has(db.runs, id) THEN Began(db.runs, id) ELSE default
           /\ P!Started(db, id, default)
                = IF Has(db.runs, id) THEN Began(db.runs, id) ELSE default
  BY DEF S!Generation, P!Started, Began, S!Has, P!Has, Has

LEMMA SameOrder ==
    ASSUME ~Blurred(Starts), Starts \subseteq Stamps,
           NEW a \in Starts, NEW b \in Starts \cup {NoStamp}
    PROVE  S!cmp_rfc3339(a, b) < 0 <=> P!phlo_cmp_rfc3339(a, b) < 0
<1>1. a \in Stamp /\ Parsed(a)
  BY StampAssumption
<1>2. CASE b \in Starts
  <2>1. b \in Stamp /\ Parsed(b)
    BY <1>2, StampAssumption
  <2>2. a.nano < b.nano <=> a.micro < b.micro
    <3>1. a.micro = b.micro => a.nano = b.nano
      BY <1>2 DEF Blurred
    <3> QED
      BY <1>2, <3>1, ClearOrder
  <2>3. S!cmp_rfc3339(a, b) = a.nano - b.nano /\ P!phlo_cmp_rfc3339(a, b) = a.micro - b.micro
    BY <1>1, <2>1 DEF S!cmp_rfc3339, P!phlo_cmp_rfc3339, S!Parsed, P!Parsed, Parsed
  <2>4. a.nano \in Int /\ a.micro \in Int /\ b.nano \in Int /\ b.micro \in Int
    BY <1>1, <2>1 DEF Stamp
  <2> QED
    BY <2>2, <2>3, <2>4
<1>3. CASE b = NoStamp
  <2>1. ~Parsed(b)
    BY <1>3 DEF Parsed, NoStamp
  <2>2. S!cmp_rfc3339(a, b) = a.text - b.text /\ P!phlo_cmp_rfc3339(a, b) = a.text - b.text
    BY <2>1 DEF S!cmp_rfc3339, P!phlo_cmp_rfc3339, S!Parsed, P!Parsed, Parsed
  <2> QED
    BY <2>2
<1> QED
  BY <1>2, <1>3

LEMMA StartsAre ==
    ASSUME RunsFine(sq.runs)
    PROVE  /\ Starts \subseteq Stamps
           /\ \A id : Has(sq.runs, id) => Began(sq.runs, id) \in Starts
<1>1. Starts \subseteq Stamps
  BY DEF RunsFine, Starts, Stamps, ToSet
<1>2. ASSUME NEW id, Has(sq.runs, id) PROVE Began(sq.runs, id) \in Starts
  <2>1. PICK i \in DOMAIN sq.runs : sq.runs[i].id = id
    BY <1>2 DEF Has
  <2>2. Began(sq.runs, id) = sq.runs[i].started_at
    BY <2>1, BeganIs
  <2> QED
    BY <2>2 DEF Starts, ToSet
<1> QED
  BY <1>1, <1>2

LEMMA WatermarkSet ==
    ASSUME ShapeInv, RunsFine(sq.runs), sq.runs = pg.runs, WatermarkInv, NEW w \in MarkOffers,
           SetWatermark(w)
    PROVE  WatermarkInv'
<1> SUFFICES ASSUME ~Blurred(Starts') PROVE sq'.incremental_state = pg'.incremental_state
  BY DEF WatermarkInv
<1>1. sq'.runs = sq.runs
  BY RowTouches DEF Same, Tables
<1>2. ~Blurred(Starts) /\ sq.incremental_state = pg.incremental_state
  BY <1>1 DEF Starts, WatermarkInv
<1> DEFINE table == sq.incremental_state
           t == Put(table, Key(w), [value |-> w.value, run |-> w.run])
           a == IF Has(sq.runs, w.run) THEN Began(sq.runs, w.run) ELSE w.now
           by == table[Key(w)].run
           b == IF Has(sq.runs, by) THEN Began(sq.runs, by) ELSE NoStamp
<1>3. S!cmp_rfc3339(a, b) < 0 <=> P!phlo_cmp_rfc3339(a, b) < 0
  <2>1. a \in Starts
    BY StartsAre DEF Starts
  <2>2. b \in Starts \cup {NoStamp}
    BY StartsAre
  <2> HIDE DEF a, b
  <2> QED
    BY <1>2, <2>1, <2>2, SameOrder, StartsAre
<1>4. /\ S!Generation(sq, w.run, w.now) = a /\ S!Generation(sq, by, NoStamp) = b
      /\ P!Started(pg, w.run, w.now) = a /\ P!Started(pg, by, NoStamp) = b
  BY BothBegan
<1>5. S!NoStamp = NoStamp /\ P!NoStamp = NoStamp
  BY DEF S!NoStamp, P!NoStamp, NoStamp
<1>6. /\ sq' = S!set_watermark(sq, w.name, w.env, w.value, w.run, w.now)
      /\ pg' = P!set_watermark(pg, w.name, w.env, w.value, w.run, w.now)
  BY DEF SetWatermark, Wrote
<1> HIDE DEF a, b
<1>7. sq'.incremental_state =
        IF Key(w) \in DOMAIN table /\ S!cmp_rfc3339(a, b) < 0 THEN table ELSE t
  <2>1. sq' = IF Key(w) \in DOMAIN table /\ S!cmp_rfc3339(a, b) < 0 THEN sq
              ELSE [sq EXCEPT !.incremental_state = t]
    BY <1>4, <1>5, <1>6, BothPut DEF S!set_watermark, Key
  <2> QED
    BY <2>1 DEF ShapeInv, Tables
<1>8. pg'.incremental_state =
        IF Key(w) \in DOMAIN table /\ P!phlo_cmp_rfc3339(a, b) < 0 THEN table ELSE t
  <2>1. P!Row(table, Key(w)) = IF Key(w) \in DOMAIN table THEN {table[Key(w)]} ELSE {}
    BY DEF P!Row
  <2>2. (\E row \in P!Row(table, Key(w)) :
            P!phlo_cmp_rfc3339(P!Started(pg, w.run, w.now), P!Started(pg, row.run, NoStamp)) < 0)
          <=> Key(w) \in DOMAIN table /\ P!phlo_cmp_rfc3339(a, b) < 0
    BY <1>4, <2>1
  <2>3. pg' = IF Key(w) \in DOMAIN table /\ P!phlo_cmp_rfc3339(a, b) < 0 THEN pg
              ELSE [pg EXCEPT !.incremental_state = t]
    BY <1>2, <1>5, <1>6, <2>2, BothPut DEF P!set_watermark, Key
  <2> QED
    BY <1>2, <2>3 DEF ShapeInv, Tables
<1> QED
  BY <1>3, <1>7, <1>8

LEMMA WatermarkNext ==
    ShapeInv /\ RunsFine(sq.runs) /\ sq.runs = pg.runs /\ WatermarkInv /\ [Next]_vars
      => WatermarkInv'
<1> SUFFICES ASSUME ShapeInv, RunsFine(sq.runs), sq.runs = pg.runs, WatermarkInv, [Next]_vars
             PROVE  WatermarkInv'
  OBVIOUS
<1>1. CASE Same({"runs", "incremental_state"})
  BY <1>1 DEF Same, WatermarkInv, Starts
<1>2. ASSUME NEW run \in RunOffers, RunCall(run) PROVE WatermarkInv'
  <2>1. /\ sq'.incremental_state = sq.incremental_state
        /\ pg'.incremental_state = pg.incremental_state
    BY <1>2, RunTouches DEF Same, Tables
  <2>2. RunsKept(sq.runs, sq'.runs)
    BY <1>2, RunsAre
  <2> QED
    BY <2>1, <2>2, StartsKept DEF WatermarkInv
<1>3. CASE UNCHANGED vars
  BY <1>1, <1>3 DEF vars, Same
<1>4. CASE \/ Same(Tables \ {"model_versions"}) \/ Same(Tables \ {"seed_loads"})
           \/ Same(Tables \ {"evidence"}) \/ Same(Tables \ {"promotions"})
           \/ Same(Tables \ {"model_runs", "seed_runs", "test_runs"}) \/ Same(Tables)
  BY <1>1, <1>4 DEF Tables, Same
<1>5. CASE OtherCall
  BY <1>4, <1>5, ProgressTouches, ListTouches DEF OtherCall
<1> QED
  BY <1>2, <1>3, <1>4, <1>5, NextCases, WatermarkSet, RowTouches, OpenTouches

-----------------------------------------------------------------------------
(***************************************************************************)
(* Both stores, and what they answer.                                      *)
(***************************************************************************)
AgreeInv == /\ RecordsInv /\ MarksInv /\ ProgressInv /\ EvidenceInv /\ PromotionInv
            /\ RowsInv /\ WatermarkInv

LEMMA AgreeInit == Init => AgreeInv
<1> SUFFICES ASSUME Init PROVE AgreeInv
  OBVIOUS
<1>1. RecordsInv /\ MarksInv
  BY RecordsInit, MarksInit
<1>2. PICK table \in Legacy :
        /\ sq = [S!Empty EXCEPT !.model_versions = table]
        /\ pg = [P!Empty EXCEPT !.model_versions = table]
        /\ told = [records |-> {table[k] : k \in DOMAIN table}, seeds |-> {},
                   marks |-> <<>>, again |-> {}]
  BY DEF Init
<1>3. /\ \A t \in Tables \ {"model_versions"} : sq[t] = <<>> /\ pg[t] = <<>>
      /\ sq.model_versions = table /\ pg.model_versions = table
  BY <1>2 DEF S!Empty, P!Empty, Tables
<1>4. /\ told.records = {table[k] : k \in DOMAIN table} /\ told.seeds = {} /\ told.again = {}
      /\ pending.sq = {} /\ pending.pg = {}
  BY <1>2 DEF Init
<1>5. ProgressInv /\ WatermarkInv
  BY <1>3 DEF ProgressInv, Progress, WatermarkInv, Tables
<1>6. EvidenceInv /\ PromotionInv
  BY <1>3, ListInit DEF EvidenceInv, PromotionInv, Tables
<1>7. \A k \in DOMAIN table : table[k] \in Old /\ k = Key(table[k]) /\ table[k].at \in Stamps
  BY LegacyAssumption DEF Old, Key, Stamps
<1>8. RowsInv
  <2>1. SaidFine({table[k] : k \in DOMAIN table})
    BY <1>7 DEF SaidFine
  <2>2. DatesAreOf(table, {table[k] : k \in DOMAIN table})
    BY <1>7 DEF DatesAreOf
  <2>3. TablesAlike(table, table, {}, {}, {table[k] : k \in DOMAIN table})
    BY <2>1, <2>2 DEF TablesAlike, Alike
  <2>4. DOMAIN <<>> = {}
    OBVIOUS
  <2>5. TablesAlike(<<>>, <<>>, {}, {}, {})
    BY <2>4 DEF TablesAlike, Alike, SaidFine, DatesAreOf
  <2> QED
    BY <1>3, <1>4, <2>3, <2>5 DEF RowsInv, Tables
<1> QED
  BY <1>1, <1>5, <1>6, <1>8 DEF AgreeInv

LEMMA AgreeNext == AgreeInv /\ [Next]_vars => AgreeInv'
<1> SUFFICES ASSUME AgreeInv, [Next]_vars PROVE AgreeInv'
  OBVIOUS
<1>1. RecordsInv' /\ MarksInv'
  BY RecordsNext, MarksNext DEF AgreeInv
<1>2. ShapeInv /\ RunsFine(sq.runs) /\ sq.runs = pg.runs
  BY DEF AgreeInv, RecordsInv, MarksInv, ProgressInv, Progress
<1>3. ProgressInv' /\ EvidenceInv' /\ PromotionInv'
  BY <1>2, ProgressNext, EvidenceNext, PromotionNext DEF AgreeInv
<1>4. RowsInv' /\ WatermarkInv'
  BY <1>2, RowsNext, WatermarkNext DEF AgreeInv
<1> QED
  BY <1>1, <1>3, <1>4 DEF AgreeInv

\* Statements that select rows and list them.
LEMMA BothList ==
    ASSUME NEW rows, NEW stamp, DatedRows(rows, stamp), NEW numbers \in SUBSET DOMAIN rows
    PROVE  LET listed == newest_first(Only(rows, numbers), stamp)
           IN  /\ S!newest_first(S!Only(rows, numbers), stamp) = listed
               /\ P!newest_first(P!Only(rows, numbers), stamp) = listed
               /\ \E n \in Nat : DOMAIN listed = 1 .. n
               /\ ToSet(listed) = {rows[i] : i \in numbers}
               /\ \A m, n \in DOMAIN listed :
                     m < n => listed[m][stamp].nano >= listed[n][stamp].nano
<1>1. /\ S!Only(rows, numbers) = Only(rows, numbers) /\ P!Only(rows, numbers) = Only(rows, numbers)
      /\ DatedRows(Only(rows, numbers), stamp)
      /\ ToSet(Only(rows, numbers)) = {rows[i] : i \in numbers}
  BY OnlyDated
<1> QED
  BY <1>1, NewestIs

LEMMA RunsAgree ==
    ASSUME AgreeInv
    PROVE  /\ S!runs(sq) = P!runs(pg)
           /\ \A env \in Envs : S!latest_run(sq, env) = P!latest_run(pg, env)
           /\ \A id \in Ids : /\ S!run(sq, id) = P!run(pg, id)
                              /\ S!model_runs(sq, id) = P!model_runs(pg, id)
                              /\ S!seed_runs(sq, id) = P!seed_runs(pg, id)
                              /\ S!test_runs(sq, id) = P!test_runs(pg, id)
           /\ \A p \in Typed : p.exact = p.folded => S!find_runs(sq, p) = P!find_runs(pg, p)
<1>1. /\ sq.runs = pg.runs /\ sq.model_runs = pg.model_runs /\ sq.seed_runs = pg.seed_runs
      /\ sq.test_runs = pg.test_runs
  BY DEF AgreeInv, ProgressInv, Progress
<1>2. DatedRows(sq.runs, "started_at")
  BY AppendIs DEF AgreeInv, MarksInv, RunsFine, DatedRows
<1>3. S!runs(sq) = P!runs(pg)
  BY <1>1, <1>2, NewestIs DEF S!runs, P!runs
<1>4. ASSUME NEW env \in Envs PROVE S!latest_run(sq, env) = P!latest_run(pg, env)
  <2> DEFINE numbers == Where(sq.runs, "env", env)
  <2>1. S!newest_first(S!Only(sq.runs, numbers), "started_at")
          = P!newest_first(P!Only(pg.runs, numbers), "started_at")
    BY <1>1, <1>2, BothWhere, BothList
  <2> QED
    BY <1>1, <2>1, BothWhere DEF S!latest_run, P!latest_run, S!InEnvironment
<1>5. ASSUME NEW id \in Ids PROVE S!run(sq, id) = P!run(pg, id)
  <2> DEFINE numbers == Where(sq.runs, "id", id)
  <2>1. numbers \in SUBSET DOMAIN sq.runs
    BY BothWhere
  <2>2. S!Only(sq.runs, numbers) = P!Only(pg.runs, numbers)
    BY <1>1, <1>2, <2>1, OnlyDated
  <2>3. \A s : S!ToSet(s) = P!ToSet(s)
    BY DEF S!ToSet, P!ToSet
  <2> QED
    BY <1>1, <2>2, <2>3, BothWhere DEF S!run, P!run
<1>6. \A table, id : S!Of(table, id) = P!Of(table, id)
  BY DEF S!Of, P!Of
<1>7. ASSUME NEW p \in Typed, p.exact = p.folded PROVE S!find_runs(sq, p) = P!find_runs(pg, p)
  <2> DEFINE numbers == {i \in DOMAIN sq.runs : sq.runs[i].id \in p.folded}
  <2>1. S!newest_first(S!Only(sq.runs, numbers), "started_at")
          = P!newest_first(P!Only(pg.runs, numbers), "started_at")
    BY <1>1, <1>2, BothList
  <2> QED
    BY <1>1, <1>7, <2>1 DEF S!find_runs, P!find_runs
<1> QED
  BY <1>1, <1>3, <1>4, <1>5, <1>6, <1>7
     DEF S!model_runs, P!model_runs, S!seed_runs, P!seed_runs, S!test_runs, P!test_runs

\* A key that no call mentions has one record, which no other can blur.
LEMMA AllClear ==
    ASSUME NEW said, SaidFine(said), \A k \in Keys : Clear(said, k), NEW k
    PROVE  Clear(said, k)
  BY DEF SaidFine, Clear, Blurred, Delivered, Key

LEMMA TablesEqual ==
    ASSUME NEW table, NEW other, NEW fills, NEW others, NEW said,
           TablesAlike(table, other, fills, others, said), \A k \in Keys : Clear(said, k)
    PROVE  DOMAIN table = DOMAIN other /\ \A k \in DOMAIN table : table[k] = other[k]
<1>1. \A k : Alike(table, other, fills, others, k)
  BY AllClear DEF TablesAlike
<1> QED
  BY <1>1 DEF Alike

LEMMA RecordsAgree ==
    ASSUME AgreeInv
    PROVE  /\ \A k \in Keys : Clear(told.records, k) =>
                S!materialized_version(sq, k[1], k[2]) = P!materialized_version(pg, k[1], k[2])
           /\ (\A k \in Keys : Clear(told.records, k)) =>
                /\ \A env \in Envs : S!materialized_in(sq, env) = P!materialized_in(pg, env)
                /\ LET s == S!materialized_by_hashes(sq, Hashes)
                       p == P!materialized_by_hashes(pg, Hashes)
                   IN  s = [h \in Hashes |-> IF h \in DOMAIN p THEN p[h] ELSE {}]
           /\ \A k \in Keys : Clear(told.seeds, k) =>
                S!seed_state(sq, k[1], k[2]) = P!seed_state(pg, k[1], k[2])
           /\ (\A k \in Keys : Clear(told.seeds, k)) =>
                \A env \in Envs : S!seeds_in(sq, env) = P!seeds_in(pg, env)
<1>1. \A k \in Keys : k = <<k[1], k[2]>>
  BY DEF Keys
<1>2. ASSUME NEW table, NEW other, NEW fills, NEW others, NEW k,
             Alike(table, other, fills, others, k)
      PROVE  S!Row(table, k) = P!Row(other, k)
  BY <1>2 DEF Alike, S!Row, P!Row
<1>3. ASSUME NEW k \in Keys, Clear(told.records, k)
      PROVE  S!materialized_version(sq, k[1], k[2]) = P!materialized_version(pg, k[1], k[2])
  <2>1. Alike(sq.model_versions, pg.model_versions, pending.sq, pending.pg, k)
    BY <1>3 DEF AgreeInv, RowsInv, TablesAlike
  <2> QED
    BY <1>1, <1>2, <2>1 DEF S!materialized_version, P!materialized_version
<1>4. ASSUME \A k \in Keys : Clear(told.records, k)
      PROVE  /\ \A env \in Envs : S!materialized_in(sq, env) = P!materialized_in(pg, env)
             /\ LET s == S!materialized_by_hashes(sq, Hashes)
                    p == P!materialized_by_hashes(pg, Hashes)
                IN  s = [h \in Hashes |-> IF h \in DOMAIN p THEN p[h] ELSE {}]
  <2>1. /\ DOMAIN sq.model_versions = DOMAIN pg.model_versions
        /\ \A k \in DOMAIN sq.model_versions : sq.model_versions[k] = pg.model_versions[k]
    BY <1>4, TablesEqual DEF AgreeInv, RowsInv
  <2>2. \A env \in Envs : S!materialized_in(sq, env) = P!materialized_in(pg, env)
    BY <2>1 DEF S!materialized_in, P!materialized_in
  <2>3. \A h : S!materialized_by_hash(sq, h) = P!materialized_by_hash(pg, h)
    BY <2>1 DEF S!materialized_by_hash, P!materialized_by_hash
  <2> QED
    BY <2>2, <2>3 DEF S!materialized_by_hashes, P!materialized_by_hashes
<1>5. ASSUME NEW k \in Keys, Clear(told.seeds, k)
      PROVE  S!seed_state(sq, k[1], k[2]) = P!seed_state(pg, k[1], k[2])
  <2>1. Alike(sq.seed_loads, pg.seed_loads, {}, {}, k)
    BY <1>5 DEF AgreeInv, RowsInv, TablesAlike
  <2> QED
    BY <1>1, <1>2, <2>1 DEF S!seed_state, P!seed_state
<1>6. ASSUME \A k \in Keys : Clear(told.seeds, k), NEW env \in Envs
      PROVE  S!seeds_in(sq, env) = P!seeds_in(pg, env)
  <2>1. /\ DOMAIN sq.seed_loads = DOMAIN pg.seed_loads
        /\ \A k \in DOMAIN sq.seed_loads : sq.seed_loads[k] = pg.seed_loads[k]
    BY <1>6, TablesEqual DEF AgreeInv, RowsInv
  <2> QED
    BY <2>1 DEF S!seeds_in, P!seeds_in
<1> QED
  BY <1>3, <1>4, <1>5, <1>6

LEMMA ListsAgree ==
    ASSUME AgreeInv
    PROVE  /\ ~Blurred(Starts) =>
                \A k \in Keys : S!watermark(sq, k[1], k[2]) = P!watermark(pg, k[1], k[2])
           /\ told.again = {} => S!promotions(sq) = P!promotions(pg)
           /\ ToSet(S!promotions(sq)) = ToSet(P!promotions(pg))
           /\ \A r \in EvidenceOffers :
                S!evidence_for(sq, r.kind, r.subject) = P!evidence_for(pg, r.kind, r.subject)
           /\ \A kind \in Kinds : S!latest_evidence(sq, kind) = P!latest_evidence(pg, kind)
<1>1. ~Blurred(Starts) =>
        \A k \in Keys : S!watermark(sq, k[1], k[2]) = P!watermark(pg, k[1], k[2])
  BY DEF AgreeInv, WatermarkInv, S!watermark, P!watermark, S!Row, P!Row
<1>2. /\ told.again = {} => S!promotions(sq) = P!promotions(pg)
      /\ ToSet(S!promotions(sq)) = ToSet(P!promotions(pg))
  BY NewestIs DEF AgreeInv, PromotionInv, ListFine, S!promotions, P!promotions
<1>3. sq.evidence = pg.evidence /\ DatedRows(sq.evidence, "created_at")
  BY DEF AgreeInv, EvidenceInv, ListFine
<1>4. ASSUME NEW kind, NEW subject
      PROVE  S!evidence_for(sq, kind, subject) = P!evidence_for(pg, kind, subject)
  <2> DEFINE numbers == Where(sq.evidence, "kind", kind) \cap Where(sq.evidence, "subject", subject)
  <2>1. S!newest_first(S!Only(sq.evidence, numbers), "created_at")
          = P!newest_first(P!Only(pg.evidence, numbers), "created_at")
    BY <1>3, BothWhere, BothList
  <2> QED
    BY <1>3, <2>1, BothWhere DEF S!evidence_for, P!evidence_for
<1>5. ASSUME NEW kind PROVE S!latest_evidence(sq, kind) = P!latest_evidence(pg, kind)
  <2> DEFINE numbers == Where(sq.evidence, "kind", kind)
             listed == S!newest_first(S!Only(sq.evidence, numbers), "created_at")
             Earlier(i) == {j \in 1 .. i - 1 : /\ listed[j].subject = listed[i].subject
                                               /\ listed[j].target = listed[i].target}
             Seen(i) == {<<listed[j].subject, listed[j].target>> : j \in 1 .. i - 1}
  <2>1. listed = P!newest_first(P!Only(pg.evidence, numbers), "created_at")
    BY <1>3, BothWhere, BothList
  <2>2. /\ S!Where(sq.evidence, "kind", kind) = numbers
        /\ P!Where(pg.evidence, "kind", kind) = numbers
    BY <1>3, BothWhere
  <2> HIDE DEF numbers
  <2>3. S!latest_evidence(sq, kind) = {listed[i] : i \in {j \in DOMAIN listed : Earlier(j) = {}}}
    BY <2>2 DEF S!latest_evidence
  <2> HIDE DEF listed
  <2>4. P!latest_evidence(pg, kind) =
          {listed[i] : i \in {j \in DOMAIN listed :
                                <<listed[j].subject, listed[j].target>> \notin Seen(j)}}
    BY <2>1, <2>2 DEF P!latest_evidence
  <2>5. \A j : Earlier(j) = {} <=> <<listed[j].subject, listed[j].target>> \notin Seen(j)
    OBVIOUS
  <2> QED
    BY <2>3, <2>4, <2>5
<1> QED
  BY <1>1, <1>2, <1>4, <1>5

-----------------------------------------------------------------------------
(* What is listed first.                                                   *)

LEMMA FirstOf ==
    ASSUME NEW n \in Nat, NEW numbers \in SUBSET (1 .. n), numbers # {}
    PROVE  \E i \in numbers : \A j \in numbers : i = j \/ i < j
<1> DEFINE order == {q \in numbers \X numbers : q[1] < q[2]}
<1>1. IsFiniteSet(numbers) /\ numbers \subseteq Int
  <2>1. IsFiniteSet(1 .. n)
    BY FS_Interval
  <2>2. numbers \subseteq 1 .. n /\ numbers \subseteq Int
    OBVIOUS
  <2>3. IsFiniteSet(numbers)
    BY <2>1, <2>2, FS_Subset
  <2> QED
    BY <2>2, <2>3
<1>2. Strict(order, numbers)
  BY <1>1 DEF Strict
<1> HIDE DEF order
<1>3. Cardinality(numbers) \in Nat /\ 1 \in 1 .. Cardinality(numbers)
  <2>1. Cardinality(numbers) \in Nat /\ Cardinality(numbers) # 0
    BY <1>1, FS_CardinalityType, FS_EmptySet
  <2> QED
    BY <2>1
<1>4. \A i \in numbers : Place(numbers, order, i) \in 1 .. Cardinality(numbers)
  BY <1>1, <1>2, PlacesAre
<1>5. PICK i \in numbers : Place(numbers, order, i) = 1
  BY <1>1, <1>2, <1>3, PlacesAre
<1>6. ASSUME NEW j \in numbers PROVE i = j \/ <<i, j>> \in order
  <2>1. /\ Place(numbers, order, i) = Place(numbers, order, j) => i = j
        /\ Place(numbers, order, i) < Place(numbers, order, j) => <<i, j>> \in order
    BY <1>1, <1>2, PlacesAre
  <2>2. Place(numbers, order, j) = 1 \/ 1 < Place(numbers, order, j)
    BY <1>3, <1>4
  <2> QED
    BY <1>5, <2>1, <2>2
<1> QED
  BY <1>6 DEF order

LEMMA NewestFirst == ASSUME AgreeInv PROVE ListingsAreNewest
<1>1. ASSUME NEW env \in Envs, NEW run \in ToSet(S!InEnvironment(sq.runs, env))
      PROVE  LET latest == S!latest_run(sq, env)
             IN  latest # <<>> /\ cmp_rfc3339(latest[1].started_at, run.started_at) >= 0
  <2> DEFINE rows == sq.runs
             numbers == Where(rows, "env", env)
             listed == S!newest_first(S!Only(rows, numbers), "started_at")
  <2>1. DatedRows(rows, "started_at") /\ numbers \in SUBSET DOMAIN rows
    BY AppendIs, BothWhere DEF AgreeInv, MarksInv, RunsFine, DatedRows
  <2>2. /\ S!InEnvironment(rows, env) = S!Only(rows, numbers)
        /\ S!latest_run(sq, env) = IF listed = <<>> THEN <<>> ELSE <<listed[1]>>
    BY BothWhere DEF S!InEnvironment, S!latest_run
  <2>3. ToSet(S!Only(rows, numbers)) = {rows[i] : i \in numbers}
    BY <2>1, OnlyDated
  <2>4. /\ \E n \in Nat : DOMAIN listed = 1 .. n
        /\ ToSet(listed) = {rows[i] : i \in numbers}
        /\ \A m, n \in DOMAIN listed :
              m < n => listed[m].started_at.nano >= listed[n].started_at.nano
    BY <2>1, BothList
  <2>5. \A i \in numbers : rows[i].started_at \in Stamp /\ Parsed(rows[i].started_at)
    BY <2>1 DEF DatedRows
  <2> HIDE DEF listed, numbers
  <2>6. \A n \in DOMAIN listed : listed[n].started_at \in Stamp /\ Parsed(listed[n].started_at)
    BY <2>4, <2>5 DEF ToSet
  <2>7. PICK n \in DOMAIN listed : listed[n] = run
    BY <2>2, <2>3, <2>4 DEF ToSet
  <2>8. 1 \in DOMAIN listed /\ (1 = n \/ 1 < n) /\ listed # <<>>
    BY <2>4, <2>7
  <2>9. /\ listed[1].started_at.nano \in Int /\ run.started_at.nano \in Int
        /\ cmp_rfc3339(listed[1].started_at, run.started_at)
             = listed[1].started_at.nano - run.started_at.nano
    BY <2>6, <2>7, <2>8 DEF cmp_rfc3339, Stamp
  <2>10. cmp_rfc3339(listed[1].started_at, run.started_at) >= 0
    BY <2>4, <2>7, <2>8, <2>9
  <2> QED
    BY <2>2, <2>8, <2>10
<1>2. ASSUME NEW r \in ToSet(sq.evidence)
      PROVE  LET pair == {l \in S!latest_evidence(sq, r.kind) :
                            l.subject = r.subject /\ l.target = r.target}
             IN  /\ Cardinality(pair) = 1
                 /\ \A l \in pair : cmp_rfc3339(l.created_at, r.created_at) >= 0
  <2> DEFINE rows == sq.evidence
             numbers == Where(rows, "kind", r.kind)
             listed == S!newest_first(S!Only(rows, numbers), "created_at")
             Fits(l) == l.subject = r.subject /\ l.target = r.target
             Earlier(i) == {j \in 1 .. i - 1 : /\ listed[j].subject = listed[i].subject
                                               /\ listed[j].target = listed[i].target}
             pair == {l \in S!latest_evidence(sq, r.kind) : Fits(l)}
  <2>1. DatedRows(rows, "created_at") /\ numbers \in SUBSET DOMAIN rows
    BY BothWhere DEF AgreeInv, EvidenceInv, ListFine
  <2>2. S!latest_evidence(sq, r.kind) = {listed[i] : i \in {j \in DOMAIN listed : Earlier(j) = {}}}
    BY BothWhere DEF S!latest_evidence
  <2>3. /\ ToSet(listed) = {rows[i] : i \in numbers}
        /\ \A m, n \in DOMAIN listed :
              m < n => listed[m].created_at.nano >= listed[n].created_at.nano
    BY <2>1, BothList
  <2>4. PICK count \in Nat : DOMAIN listed = 1 .. count
    BY <2>1, BothList
  <2>5. r \in {rows[i] : i \in numbers}
    BY DEF ToSet, Where
  <2>6. \A i \in numbers : rows[i].created_at \in Stamp /\ Parsed(rows[i].created_at)
    BY <2>1 DEF DatedRows
  <2> HIDE DEF listed, numbers
  <2>7. \A n \in DOMAIN listed : listed[n].created_at \in Stamp /\ Parsed(listed[n].created_at)
    BY <2>3, <2>6 DEF ToSet
  <2>8. PICK n \in DOMAIN listed : listed[n] = r
    BY <2>3, <2>5 DEF ToSet
  <2> DEFINE matching == {i \in DOMAIN listed : Fits(listed[i])}
  <2>9. PICK i \in matching : \A j \in matching : i = j \/ i < j
    <3>1. n \in matching
      BY <2>8
    <3>2. matching \in SUBSET (1 .. count)
      BY <2>4
    <3> HIDE DEF matching
    <3> QED
      BY <3>1, <3>2, FirstOf
  <2>10. Earlier(i) = {}
    BY <2>4, <2>9
  <2>11. \A j \in matching : Earlier(j) = {} => j = i
    BY <2>4, <2>9
  <2>12. pair = {listed[i]}
    BY <2>2, <2>9, <2>10, <2>11
  <2>13. Cardinality(pair) = 1
    <3> HIDE DEF pair
    <3> QED
      BY <2>12, FS_Singleton
  <2>14. i = n \/ i < n
    BY <2>8, <2>9
  <2>15. /\ listed[i].created_at.nano \in Int /\ r.created_at.nano \in Int
         /\ cmp_rfc3339(listed[i].created_at, r.created_at)
              = listed[i].created_at.nano - r.created_at.nano
    BY <2>7, <2>8, <2>9 DEF cmp_rfc3339, Stamp
  <2>16. cmp_rfc3339(listed[i].created_at, r.created_at) >= 0
    BY <2>3, <2>8, <2>9, <2>14, <2>15
  <2> QED
    BY <2>12, <2>13, <2>16
<1> QED
  BY <1>1, <1>2 DEF ListingsAreNewest

\* Both stores answer alike to the same calls in any order, but where the
\* shared one cannot tell two instants apart; what they list first is newest.
THEOREM StoresAgreeHolds == Spec => []StoresAgree
<1>1. AgreeInv => StoresAgree
  BY RunsAgree, RecordsAgree, ListsAgree, NewestFirst DEF StoresAgree, Starts
<1>2. AgreeInv /\ [Next]_vars => AgreeInv'
  BY AgreeNext
<1> QED
  BY <1>1, <1>2, AgreeInit, PTL DEF Spec

=============================================================================
