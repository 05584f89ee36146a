--------------------------- MODULE EvidenceProofs ---------------------------
(***************************************************************************)
(* Theorems about Evidence, for any machines and cases.                    *)
(***************************************************************************)
EXTENDS Evidence, FiniteSetTheorems, TLAPS

-----------------------------------------------------------------------------
(***************************************************************************)
(* Cases and heads.                                                        *)
(***************************************************************************)
HeadsInv ==
    /\ IsCase(case)
    /\ head \in [{"dev", "exp", "main", "release"} -> Nat]
    /\ \A ref \in {"dev", "exp"} : head[ref] \in DOMAIN case.dev
    /\ \A ref \in {"main", "release"} : head[ref] \in DOMAIN case.main

LEMMA SequenceIs ==
    ASSUME NEW s, IsSequence(s)
    PROVE  Len(s) \in Nat /\ DOMAIN s = 1 .. Len(s) /\ (s # <<>> => 1 \in DOMAIN s)
BY DEF IsSequence

LEMMA SidesAre ==
    ASSUME IsCase(case), NEW ref, NEW n,
           n \in IF ref \in Candidates THEN DOMAIN case.dev ELSE DOMAIN case.main
    PROVE  IsTable(Side(ref, n), IF case.model = <<>> THEN {}
                                 ELSE Model.outputs \cup ToSet(model_keys(Model)))
BY DEF IsCase, Side, Model

LEMMA HeadsInit == Init => HeadsInv
<1> SUFFICES ASSUME Init PROVE HeadsInv
  OBVIOUS
<1>1. IsCase(case)
  BY CaseAssumption DEF Init
<1>2. 1 \in DOMAIN case.dev /\ 1 \in DOMAIN case.main
  BY <1>1, SequenceIs DEF IsCase
<1> QED
  BY <1>1, <1>2 DEF Init, HeadsInv, Candidates

LEMMA HeadsMove ==
    ASSUME HeadsInv, NEW ref, Move(ref)
    PROVE  HeadsInv'
<1>1. case' = case /\ head[ref] \in Nat /\ head' = [head EXCEPT ![ref] = head[ref] + 1]
  BY DEF Move, HeadsInv
<1>2. head' \in [{"dev", "exp", "main", "release"} -> Nat]
  <2>1. head[ref] + 1 \in Nat /\ head \in [{"dev", "exp", "main", "release"} -> Nat]
    BY <1>1 DEF HeadsInv
  <2> DEFINE refs == {"dev", "exp", "main", "release"}
             n == head[ref] + 1
  <2> HIDE DEF refs, n
  <2>2. head \in [refs -> Nat] /\ n \in Nat => [head EXCEPT ![ref] = n] \in [refs -> Nat]
    OBVIOUS
  <2> QED
    BY <1>1, <2>1, <2>2 DEF refs, n
<1>3. /\ DOMAIN case.dev = 1 .. Len(case.dev) /\ Len(case.dev) \in Nat
      /\ DOMAIN case.main = 1 .. Len(case.main) /\ Len(case.main) \in Nat
  BY SequenceIs DEF HeadsInv, IsCase
<1>4. head[ref] < Len(IF ref = "dev" THEN case.dev ELSE case.main) /\ ref \in {"dev", "main"}
  BY DEF Move
<1>5. ASSUME NEW r \in {"dev", "exp"} PROVE head'[r] \in DOMAIN case.dev
  <2>1. CASE r = ref
    BY <1>1, <1>3, <1>4, <2>1 DEF HeadsInv
  <2>2. CASE r # ref
    BY <1>1, <2>2 DEF HeadsInv
  <2> QED
    BY <2>1, <2>2
<1>6. ASSUME NEW r \in {"main", "release"} PROVE head'[r] \in DOMAIN case.main
  <2>1. CASE r = ref
    BY <1>1, <1>3, <1>4, <2>1 DEF HeadsInv
  <2>2. CASE r # ref
    BY <1>1, <2>2 DEF HeadsInv
  <2> QED
    BY <2>1, <2>2
<1> QED
  BY <1>1, <1>2, <1>5, <1>6 DEF HeadsInv

\* Only a move changes what the branches have.
LEMMA OnlyMoves ==
    ASSUME [Next]_vars
    PROVE  UNCHANGED <<case, head>> \/ \E ref \in {"dev", "main"} : Move(ref)
<1>1. CASE UNCHANGED vars
  BY <1>1 DEF vars
<1>2. CASE \E ref \in {"dev", "main"} : Move(ref)
  BY <1>2
<1>3. ASSUME NEW m, Stop(m) \/ Edit(m) PROVE UNCHANGED <<case, head>>
  BY <1>3 DEF Stop, Edit
<1>4. ASSUME NEW m, NEW pair,
             \/ \E bound, deep \in BOOLEAN, lost \in Reads : Diff(m, pair, bound, deep, lost)
             \/ \E kind \in {"merge-base", "ref"}, named \in BOOLEAN : LineageDiff(m, kind, pair, named)
             \/ Audit(m, pair) \/ AuditLineage(m, pair)
      PROVE  UNCHANGED <<case, head>>
  BY <1>4 DEF Diff, LineageDiff, Audit, AuditLineage
<1>5. ASSUME NEW m, \/ DiffFile(m) \/ DiffRecord(m) \/ AuditJudge(m)
                    \/ LineageBind(m) \/ LineageRecord(m) \/ LineageJudge(m)
      PROVE  UNCHANGED <<case, head>>
  BY <1>5 DEF DiffFile, DiffRecord, AuditJudge, LineageBind, LineageRecord, LineageJudge
<1>6. ASSUME NEW m, NEW ref, \/ \E base \in {"main", "release"} : Provision(m, ref, base)
                             \/ ReadBinding(m, ref) \/ ScanFile(m, ref) \/ Delete(m, ref)
      PROVE  UNCHANGED <<case, head>>
  BY <1>6 DEF Provision, ReadBinding, ScanFile, Delete
<1>7. ASSUME NEW m, \/ ProvisionCheck(m) \/ ProvisionRecord(m) \/ ProvisionSlot(m)
                    \/ ProvisionFile(m) \/ ReadFiles(m) \/ ScanBindings(m)
                    \/ RemoveSlot(m) \/ RemoveRecord(m)
      PROVE  UNCHANGED <<case, head>>
  BY <1>7 DEF ProvisionCheck, ProvisionRecord, ProvisionSlot, ProvisionFile, ReadFiles,
              ScanBindings, RemoveSlot, RemoveRecord
<1> QED
  BY <1>1, <1>2, <1>3, <1>4, <1>5, <1>6, <1>7 DEF Next

LEMMA HeadsStep == HeadsInv /\ [Next]_vars => HeadsInv'
<1> SUFFICES ASSUME HeadsInv, [Next]_vars PROVE HeadsInv'
  OBVIOUS
<1>1. CASE UNCHANGED <<case, head>>
  BY <1>1 DEF HeadsInv
<1>2. CASE \E ref \in {"dev", "main"} : Move(ref)
  BY <1>2, HeadsMove
<1> QED
  BY <1>1, <1>2, OnlyMoves

THEOREM HeadsHold == Spec => []HeadsInv
<1> QED
  BY HeadsInit, HeadsStep, PTL DEF Spec

-----------------------------------------------------------------------------
(***************************************************************************)
(* Contracts, tables and the planner.                                      *)
(***************************************************************************)
LEMMA NumbersParse ==
    ASSUME NEW type
    PROVE  is_numeric(parse_trino(type)) <=> is_numeric(type) /\ parse_trino(type) = type
<1>1. \A x : is_numeric(x) <=>
         x \in {"tinyint", "smallint", "integer", "bigint", "real", "double", "decimal"}
  BY DEF is_numeric, Ranked, ToSet
<1> QED
  BY <1>1 DEF parse_trino

LEMMA NumbersKeep ==
    ASSUME NEW type
    PROVE  is_numeric(type) => parse_trino(type) = type
<1>1. \A x : is_numeric(x) <=>
         x \in {"tinyint", "smallint", "integer", "bigint", "real", "double", "decimal"}
  BY DEF is_numeric, Ranked, ToSet
<1> QED
  BY <1>1 DEF parse_trino

LEMMA WidensParsed ==
    ASSUME NEW new, NEW old
    PROVE  Widens(parse_trino(new), parse_trino(old)) <=> Widens(new, old)
BY NumbersParse, NumbersKeep DEF Widens

\* What a contract drops without a break is stated by neither.
LEMMA UnbrokenIsKept ==
    ASSUME NEW was, NEW now, IsContract(was), IsContract(now), was # NoContract,
           breaking_contract_changes(contract_diff(was, now)) = {}
    PROVE  now # NoContract /\ GuaranteesKept(was[1], now[1])
<1> DEFINE w == was[1]
           n == now[1]
           resolved == Resolved(n.renames, n.columns, w.columns)
           away == {n.renames[x] : x \in resolved}
           known == {x \in resolved \cap DOMAIN w.renames : w.renames[x] = n.renames[x]}
           Old(c) == IF c \in resolved THEN n.renames[c] ELSE c
           All == contract_diff(was, now)
           Enforcement(e) == Change("", "enforcement_changed", IF e THEN "breaking" ELSE "review")
<1>1. \A change \in All : change.safety # "breaking"
  BY DEF breaking_contract_changes
<1>2. now # NoContract
  <2>1. CASE now = NoContract
    <3>1. All = {Change("", "contract_removed", "breaking")}
      BY <2>1 DEF contract_diff
    <3>2. Change("", "contract_removed", "breaking").safety = "breaking"
      BY DEF Change
    <3> QED
      BY <1>1, <3>1, <3>2
  <2> QED
    BY <2>1
<1>3. /\ \A e \in {w.enforced} \ {n.enforced} : Enforcement(e) \in All
      /\ \A x \in resolved \ known : Change(x, "renamed", "breaking") \in All
      /\ \A c \in DOMAIN w.columns \ (DOMAIN n.columns \cup away) :
             Change(c, "removed", "breaking") \in All
      /\ \A c \in DOMAIN n.columns : Old(c) \in DOMAIN w.columns =>
             compare_column_contracts(c, w.columns[Old(c)], n.columns[c]) \subseteq All
  <2> HIDE DEF resolved, away, known, Old
  <2>1. All = {Enforcement(e) : e \in {w.enforced} \ {n.enforced}}
            \cup {Change(c, "rename_ambiguous", "review") :
                    c \in Ambiguous(n.renames) \cap DOMAIN w.columns}
            \cup {Change(x, "renamed", "breaking") :
                    x \in resolved \ known}
            \cup {Change(c, "removed", "breaking") :
                    c \in DOMAIN w.columns \ (DOMAIN n.columns \cup away)}
            \cup {Change(c, "added", "safe") :
                    c \in {k \in DOMAIN n.columns : Old(k) \notin DOMAIN w.columns}}
            \cup UNION {compare_column_contracts(c, w.columns[Old(c)], n.columns[c]) :
                    c \in {k \in DOMAIN n.columns : Old(k) \in DOMAIN w.columns}}
    BY <1>2 DEF contract_diff, resolved, away, known, Old
  <2> HIDE DEF All, Enforcement
  <2>2. \A e \in {w.enforced} \ {n.enforced} : Enforcement(e) \in All
    BY <2>1
  <2>3. \A x \in resolved \ known : Change(x, "renamed", "breaking") \in All
    BY <2>1
  <2>4. \A c \in DOMAIN w.columns \ (DOMAIN n.columns \cup away) :
           Change(c, "removed", "breaking") \in All
    BY <2>1
  <2>5. \A c \in DOMAIN n.columns : Old(c) \in DOMAIN w.columns =>
           compare_column_contracts(c, w.columns[Old(c)], n.columns[c]) \subseteq All
    <3> DEFINE compared == {compare_column_contracts(c, w.columns[Old(c)], n.columns[c]) :
                              c \in {k \in DOMAIN n.columns : Old(k) \in DOMAIN w.columns}}
    <3>1. UNION compared \subseteq All
      BY <2>1
    <3>2. \A c \in DOMAIN n.columns : Old(c) \in DOMAIN w.columns =>
             compare_column_contracts(c, w.columns[Old(c)], n.columns[c]) \in compared
      OBVIOUS
    <3> QED
      BY <3>1, <3>2
  <2> QED
    BY <2>2, <2>3, <2>4, <2>5
<1> HIDE DEF All
<1>4. \A c, kind : Change(c, kind, "breaking") \notin All
  BY <1>1 DEF Change
<1>5. w.enforced => n.enforced
  <2>2. Enforcement(TRUE) \notin All
    BY <1>4
  <2> HIDE DEF Enforcement
  <2>1. w.enforced \in BOOLEAN /\ n.enforced \in BOOLEAN
    BY <1>2 DEF IsContract
  <2> QED
    BY <1>3, <2>1, <2>2
<1>6. ASSUME NEW c \in DOMAIN w.columns, c \notin DOMAIN n.columns
      PROVE  \E x \in DOMAIN w.renames \cap DOMAIN n.renames :
                w.renames[x] = c /\ n.renames[x] = c
  <2>1. c \in away /\ resolved \subseteq known
    BY <1>3, <1>4, <1>6
  <2> QED
    BY <2>1 DEF Resolved
<1>7. ASSUME NEW c \in DOMAIN w.columns, c \in DOMAIN n.columns
      PROVE  compare_column_contracts(c, w.columns[c], n.columns[c]) \subseteq All
  <2>1. Old(c) = c
    BY DEF Resolved
  <2> QED
    BY <1>3, <1>7, <2>1
<1>8. ASSUME NEW c \in DOMAIN w.columns, c \in DOMAIN n.columns
      PROVE  LET old == w.columns[c]
                 new == n.columns[c]
             IN  /\ \/ "" \in {old.type, new.type}
                    \/ parse_trino(old.type) = parse_trino(new.type)
                    \/ Widens(new.type, old.type)
                 /\ old.nullable = "no" => new.nullable # "yes"
  <2> DEFINE old == w.columns[c]
             new == n.columns[c]
  <2>1. \A kind : Change(c, kind, "breaking") \notin compare_column_contracts(c, old, new)
    BY <1>4, <1>7, <1>8
  <2>2. Widens(parse_trino(new.type), parse_trino(old.type)) <=> Widens(new.type, old.type)
    BY WidensParsed
  <2> HIDE DEF old, new
  <2>3. \/ "" \in {old.type, new.type}
        \/ parse_trino(old.type) = parse_trino(new.type)
        \/ Widens(new.type, old.type)
    BY <2>1, <2>2 DEF compare_column_contracts
  <2>4. old.nullable = "no" => new.nullable # "yes"
    BY <2>1 DEF compare_column_contracts
  <2> QED
    BY <2>3, <2>4 DEF old, new
<1> QED
  BY <1>2, <1>5, <1>6, <1>8 DEF GuaranteesKept

\* Columns that are there have a type and a nullability.
IsColumns(columns) ==
    \A c \in DOMAIN columns : columns[c].type \in STRING \ {""} /\ columns[c].nullable \in BOOLEAN

Away(now, was, renames) == {renames[n] : n \in Resolved(renames, now, was)}
Gone(now, was, renames) == DOMAIN was \ (DOMAIN now \cup Away(now, was, renames))
Retyped(now, was) ==
    {c \in DOMAIN was \cap DOMAIN now : parse_trino(now[c].type) # parse_trino(was[c].type)}
Numbers(now, was, c) == is_numeric(parse_trino(now[c].type)) /\ is_numeric(parse_trino(was[c].type))
Wider(now, was, c) == Widens(parse_trino(now[c].type), parse_trino(was[c].type))
Loosens(now, was) == {c \in DOMAIN was \cap DOMAIN now : now[c].nullable /\ ~was[c].nullable}

LEMMA ChangeIs ==
    \A c, kind, safety : LET x == Change(c, kind, safety)
                        IN  x.column = c /\ x.kind = kind /\ x.safety = safety
BY DEF Change

\* The columns that a set of changes names.
ChangesOf(columns, kind, safety) == {Change(x, kind, safety) : x \in columns}

LEMMA NamesAre ==
    ASSUME NEW columns, NEW kind, NEW safety, NEW c
    PROVE  /\ \A x \in ChangesOf(columns, kind, safety) : x.kind = kind /\ x.safety = safety
           /\ (\E x \in ChangesOf(columns, kind, safety) : x.column = c) <=> c \in columns
<1> DEFINE changes == ChangesOf(columns, kind, safety)
<1>1. \A x \in changes : \E y \in columns : x = Change(y, kind, safety)
  BY DEF ChangesOf
<1>2. c \in columns => Change(c, kind, safety) \in changes
  BY DEF ChangesOf
<1> HIDE DEF changes
<1> QED
  BY <1>1, <1>2, ChangeIs DEF changes

\* The columns that the comparison of two tables calls breaking.
LEMMA PhysicalBreaks ==
    ASSUME NEW now, NEW was, NEW renames, IsColumns(now), IsColumns(was), NEW c
    PROVE  LET broken == breaking_columns(compare_column_lists(now, was, renames))
               Apart == \/ c \in Resolved(renames, now, was) /\ renames[c] \notin DOMAIN now
                        \/ c \in Gone(now, was, renames)
                        \/ c \in Retyped(now, was) /\ ~Numbers(now, was, c)
           IN  /\ (\E change \in broken : change.column = c /\ change.kind # "nullability") <=> Apart
               /\ (\E change \in broken : change.column = c) <=> Apart \/ c \in Loosens(now, was)
<1> DEFINE resolved == Resolved(renames, now, was)
           unclear == ChangesOf(Ambiguous(renames) \cap DOMAIN was, "rename_ambiguous", "review")
           moved == {r \in resolved : renames[r] \notin DOMAIN now}
           renamed == ChangesOf(moved, "renamed", "full_rebuild_required")
           removed == ChangesOf(Gone(now, was, renames), "removed", "full_rebuild_required")
           changed == {Change(x, "changed", IF Numbers(now, was, x) THEN "review" ELSE "error") :
                         x \in Retyped(now, was)}
           nulled == {Change(x, "nullability", IF now[x].nullable THEN "error" ELSE "review") :
                         x \in {k \in DOMAIN was \cap DOMAIN now : now[k].nullable # was[k].nullable}}
           added == ChangesOf(DOMAIN now \ (DOMAIN was \cup resolved), "added", "safe")
           broken == breaking_columns(compare_column_lists(now, was, renames))
<1>1. compare_column_lists(now, was, renames)
        = unclear \cup renamed \cup removed \cup changed \cup nulled \cup added
  BY DEF compare_column_lists, ChangesOf, Gone, Away, Retyped, Numbers
<1>2. broken = {x \in unclear \cup renamed \cup removed \cup changed \cup nulled \cup added :
                  x.safety \in {"error", "full_rebuild_required"}}
  BY <1>1 DEF breaking_columns
<1>3. \A x \in unclear \cup added : x.safety \notin {"error", "full_rebuild_required"}
  BY NamesAre
<1>4. /\ \A x \in renamed \cup removed : x.safety = "full_rebuild_required" /\ x.kind # "nullability"
      /\ (\E x \in renamed : x.column = c) <=> c \in resolved /\ renames[c] \notin DOMAIN now
      /\ (\E x \in removed : x.column = c) <=> c \in Gone(now, was, renames)
  <2>1. c \in moved <=> c \in resolved /\ renames[c] \notin DOMAIN now
    OBVIOUS
  <2> HIDE DEF moved
  <2>2. \A x \in renamed : x.safety = "full_rebuild_required" /\ x.kind = "renamed"
    BY NamesAre
  <2>3. \A x \in removed : x.safety = "full_rebuild_required" /\ x.kind = "removed"
    BY NamesAre
  <2>4. (\E x \in renamed : x.column = c) <=> c \in moved
    BY NamesAre
  <2>5. (\E x \in removed : x.column = c) <=> c \in Gone(now, was, renames)
    BY NamesAre
  <2> HIDE DEF renamed, removed
  <2> QED
    BY <2>1, <2>2, <2>3, <2>4, <2>5
<1>5. /\ \A x \in changed : x.kind # "nullability"
      /\ (\E x \in changed : x.column = c /\ x.safety \in {"error", "full_rebuild_required"})
            <=> c \in Retyped(now, was) /\ ~Numbers(now, was, c)
  <2> DEFINE One(x) == Change(x, "changed", IF Numbers(now, was, x) THEN "review" ELSE "error")
  <2>1. \A x : One(x).column = x /\ One(x).kind = "changed"
               /\ One(x).safety = (IF Numbers(now, was, x) THEN "review" ELSE "error")
    BY ChangeIs
  <2>2. \A x \in changed : \E y \in Retyped(now, was) : x = One(y)
    OBVIOUS
  <2>3. c \in Retyped(now, was) => One(c) \in changed
    OBVIOUS
  <2> HIDE DEF One, changed
  <2> QED
    BY <2>1, <2>2, <2>3
<1>6. /\ \A x \in nulled : x.kind = "nullability"
      /\ (\E x \in nulled : x.column = c /\ x.safety \in {"error", "full_rebuild_required"})
            <=> c \in Loosens(now, was)
  <2> DEFINE One(x) == Change(x, "nullability", IF now[x].nullable THEN "error" ELSE "review")
             altered == {k \in DOMAIN was \cap DOMAIN now : now[k].nullable # was[k].nullable}
  <2>1. \A x : One(x).column = x /\ One(x).kind = "nullability"
               /\ One(x).safety = (IF now[x].nullable THEN "error" ELSE "review")
    BY ChangeIs
  <2>2. c \in altered /\ now[c].nullable <=> c \in Loosens(now, was)
    BY DEF Loosens, IsColumns
  <2> HIDE DEF altered
  <2>3. nulled = {One(x) : x \in altered}
    BY DEF altered
  <2> HIDE DEF One, nulled
  <2>4. \A x \in nulled : \E y \in altered : x = One(y)
    BY <2>3
  <2>5. c \in altered => One(c) \in nulled
    BY <2>3
  <2> QED
    BY <2>1, <2>2, <2>4, <2>5
<1> HIDE DEF unclear, renamed, removed, changed, nulled, added, broken
<1> QED
  BY <1>2, <1>3, <1>4, <1>5, <1>6 DEF broken, resolved

\* What the contracts that state just these columns call breaking.
LEMMA StatedBreaks ==
    ASSUME NEW now, NEW was, NEW renames, IsColumns(now), IsColumns(was), NEW c
    PROVE  (\E change \in breaking_contract_changes(
                             contract_diff(Exact(was, <<>>), Exact(now, renames))) :
               change.column = c)
             <=> \/ c \in Resolved(renames, now, was)
                 \/ c \in Gone(now, was, renames)
                 \/ c \in Retyped(now, was) /\ ~Wider(now, was, c)
                 \/ c \in Loosens(now, was)
<1> DEFINE w == Exact(was, <<>>)[1]
           n == Exact(now, renames)[1]
           resolved == Resolved(renames, now, was)
           Old(x) == IF x \in resolved THEN renames[x] ELSE x
           One(x) == compare_column_contracts(x, w.columns[Old(x)], n.columns[x])
           unclear == ChangesOf(Ambiguous(renames) \cap DOMAIN was, "rename_ambiguous", "review")
           renamed == ChangesOf(resolved, "renamed", "breaking")
           removed == ChangesOf(Gone(now, was, renames), "removed", "breaking")
           added == ChangesOf({k \in DOMAIN now : Old(k) \notin DOMAIN was}, "added", "safe")
           compared == UNION {One(x) : x \in {k \in DOMAIN now : Old(k) \in DOMAIN was}}
           All == contract_diff(Exact(was, <<>>), Exact(now, renames))
           Breaks(changes) == \E x \in changes : x.column = c /\ x.safety = "breaking"
<1>1. /\ w.enforced = TRUE /\ w.renames = <<>> /\ n.enforced = TRUE /\ n.renames = renames
      /\ DOMAIN w.columns = DOMAIN was /\ DOMAIN n.columns = DOMAIN now
      /\ \A x \in DOMAIN was : w.columns[x] =
            [type |-> was[x].type, nullable |-> IF was[x].nullable THEN "yes" ELSE "no"]
      /\ \A x \in DOMAIN now : n.columns[x] =
            [type |-> now[x].type, nullable |-> IF now[x].nullable THEN "yes" ELSE "no"]
      /\ Exact(was, <<>>) # NoContract /\ Exact(now, renames) # NoContract
  BY DEF Exact, NoContract
<1>2. Resolved(n.renames, n.columns, w.columns) = resolved
  BY <1>1 DEF Resolved
<1>3. All = unclear \cup renamed \cup removed \cup added \cup compared
  <2> DEFINE Here == Resolved(n.renames, n.columns, w.columns)
             From(x) == IF x \in Here THEN n.renames[x] ELSE x
  <2>2. {w.enforced} \ {n.enforced} = {}
    BY <1>1
  <2>3. All = {Change("", "enforcement_changed", IF e THEN "breaking" ELSE "review") :
              e \in {w.enforced} \ {n.enforced}}
            \cup {Change(x, "rename_ambiguous", "review") :
                    x \in Ambiguous(n.renames) \cap DOMAIN w.columns}
            \cup {Change(x, "renamed", "breaking") :
                    x \in Here \ {y \in Here \cap DOMAIN w.renames : w.renames[y] = n.renames[y]}}
            \cup {Change(x, "removed", "breaking") :
                    x \in DOMAIN w.columns \ (DOMAIN n.columns \cup {n.renames[y] : y \in Here})}
            \cup {Change(x, "added", "safe") :
                    x \in {k \in DOMAIN n.columns : From(k) \notin DOMAIN w.columns}}
            \cup UNION {compare_column_contracts(x, w.columns[From(x)], n.columns[x]) :
                    x \in {k \in DOMAIN n.columns : From(k) \in DOMAIN w.columns}}
    <3> HIDE DEF Here
    <3>1. Exact(was, <<>>) # NoContract /\ Exact(now, renames) # NoContract
      BY <1>1
    <3> QED
      BY <3>1 DEF contract_diff, Here
  <2>4. \A x : From(x) = Old(x)
    BY <1>1, <1>2
  <2> HIDE DEF w, n, resolved, Old, From
  <2>5. {Change("", "enforcement_changed", IF e THEN "breaking" ELSE "review") :
              e \in {w.enforced} \ {n.enforced}} = {}
    BY <2>2
  <2>6. Here \ {y \in Here \cap DOMAIN w.renames : w.renames[y] = n.renames[y]} = resolved
    BY <1>1, <1>2
  <2>7. DOMAIN w.columns \ (DOMAIN n.columns \cup {n.renames[y] : y \in Here})
          = Gone(now, was, renames)
    BY <1>1, <1>2 DEF Gone, Away, resolved
  <2>8. UNION {compare_column_contracts(x, w.columns[From(x)], n.columns[x]) :
                 x \in {k \in DOMAIN n.columns : From(k) \in DOMAIN w.columns}} = compared
    BY <1>1, <2>4
  <2>9. {k \in DOMAIN n.columns : From(k) \notin DOMAIN w.columns}
          = {k \in DOMAIN now : Old(k) \notin DOMAIN was}
    BY <1>1, <2>4
  <2> HIDE DEF compared, All
  <2> QED
    BY <1>1, <2>3, <2>5, <2>6, <2>7, <2>8, <2>9 DEF ChangesOf
<1>4. Breaks(All) <=> Breaks(renamed) \/ Breaks(removed) \/ Breaks(compared)
  <2>1. \A columns, kind, safety : \A x \in ChangesOf(columns, kind, safety) : x.safety = safety
    <3> HIDE DEF unclear, renamed, removed, added, compared, All
    <3> QED
      BY NamesAre
  <2>2. \A x \in unclear : x.safety = "review"
    BY <2>1
  <2>3. \A x \in added : x.safety = "safe"
    BY <2>1
  <2> HIDE DEF unclear, renamed, removed, added, compared, All
  <2> QED
    BY <1>3, <2>2, <2>3
<1>5. Breaks(renamed) <=> c \in resolved
  BY NamesAre
<1>6. Breaks(removed) <=> c \in Gone(now, was, renames)
  BY NamesAre
<1>7. \A x, change : change \in One(x) => change.column = x
  <2>1. \A x, a, b, change : change \in compare_column_contracts(x, a, b) =>
            \E kind, safety : change = Change(x, kind, safety)
    BY DEF compare_column_contracts
  <2> HIDE DEF w, n, Old
  <2>2. \A x, change : change \in One(x) => \E kind, safety : change = Change(x, kind, safety)
    BY <2>1
  <2> HIDE DEF One
  <2> QED
    BY <2>2, ChangeIs
<1>8. Breaks(compared) <=> c \in DOMAIN now /\ Old(c) \in DOMAIN was /\ Breaks(One(c))
  <2> HIDE DEF One, Old
  <2> QED
    BY <1>7
<1>9. ASSUME c \notin resolved, c \in DOMAIN now, c \in DOMAIN was
      PROVE  Breaks(One(c)) <=> \/ c \in Retyped(now, was) /\ ~Wider(now, was, c)
                                \/ c \in Loosens(now, was)
  <2> DEFINE x == w.columns[c]
             y == n.columns[c]
  <2>1. One(c) = compare_column_contracts(c, x, y)
    BY <1>9
  <2>4. /\ x = [type |-> was[c].type, nullable |-> IF was[c].nullable THEN "yes" ELSE "no"]
        /\ y = [type |-> now[c].type, nullable |-> IF now[c].nullable THEN "yes" ELSE "no"]
    BY <1>1, <1>9
  <2> HIDE DEF x, y
  <2>2. /\ x.type = was[c].type /\ y.type = now[c].type
        /\ x.type # "" /\ y.type # ""
        /\ x.nullable = (IF was[c].nullable THEN "yes" ELSE "no")
        /\ y.nullable = (IF now[c].nullable THEN "yes" ELSE "no")
        /\ was[c].nullable \in BOOLEAN /\ now[c].nullable \in BOOLEAN
    BY <1>9, <2>4 DEF IsColumns
  <2> DEFINE apart == parse_trino(x.type) # parse_trino(y.type)
             fits == Widens(parse_trino(y.type), parse_trino(x.type))
             retyped == IF apart THEN {Change(c, "type_changed", IF fits THEN "review" ELSE "breaking")}
                        ELSE {}
             renulled == IF x.nullable # y.nullable
                           THEN {Change(c, "nullability_changed",
                                        IF y.nullable = "yes" THEN "breaking" ELSE "review")}
                         ELSE {}
  <2>5. One(c) = retyped \cup renulled
    BY <2>1, <2>2 DEF compare_column_contracts
  <2>6. Breaks(retyped) <=> apart /\ ~fits
    BY ChangeIs
  <2>7. Breaks(renulled) <=> x.nullable # y.nullable /\ y.nullable = "yes"
    BY ChangeIs
  <2> HIDE DEF One, retyped, renulled
  <2>3. Breaks(One(c)) <=> \/ apart /\ ~fits
                           \/ x.nullable # y.nullable /\ y.nullable = "yes"
    BY <2>5, <2>6, <2>7
  <2> QED
    BY <1>9, <2>2, <2>3 DEF Retyped, Wider, Loosens
<1>10. (\E change \in breaking_contract_changes(All) : change.column = c) <=> Breaks(All)
  BY DEF breaking_contract_changes
<1> HIDE DEF All, compared, renamed, removed, One, Breaks
<1>11. c \in resolved => c \notin DOMAIN was
  BY DEF Resolved
<1>12. c \in Retyped(now, was) \/ c \in Loosens(now, was) => c \in DOMAIN was /\ c \in DOMAIN now
  BY DEF Retyped, Loosens
<1> QED
  BY <1>4, <1>5, <1>6, <1>8, <1>9, <1>10, <1>11, <1>12 DEF All

\* When the planner has the table built anew.
LEMMA PlannerBreaks ==
    ASSUME NEW now, NEW was, NEW renames
    PROVE  forces_rebuild(now, was)
             <=> \E c \in DOMAIN was :
                   \/ c \notin DOMAIN now
                   \/ c \in Retyped(now, was) /\ ~Wider(now, was, c)
<1>1. forces_rebuild(now, was)
        <=> \/ \E c \in Retyped(now, was) : ~Wider(now, was, c)
            \/ DOMAIN was \ DOMAIN now # {}
  BY DEF forces_rebuild, classify_schema_change, Retyped, Wider
<1>2. Retyped(now, was) \subseteq DOMAIN was
  BY DEF Retyped
<1> QED
  BY <1>1, <1>2

\* Numbers that narrow are the retyped columns that do not widen.
LEMMA NarrowedIs ==
    ASSUME NEW now, NEW was, NEW c \in DOMAIN now \cap DOMAIN was
    PROVE  Narrowed(was[c].type, now[c].type)
             <=> c \in Retyped(now, was) /\ Numbers(now, was, c) /\ ~Wider(now, was, c)
<1> DEFINE a == now[c].type
           b == was[c].type
<1>1. is_numeric(a) <=> is_numeric(parse_trino(a))
  BY NumbersParse, NumbersKeep
<1>2. is_numeric(b) <=> is_numeric(parse_trino(b))
  BY NumbersParse, NumbersKeep
<1>3. is_numeric(a) => parse_trino(a) = a
  BY NumbersKeep
<1>4. is_numeric(b) => parse_trino(b) = b
  BY NumbersKeep
<1>5. c \in Retyped(now, was) <=> parse_trino(a) # parse_trino(b)
  BY DEF Retyped
<1>6. Numbers(now, was, c) <=> is_numeric(a) /\ is_numeric(b)
  BY <1>1, <1>2 DEF Numbers
<1>7. Wider(now, was, c) <=> Widens(a, b)
  BY WidensParsed DEF Wider
<1>8. Narrowed(b, a) <=> is_numeric(a) /\ is_numeric(b) /\ widen(a, b) # a
  BY DEF Narrowed
<1>9. Widens(a, b) <=> is_numeric(a) /\ is_numeric(b) /\ widen(a, b) = a
  BY DEF Widens
<1>10. a = b /\ is_numeric(a) => widen(a, b) = a
  BY DEF widen, is_numeric, Ranked, ToSet
<1> HIDE DEF a, b
<1> QED
  BY <1>3, <1>4, <1>5, <1>6, <1>7, <1>8, <1>9, <1>10 DEF a, b

LEMMA BreaksAgree ==
    ASSUME NEW now, NEW was, NEW renames, IsColumns(now), IsColumns(was)
    PROVE  LET Named(changes) == {c.column : c \in changes}
               broken == breaking_columns(compare_column_lists(now, was, renames))
               physical == Named(broken)
               apart == Named({c \in broken : c.kind # "nullability"})
               contract == Named(breaking_contract_changes(
                                   contract_diff(Exact(was, <<>>), Exact(now, renames))))
               kept == DOMAIN now \cap DOMAIN was
               narrowed == {c \in kept : Narrowed(was[c].type, now[c].type)}
               standing == {n \in Resolved(renames, now, was) : renames[n] \in DOMAIN now}
           IN  /\ contract \ (narrowed \cup standing) = physical \ narrowed
               /\ forces_rebuild(now, was) <=> apart \cup narrowed # {}
<1> DEFINE Named(changes) == {c.column : c \in changes}
           broken == breaking_columns(compare_column_lists(now, was, renames))
           physical == Named(broken)
           apart == Named({c \in broken : c.kind # "nullability"})
           seen == breaking_contract_changes(contract_diff(Exact(was, <<>>), Exact(now, renames)))
           contract == Named(seen)
           resolved == Resolved(renames, now, was)
           gone == Gone(now, was, renames)
           retyped == Retyped(now, was)
           loosens == Loosens(now, was)
           narrowed == {c \in DOMAIN now \cap DOMAIN was : Narrowed(was[c].type, now[c].type)}
           standing == {n \in resolved : renames[n] \in DOMAIN now}
           Moved(c) == c \in resolved /\ renames[c] \notin DOMAIN now
           Unfit(c) == c \in retyped /\ ~Numbers(now, was, c)
<1>1. \A c : c \in physical <=> Moved(c) \/ c \in gone \/ Unfit(c) \/ c \in loosens
  BY PhysicalBreaks
<1>2. \A c : c \in apart <=> Moved(c) \/ c \in gone \/ Unfit(c)
  BY PhysicalBreaks
<1>3. \A c : c \in contract
              <=> \/ c \in resolved
                  \/ c \in gone
                  \/ c \in loosens
                  \/ c \in retyped /\ ~Wider(now, was, c)
  BY StatedBreaks
<1>4. \A c : c \in narrowed
              <=> c \in retyped /\ Numbers(now, was, c) /\ ~Wider(now, was, c)
  BY NarrowedIs DEF Retyped
<1>5. \A c : ~Numbers(now, was, c) => ~Wider(now, was, c)
  BY DEF Numbers, Wider, Widens
<1>6. /\ \A c \in resolved : c \in DOMAIN now \ DOMAIN was /\ renames[c] \in DOMAIN was
      /\ retyped \cup loosens \subseteq DOMAIN now \cap DOMAIN was
      /\ \A c : c \in gone <=> c \in DOMAIN was \ DOMAIN now /\ \A n \in resolved : renames[n] # c
  BY DEF Resolved, Retyped, Loosens, Gone, Away
<1>7. forces_rebuild(now, was)
        <=> \E c \in DOMAIN was :
              c \notin DOMAIN now \/ (c \in retyped /\ ~Wider(now, was, c))
  BY PlannerBreaks
<1>8. \A c : c \in standing <=> c \in resolved /\ renames[c] \in DOMAIN now
  OBVIOUS
<1> HIDE DEF physical, apart, contract, resolved, gone, retyped, loosens, narrowed, standing
<1>9. contract \ (narrowed \cup standing) = physical \ narrowed
  BY <1>1, <1>3, <1>4, <1>5, <1>6, <1>8
<1>10. forces_rebuild(now, was) <=> apart \cup narrowed # {}
  <2>1. ASSUME NEW c, c \in DOMAIN was, c \notin DOMAIN now PROVE apart # {}
    BY <1>2, <1>6, <2>1
  <2>2. ASSUME NEW c \in retyped, ~Wider(now, was, c) PROVE apart \cup narrowed # {}
    BY <1>2, <1>4, <2>2
  <2>3. ASSUME NEW c \in apart \cup narrowed
        PROVE  \E d \in DOMAIN was :
                  d \notin DOMAIN now \/ (d \in retyped /\ ~Wider(now, was, d))
    BY <1>2, <1>4, <1>5, <1>6
  <2> QED
    BY <1>7, <2>1, <2>2, <2>3
<1> QED
  BY <1>9, <1>10 DEF physical, apart, contract, narrowed, standing, resolved

LEMMA BreaksFound == HeadsInv => BreaksAreSeen
<1> SUFFICES ASSUME HeadsInv, case.model # <<>> PROVE BreaksAreSeen
  BY DEF BreaksAreSeen
<1> DEFINE record == Current("main").record
           now == Current("dev").schema
           was == Current("main").schema
           renames == IF Model.contract = NoContract THEN <<>> ELSE Model.contract[1].renames
<1>1. IsColumns(now) /\ IsColumns(was) /\ (record # <<>> => IsContract(record[1].contract))
  <2>1. /\ head["dev"] \in DOMAIN case.dev /\ head["main"] \in DOMAIN case.main
        /\ "dev" \in Candidates /\ "main" \notin Candidates
    BY DEF HeadsInv, Candidates
  <2>2. \E names : IsTable(Current("dev"), names)
    BY <2>1, SidesAre DEF HeadsInv, Current
  <2>3. \E names : IsTable(Current("main"), names)
    BY <2>1, SidesAre DEF HeadsInv, Current
  <2> QED
    BY <2>2, <2>3 DEF IsTable, IsColumns
<1>2. IsContract(Model.contract)
  BY DEF HeadsInv, IsCase, IsModel, Model
<1> DEFINE changes == contract_diff(record[1].contract, Model.contract)
           keys == key_change(recorded_key(record[1]), effective_key(Model))
<1>3. ASSUME record # <<>>, contract_breaking_changes(record) = {}
      PROVE  breaking_contract_changes(changes) = {} /\ breaking_contract_changes(keys) = {}
  <2>1. contract_breaking_changes(record) = breaking_contract_changes(changes \cup keys)
    BY <1>3 DEF contract_breaking_changes, Model
  <2> HIDE DEF changes, keys
  <2> QED
    BY <1>3, <2>1 DEF breaking_contract_changes
<1>4. ASSUME breaking_contract_changes(keys) = {}
      PROVE  /\ recorded_key(record[1]) # Unknown
             /\ recorded_key(record[1])[2] # {} => recorded_key(record[1])[2] = effective_key(Model)
  <2> DEFINE known == recorded_key(record[1])
             own == effective_key(Model)
  <2> HIDE DEF known, own
  <2>1. \A kind : Change("", kind, "breaking") \notin key_change(known, own)
    <3>1. \A x \in key_change(known, own) : x.safety # "breaking"
      BY <1>4 DEF breaking_contract_changes, known, own
    <3>2. \A kind : Change("", kind, "breaking").safety = "breaking"
      BY DEF Change
    <3> QED
      BY <3>1, <3>2
  <2>2. known # Unknown /\ (known[2] # {} => known[2] = own)
    BY <2>1 DEF key_change
  <2> QED
    BY <2>2 DEF known, own
<1>5. ASSUME record # <<>>, breaking_contract_changes(changes) = {}, record[1].contract # NoContract
      PROVE  Model.contract # NoContract /\ GuaranteesKept(record[1].contract[1], Model.contract[1])
  BY <1>1, <1>2, <1>5, UnbrokenIsKept
<1> HIDE DEF record, now, was, renames, changes, keys
<1>6. LET Named(x) == {c.column : c \in x}
          broken == breaking_columns(compare_column_lists(now, was, renames))
          physical == Named(broken)
          apart == Named({c \in broken : c.kind # "nullability"})
          contract == Named(breaking_contract_changes(
                              contract_diff(Exact(was, <<>>), Exact(now, renames))))
          kept == DOMAIN now \cap DOMAIN was
          narrowed == {c \in kept : Narrowed(was[c].type, now[c].type)}
          standing == {n \in Resolved(renames, now, was) : renames[n] \in DOMAIN now}
      IN  /\ contract \ (narrowed \cup standing) = physical \ narrowed
          /\ forces_rebuild(now, was) <=> apart \cup narrowed # {}
  BY <1>1, BreaksAgree
<1> QED
  BY <1>3, <1>4, <1>5, <1>6 DEF BreaksAreSeen, record, now, was, renames

\* No guarantee of a contract is dropped unseen, and contract, table and
\* planner agree on what is breaking, for any columns, contracts and renames.
THEOREM BreaksAreSeenHolds == Spec => []BreaksAreSeen
<1> QED
  BY HeadsHold, BreaksFound, PTL

-----------------------------------------------------------------------------
(***************************************************************************)
(* Counts.                                                                 *)
(***************************************************************************)
LEMMA AsMany ==
    ASSUME NEW set, IsFiniteSet(set), NEW to, NEW f \in [set -> to],
           \A x, y \in set : f[x] = f[y] => x = y,
           \A z \in to : \E x \in set : f[x] = z
    PROVE  IsFiniteSet(to) /\ Cardinality(to) = Cardinality(set)
<1>1. f \in Injection(set, to) /\ f \in Surjection(set, to)
  BY DEF Injection, IsInjective, Surjection
<1> QED
  BY <1>1, FS_Surjection

KeyAt(rows, keys, i) == Projected(rows[i], ToSet(keys))

IsRows(rows, names) ==
    IsSequence(rows) /\ \A i \in DOMAIN rows : \A c \in names : rows[i][c] \in Nat

\* A key that identifies rows tells them apart.
LEMMA Identified ==
    ASSUME NEW rows, NEW keys, IsSequence(rows), IsSequence(keys), keys # <<>>,
           Identifies(keys, rows)
    PROVE  /\ IsFiniteSet(DOMAIN rows) /\ 0 \notin DOMAIN rows /\ Len(rows) \in Nat
           /\ IsFiniteSet(KeysOf(rows, keys)) /\ Cardinality(KeysOf(rows, keys)) = Len(rows)
           /\ KeysOf(rows, keys) = {KeyAt(rows, keys, i) : i \in DOMAIN rows}
           /\ \A i, j \in DOMAIN rows : KeyAt(rows, keys, i) = KeyAt(rows, keys, j) => i = j
           /\ \A i \in DOMAIN rows : rows[i][keys[1]] # 0
           /\ \A i \in DOMAIN rows : RowOf(rows, keys, KeyAt(rows, keys, i)) = rows[i]
           /\ keys[1] \in ToSet(keys)
<1> DEFINE f == [i \in DOMAIN rows |-> KeyAt(rows, keys, i)]
<1>1. DOMAIN rows = 1 .. Len(rows) /\ Len(rows) \in Nat
  BY SequenceIs
<1>2. IsFiniteSet(DOMAIN rows) /\ Cardinality(DOMAIN rows) = Len(rows)
  BY <1>1, FS_Interval
<1>3. KeysOf(rows, keys) = {KeyAt(rows, keys, i) : i \in DOMAIN rows}
  BY DEF KeysOf, KeyAt
<1>4. f \in Surjection(DOMAIN rows, KeysOf(rows, keys))
  BY <1>3 DEF Surjection
<1>5. Cardinality(KeysOf(rows, keys)) = Len(rows)
  BY DEF Identifies
<1>6. IsFiniteSet(KeysOf(rows, keys)) /\ f \in Injection(DOMAIN rows, KeysOf(rows, keys))
  BY <1>2, <1>4, <1>5, FS_Surjection
<1>7. \A i, j \in DOMAIN rows : KeyAt(rows, keys, i) = KeyAt(rows, keys, j) => i = j
  BY <1>6 DEF Injection, IsInjective
<1>8. keys[1] \in ToSet(keys)
  BY SequenceIs DEF ToSet
<1>9. ASSUME NEW i \in DOMAIN rows PROVE rows[i][keys[1]] # 0
  <2>1. KeyAt(rows, keys, i)[keys[1]] # 0
    BY <1>3 DEF Identifies
  <2> QED
    BY <1>8, <2>1 DEF KeyAt, Projected
<1>10. ASSUME NEW i \in DOMAIN rows PROVE RowOf(rows, keys, KeyAt(rows, keys, i)) = rows[i]
  <2>1. \A j \in DOMAIN rows : Projected(rows[j], ToSet(keys)) = KeyAt(rows, keys, i) => j = i
    BY <1>7 DEF KeyAt
  <2> QED
    BY <2>1 DEF RowOf, KeyAt
<1> QED
  BY <1>1, <1>2, <1>3, <1>5, <1>6, <1>7, <1>8, <1>9, <1>10

LEMMA MatchIs ==
    ASSUME NEW new, NEW old, NEW keys, NEW i, NEW j
    PROVE  (\A k \in ToSet(keys) : new[i][k] = old[j][k])
             <=> KeyAt(new, keys, i) = KeyAt(old, keys, j)
BY DEF KeyAt, Projected

LEMMA PredicateIs ==
    ASSUME NEW b \in Nat, NEW n \in Nat, NEW tolerance \in Nat
    PROVE  change_predicate(b, n, tolerance)
             <=> b # n /\ (0 \in {b, n} \/ b - n > tolerance \/ n - b > tolerance)
BY DEF change_predicate, Abs

\* The counts of a diff are those of the keys of the rows.
LEMMA CountsAre ==
    ASSUME NEW new, NEW old, NEW keys, NEW columns, NEW tolerance \in Nat,
           IsSequence(keys), keys # <<>>,
           IsRows(new, columns), IsRows(old, columns),
           Identifies(keys, new), Identifies(keys, old)
    PROVE  keyed_counts(new, old, keys, columns, tolerance)
             = TrueCounts(new, old, keys, columns, tolerance)
<1> DEFINE NewKey(i) == KeyAt(new, keys, i)
           OldKey(j) == KeyAt(old, keys, j)
           now == KeysOf(new, keys)
           was == KeysOf(old, keys)
           joined == FullJoin(new, old, keys)
           Lacks(table, i) == IF i = 0 THEN TRUE ELSE table[i][keys[1]] = 0
           both == {p \in joined : ~Lacks(new, p[1]) /\ ~Lacks(old, p[2])}
           Altered(p) == \E c \in columns : change_predicate(old[p[2]][c], new[p[1]][c], tolerance)
           modified == {p \in both : Altered(p)}
           came == {p \in joined : Lacks(old, p[2])}
           went == {p \in joined : Lacks(new, p[1])}
           pairs == {p \in (DOMAIN new) \X (DOMAIN old) : NewKey(p[1]) = OldKey(p[2])}
           alone == {i \in DOMAIN new : \A j \in DOMAIN old : NewKey(i) # OldKey(j)}
           left == {j \in DOMAIN old : \A i \in DOMAIN new : NewKey(i) # OldKey(j)}
           Differ(key) == \E c \in columns : DiffersIn(new, old, keys, key, c, tolerance)
           apart == {key \in was \cap now : Differ(key)}
<1>1. /\ IsFiniteSet(DOMAIN new) /\ 0 \notin DOMAIN new
      /\ now = {NewKey(i) : i \in DOMAIN new}
      /\ \A i, j \in DOMAIN new : NewKey(i) = NewKey(j) => i = j
      /\ \A i \in DOMAIN new : new[i][keys[1]] # 0
      /\ \A i \in DOMAIN new : RowOf(new, keys, NewKey(i)) = new[i]
  BY Identified DEF IsRows
<1>2. /\ IsFiniteSet(DOMAIN old) /\ 0 \notin DOMAIN old
      /\ was = {OldKey(j) : j \in DOMAIN old}
      /\ \A i, j \in DOMAIN old : OldKey(i) = OldKey(j) => i = j
      /\ \A i \in DOMAIN old : old[i][keys[1]] # 0
      /\ \A i \in DOMAIN old : RowOf(old, keys, OldKey(i)) = old[i]
  BY Identified DEF IsRows
<1>3. joined = pairs \cup {<<i, 0>> : i \in alone} \cup {<<0, j>> : j \in left}
  BY MatchIs DEF FullJoin, Rows
<1> HIDE DEF NewKey, OldKey, now, was, joined
<1>4. \A p \in pairs : p[1] \in DOMAIN new /\ p[2] \in DOMAIN old /\ p = <<p[1], p[2]>>
                     /\ NewKey(p[1]) = OldKey(p[2])
  OBVIOUS
<1>5. /\ \A p \in pairs : ~Lacks(new, p[1]) /\ ~Lacks(old, p[2])
      /\ \A i \in alone : ~Lacks(new, <<i, 0>>[1]) /\ Lacks(old, <<i, 0>>[2])
      /\ \A j \in left : Lacks(new, <<0, j>>[1]) /\ ~Lacks(old, <<0, j>>[2])
  BY <1>1, <1>2, <1>4
<1> HIDE DEF pairs, alone, left, Lacks
<1>6. came = {<<i, 0>> : i \in alone} /\ went = {<<0, j>> : j \in left} /\ both = pairs
  BY <1>3, <1>5
<1>7. IsFiniteSet(alone) /\ IsFiniteSet(left) /\ IsFiniteSet(pairs)
  <2>1. IsFiniteSet((DOMAIN new) \X (DOMAIN old))
    BY <1>1, <1>2, FS_Product
  <2> QED
    BY <1>1, <1>2, <2>1, FS_Subset DEF alone, left, pairs
<1>8. Cardinality(came) = Cardinality(now \ was)
  <2>1. Cardinality(came) = Cardinality(alone)
    <3> DEFINE f == [i \in alone |-> <<i, 0>>]
    <3>1. f \in [alone -> came] /\ \A z \in came : \E i \in alone : f[i] = z
      BY <1>6
    <3>2. \A i, j \in alone : f[i] = f[j] => i = j
      OBVIOUS
    <3> HIDE DEF f, came
    <3> QED
      BY <1>7, <3>1, <3>2, AsMany
  <2>2. Cardinality(now \ was) = Cardinality(alone)
    <3> DEFINE f == [i \in alone |-> NewKey(i)]
    <3>1. f \in [alone -> now \ was] /\ \A z \in now \ was : \E i \in alone : f[i] = z
      BY <1>1, <1>2 DEF alone
    <3>2. \A i, j \in alone : f[i] = f[j] => i = j
      BY <1>1 DEF alone
    <3> HIDE DEF f
    <3> QED
      BY <1>7, <3>1, <3>2, AsMany
  <2> QED
    BY <2>1, <2>2
<1>9. Cardinality(went) = Cardinality(was \ now)
  <2>1. Cardinality(went) = Cardinality(left)
    <3> DEFINE f == [j \in left |-> <<0, j>>]
    <3>1. f \in [left -> went] /\ \A z \in went : \E j \in left : f[j] = z
      BY <1>6
    <3>2. \A i, j \in left : f[i] = f[j] => i = j
      OBVIOUS
    <3> HIDE DEF f, went
    <3> QED
      BY <1>7, <3>1, <3>2, AsMany
  <2>2. Cardinality(was \ now) = Cardinality(left)
    <3> DEFINE f == [j \in left |-> OldKey(j)]
    <3>1. f \in [left -> was \ now] /\ \A z \in was \ now : \E j \in left : f[j] = z
      BY <1>1, <1>2 DEF left
    <3>2. \A i, j \in left : f[i] = f[j] => i = j
      BY <1>2 DEF left
    <3> HIDE DEF f
    <3> QED
      BY <1>7, <3>1, <3>2, AsMany
  <2> QED
    BY <2>1, <2>2
<1>10. \A p \in pairs : Altered(p) <=> Differ(OldKey(p[2]))
  <2>1. ASSUME NEW p \in pairs PROVE Altered(p) <=> Differ(OldKey(p[2]))
    <3>1. /\ RowOf(old, keys, OldKey(p[2])) = old[p[2]]
          /\ RowOf(new, keys, OldKey(p[2])) = new[p[1]]
          /\ p[1] \in DOMAIN new /\ p[2] \in DOMAIN old
      BY <1>1, <1>2, <1>4
    <3>2. \A c \in columns : old[p[2]][c] \in Nat /\ new[p[1]][c] \in Nat
      BY <3>1 DEF IsRows
    <3> QED
      BY <3>1, <3>2, PredicateIs DEF DiffersIn
  <2> QED
    BY <2>1
<1> HIDE DEF Altered, Differ
<1>11. Cardinality(modified) = Cardinality(apart)
  <2> DEFINE f == [p \in modified |-> OldKey(p[2])]
  <2>1. modified \subseteq pairs /\ IsFiniteSet(modified)
    BY <1>6, <1>7, FS_Subset
  <2>2. f \in [modified -> apart] /\ \A z \in apart : \E p \in modified : f[p] = z
    <3>1. ASSUME NEW p \in modified PROVE OldKey(p[2]) \in apart
      BY <1>1, <1>2, <1>4, <1>6, <1>10
    <3>2. ASSUME NEW z \in apart PROVE \E p \in modified : OldKey(p[2]) = z
      <4>1. PICK i \in DOMAIN new, j \in DOMAIN old : NewKey(i) = z /\ OldKey(j) = z
        BY <1>1, <1>2
      <4>2. <<i, j>> \in pairs
        BY <4>1 DEF pairs
      <4>3. <<i, j>> \in modified
        BY <1>6, <1>10, <4>1, <4>2
      <4> QED
        BY <4>1, <4>3
    <3> QED
      BY <3>1, <3>2
  <2>3. \A p, q \in modified : f[p] = f[q] => p = q
    <3>1. ASSUME NEW p \in modified, NEW q \in modified, f[p] = f[q] PROVE p = q
      <4>1. p[1] = q[1] /\ p[2] = q[2]
        BY <1>1, <1>2, <1>4, <2>1, <3>1
      <4> QED
        BY <1>4, <2>1, <4>1
    <3> QED
      BY <3>1
  <2> HIDE DEF f, modified, apart
  <2> QED
    BY <2>1, <2>2, <2>3, AsMany
<1>12. Cardinality(both \ modified) = Cardinality((was \cap now) \ apart)
  <2> DEFINE kept == both \ modified
             same == (was \cap now) \ apart
             f == [p \in kept |-> OldKey(p[2])]
  <2>1. kept \subseteq pairs /\ IsFiniteSet(kept)
    BY <1>6, <1>7, FS_Subset
  <2>2. f \in [kept -> same] /\ \A z \in same : \E p \in kept : f[p] = z
    <3>1. ASSUME NEW p \in kept PROVE OldKey(p[2]) \in same
      BY <1>1, <1>2, <1>4, <1>6, <1>10
    <3>2. ASSUME NEW z \in same PROVE \E p \in kept : OldKey(p[2]) = z
      <4>1. PICK i \in DOMAIN new, j \in DOMAIN old : NewKey(i) = z /\ OldKey(j) = z
        BY <1>1, <1>2
      <4>2. <<i, j>> \in pairs
        BY <4>1 DEF pairs
      <4>3. <<i, j>> \in kept
        BY <1>6, <1>10, <4>1, <4>2
      <4> QED
        BY <4>1, <4>3
    <3> QED
      BY <3>1, <3>2
  <2>3. \A p, q \in kept : f[p] = f[q] => p = q
    <3>1. ASSUME NEW p \in kept, NEW q \in kept, f[p] = f[q] PROVE p = q
      <4>1. p[1] = q[1] /\ p[2] = q[2]
        BY <1>1, <1>2, <1>4, <2>1, <3>1
      <4> QED
        BY <1>4, <2>1, <4>1
    <3> QED
      BY <3>1
  <2> HIDE DEF f, kept, same
  <2>4. Cardinality(kept) = Cardinality(same)
    BY <2>1, <2>2, <2>3, AsMany
  <2> QED
    BY <2>4 DEF kept, same
<1>13. keyed_counts(new, old, keys, columns, tolerance)
         = [added |-> Cardinality(came), removed |-> Cardinality(went),
            modified |-> Cardinality(modified), unchanged |-> Cardinality(both \ modified)]
  BY DEF keyed_counts, joined, Lacks, Altered
<1>14. TrueCounts(new, old, keys, columns, tolerance)
         = [added |-> Cardinality(now \ was), removed |-> Cardinality(was \ now),
            modified |-> Cardinality(apart), unchanged |-> Cardinality((was \cap now) \ apart)]
  BY DEF TrueCounts, now, was, Differ
<1> QED
  BY <1>8, <1>9, <1>11, <1>12, <1>13, <1>14

\* A column is listed exactly if it changed in a row with a key without NULL.
LEMMA ColumnsAre ==
    ASSUME NEW new, NEW old, NEW keys, NEW columns, NEW tolerance \in Nat,
           IsSequence(keys), keys # <<>>,
           IsRows(new, columns), IsRows(old, columns),
           Identifies(keys, new), Identifies(keys, old)
    PROVE  \A c \in columns :
              column_changed(new, old, keys, c, tolerance) > 0
                <=> ChangedIn(new, old, keys, c, tolerance) # {}
<1> TAKE c \in columns
<1> DEFINE NewKey(i) == KeyAt(new, keys, i)
           OldKey(j) == KeyAt(old, keys, j)
           Whole(p) == \A k \in ToSet(keys) : new[p[1]][k] = old[p[2]][k] /\ new[p[1]][k] # 0
           Altered(p) == change_predicate(old[p[2]][c], new[p[1]][c], tolerance)
           all == (DOMAIN new) \X (DOMAIN old)
           told == {p \in all : Whole(p) /\ Altered(p)}
           Filled(key) == \A k \in ToSet(keys) : key[k] # 0
<1>1. /\ IsFiniteSet(DOMAIN new) /\ KeysOf(new, keys) = {NewKey(i) : i \in DOMAIN new}
      /\ \A i \in DOMAIN new : RowOf(new, keys, NewKey(i)) = new[i]
  BY Identified DEF IsRows
<1>2. /\ IsFiniteSet(DOMAIN old) /\ KeysOf(old, keys) = {OldKey(j) : j \in DOMAIN old}
      /\ \A j \in DOMAIN old : RowOf(old, keys, OldKey(j)) = old[j]
  BY Identified DEF IsRows
<1>3. column_changed(new, old, keys, c, tolerance) > 0 <=> told # {}
  <2>1. column_changed(new, old, keys, c, tolerance) = Cardinality(told)
    BY DEF column_changed, Rows
  <2>2. IsFiniteSet(all) /\ told \subseteq all
    BY <1>1, <1>2, FS_Product
  <2> HIDE DEF told, all
  <2>3. IsFiniteSet(told)
    BY <2>2, FS_Subset
  <2>4. Cardinality(told) \in Nat /\ (Cardinality(told) = 0 <=> told = {})
    BY <2>3, FS_EmptySet, FS_CardinalityType
  <2> QED
    BY <2>1, <2>4
<1>4. ASSUME NEW p \in all
      PROVE  Whole(p) <=> NewKey(p[1]) = OldKey(p[2]) /\ Filled(OldKey(p[2]))
  <2>1. \A k \in ToSet(keys) : NewKey(p[1])[k] = new[p[1]][k] /\ OldKey(p[2])[k] = old[p[2]][k]
    BY DEF KeyAt, Projected
  <2>2. (\A k \in ToSet(keys) : new[p[1]][k] = old[p[2]][k]) <=> NewKey(p[1]) = OldKey(p[2])
    BY MatchIs
  <2> HIDE DEF NewKey, OldKey
  <2> QED
    BY <2>1, <2>2
<1> HIDE DEF NewKey, OldKey, Whole, Filled
<1>5. ASSUME NEW p \in all, NewKey(p[1]) = OldKey(p[2])
      PROVE  Altered(p) <=> DiffersIn(new, old, keys, OldKey(p[2]), c, tolerance)
  <2>1. p[1] \in DOMAIN new /\ p[2] \in DOMAIN old
    OBVIOUS
  <2>2. /\ RowOf(old, keys, OldKey(p[2])) = old[p[2]]
        /\ RowOf(new, keys, OldKey(p[2])) = new[p[1]]
    BY <1>1, <1>2, <1>5, <2>1
  <2>3. old[p[2]][c] \in Nat /\ new[p[1]][c] \in Nat
    BY <2>1 DEF IsRows
  <2> QED
    BY <2>2, <2>3, PredicateIs DEF DiffersIn
<1>6. ChangedIn(new, old, keys, c, tolerance)
        = {key \in KeysOf(old, keys) \cap KeysOf(new, keys) :
             Filled(key) /\ DiffersIn(new, old, keys, key, c, tolerance)}
  BY DEF ChangedIn, Filled
<1> HIDE DEF Altered
<1>7. ASSUME NEW p \in told PROVE ChangedIn(new, old, keys, c, tolerance) # {}
  <2>1. p \in all /\ p[1] \in DOMAIN new /\ p[2] \in DOMAIN old /\ Whole(p) /\ Altered(p)
    OBVIOUS
  <2>2. OldKey(p[2]) \in KeysOf(old, keys) \cap KeysOf(new, keys)
    BY <1>1, <1>2, <1>4, <2>1
  <2> QED
    BY <1>4, <1>5, <1>6, <2>1, <2>2
<1>8. ASSUME NEW key \in ChangedIn(new, old, keys, c, tolerance) PROVE told # {}
  <2>1. PICK i \in DOMAIN new, j \in DOMAIN old : key = NewKey(i) /\ key = OldKey(j)
    BY <1>1, <1>2, <1>6
  <2>2. <<i, j>> \in all /\ <<i, j>>[1] = i /\ <<i, j>>[2] = j
    OBVIOUS
  <2>3. Whole(<<i, j>>) /\ Altered(<<i, j>>)
    BY <1>4, <1>5, <1>6, <2>1, <2>2
  <2> QED
    BY <2>2, <2>3
<1> QED
  BY <1>3, <1>7, <1>8

\* A partition is reported if it has another number of rows.
LEMMA PartitionsAre ==
    ASSUME NEW new, NEW old, NEW column, IsSequence(new), IsSequence(old), NEW v, v # 0
    PROVE  LET partitions == partition_summary(new, old, column)
               InPart(rows) == Cardinality({i \in DOMAIN rows : rows[i][column] = v})
           IN  (InPart(new) # InPart(old))
                 <=> v \in partitions.added \cup partitions.removed \cup partitions.changed
<1> DEFINE At(rows) == {i \in DOMAIN rows : rows[i][column] = v}
           Values(rows) == {rows[i][column] : i \in DOMAIN rows}
<1>1. ASSUME NEW rows, IsSequence(rows)
      PROVE  /\ Cardinality(At(rows)) \in Nat
             /\ Cardinality(At(rows)) = 0 <=> v \notin Values(rows)
  <2>1. IsFiniteSet(DOMAIN rows)
    BY <1>1, SequenceIs, FS_Interval
  <2>2. IsFiniteSet(At(rows))
    BY <2>1, FS_Subset
  <2>3. v \notin Values(rows) <=> At(rows) = {}
    OBVIOUS
  <2> HIDE DEF At, Values
  <2> QED
    BY <2>2, <2>3, FS_EmptySet, FS_CardinalityType
<1>2. LET partitions == partition_summary(new, old, column)
      IN  v \in partitions.added \cup partitions.removed \cup partitions.changed
            <=> \/ v \in Values(new) \ Values(old)
                \/ v \in Values(old) \ Values(new)
                \/ /\ v \in Values(old) \cap Values(new)
                   /\ Cardinality(At(new)) # Cardinality(At(old))
  BY DEF partition_summary, Rows
<1> DEFINE n == Cardinality(At(new))
           o == Cardinality(At(old))
<1>3. n \in Nat /\ o \in Nat /\ (n = 0 <=> v \notin Values(new)) /\ (o = 0 <=> v \notin Values(old))
  BY <1>1
<1> HIDE DEF n, o, Values
<1> QED
  BY <1>2, <1>3 DEF n, o

LEMMA CountsFound == HeadsInv => CountsAreExact
<1> SUFFICES ASSUME HeadsInv, case.model # <<>>, model_keys(Model) # <<>> PROVE CountsAreExact
  BY DEF CountsAreExact
<1> DEFINE new == Current("dev").rows
           old == Current("main").rows
           keys == model_keys(Model)
           columns == Model.outputs \ ToSet(keys)
           policy == diff_policy(Model)
           found == diff(new, old, keys, columns, policy)
<1>1. IsRows(new, columns) /\ IsRows(old, columns)
  <2>1. /\ head["dev"] \in DOMAIN case.dev /\ head["main"] \in DOMAIN case.main
        /\ "dev" \in Candidates /\ "main" \notin Candidates
    BY DEF HeadsInv, Candidates
  <2>2. IsTable(Current("dev"), Model.outputs \cup ToSet(keys))
    BY <2>1, SidesAre DEF HeadsInv, Current
  <2>3. IsTable(Current("main"), Model.outputs \cup ToSet(keys))
    BY <2>1, SidesAre DEF HeadsInv, Current
  <2> QED
    BY <2>2, <2>3 DEF IsTable, IsRows
<1>2. IsSequence(keys) /\ keys # <<>> /\ policy.tolerance \in Nat
  <2>1. IsModel(Model)
    BY DEF HeadsInv, IsCase, Model
  <2>2. policy.tolerance \in Nat
    BY <2>1 DEF IsModel, diff_policy, NoPolicy
  <2> QED
    BY <2>1, <2>2 DEF IsModel
<1> HIDE DEF new, old, keys, policy
<1>3. /\ found.counts = keyed_counts(new, old, keys, columns, policy.tolerance)
      /\ found.delta = Len(new) - Len(old)
      /\ DOMAIN found.column_changes
            = {c \in columns : column_changed(new, old, keys, c, policy.tolerance) > 0}
  BY <1>2 DEF diff
<1> HIDE DEF columns, found
<1>4. ASSUME Identifies(keys, new), Identifies(keys, old)
      PROVE  /\ found.counts = TrueCounts(new, old, keys, columns, policy.tolerance)
             /\ found.delta = found.counts.added - found.counts.removed
             /\ DOMAIN found.column_changes =
                   {c \in columns : ChangedIn(new, old, keys, c, policy.tolerance) # {}}
  <2>1. found.counts = TrueCounts(new, old, keys, columns, policy.tolerance)
    BY <1>1, <1>2, <1>3, <1>4, CountsAre
  <2>2. found.delta = found.counts.added - found.counts.removed
    <3> DEFINE now == KeysOf(new, keys)
               was == KeysOf(old, keys)
    <3>1. /\ found.counts.added = Cardinality(now \ was)
          /\ found.counts.removed = Cardinality(was \ now)
      BY <2>1 DEF TrueCounts
    <3>2. /\ IsFiniteSet(now) /\ Cardinality(now) = Len(new) /\ Len(new) \in Nat
          /\ IsFiniteSet(was) /\ Cardinality(was) = Len(old) /\ Len(old) \in Nat
      BY <1>1, <1>2, <1>4, Identified DEF IsRows
    <3> HIDE DEF now, was
    <3>3. /\ Cardinality(now \ was) = Cardinality(now) - Cardinality(now \cap was)
          /\ Cardinality(was \ now) = Cardinality(was) - Cardinality(was \cap now)
      BY <3>2, FS_Difference
    <3>4. now \cap was = was \cap now
      OBVIOUS
    <3> DEFINE both == Cardinality(now \cap was)
    <3>5. both \in Nat
      BY <3>2, FS_Subset, FS_CardinalityType
    <3>6. found.counts.added = Len(new) - both /\ found.counts.removed = Len(old) - both
      BY <3>1, <3>2, <3>3, <3>4
    <3> HIDE DEF both
    <3> QED
      BY <1>3, <3>2, <3>5, <3>6
  <2>3. \A c \in columns : column_changed(new, old, keys, c, policy.tolerance) > 0
                              <=> ChangedIn(new, old, keys, c, policy.tolerance) # {}
    BY <1>1, <1>2, <1>4, ColumnsAre
  <2> QED
    BY <1>3, <2>1, <2>2, <2>3
<1>5. \A v \in 1 .. 3 :
         LET partitions == partition_summary(new, old, "part")
             InPart(rows, x) == Cardinality({i \in DOMAIN rows : rows[i]["part"] = x})
         IN  (InPart(new, v) # InPart(old, v)) <=>
               v \in partitions.added \cup partitions.removed \cup partitions.changed
  <2> SUFFICES ASSUME NEW v \in 1 .. 3
               PROVE  LET partitions == partition_summary(new, old, "part")
                          InPart(rows) == Cardinality({i \in DOMAIN rows : rows[i]["part"] = v})
                      IN  (InPart(new) # InPart(old)) <=>
                            v \in partitions.added \cup partitions.removed \cup partitions.changed
    OBVIOUS
  <2>1. IsSequence(new) /\ IsSequence(old) /\ v # 0
    BY <1>1 DEF IsRows
  <2> QED
    BY <2>1, PartitionsAre
<1> QED
  BY <1>4, <1>5 DEF CountsAreExact, new, old, keys, columns, policy, found

\* Where a key identifies rows, a diff counts those that came, went and
\* changed, for any tables, keys and tolerances.
THEOREM CountsAreExactHolds == Spec => []CountsAreExact
<1> QED
  BY HeadsHold, CountsFound, PTL

-----------------------------------------------------------------------------
(***************************************************************************)
(* Listings.  Rows in a strict order of their numbers are each listed      *)
(* once, in that order: the places are the numbers from 1.                 *)
(***************************************************************************)
Strict(order, numbers) ==
    /\ \A i \in numbers : <<i, i>> \notin order
    /\ \A i, j \in numbers : i # j => <<i, j>> \in order \/ <<j, i>> \in order
    /\ \A i, j, k \in numbers : <<i, j>> \in order /\ <<j, k>> \in order => <<i, k>> \in order

\* "listed" shows the rows of these numbers, and p is their order.
Lists(listed, rows, numbers, order, p) ==
    /\ p \in [DOMAIN listed -> numbers]
    /\ \A i \in numbers : \E n \in DOMAIN listed : p[n] = i
    /\ \A n \in DOMAIN listed : listed[n] = rows[p[n]]
    /\ \A m, n \in DOMAIN listed : m < n => <<p[m], p[n]>> \in order

Place(numbers, order, i) == 1 + Cardinality({j \in numbers : <<j, i>> \in order})

LEMMA PlacesAre ==
    ASSUME NEW numbers, IsFiniteSet(numbers), NEW order, Strict(order, numbers)
    PROVE  /\ \A i \in numbers : Place(numbers, order, i) \in 1 .. Cardinality(numbers)
           /\ \A n \in 1 .. Cardinality(numbers) :
                 \E i \in numbers : Place(numbers, order, i) = n
           /\ \A i, j \in numbers :
                 /\ Place(numbers, order, i) = Place(numbers, order, j) => i = j
                 /\ Place(numbers, order, i) < Place(numbers, order, j) => <<i, j>> \in order
<1> DEFINE N == Cardinality(numbers)
           Before(i) == {j \in numbers : <<j, i>> \in order}
           Nth(i) == Place(numbers, order, i)
           f == [i \in numbers |-> Nth(i)]
<1>1. N \in Nat /\ \A i : Nth(i) = 1 + Cardinality(Before(i))
  BY FS_CardinalityType DEF Place
<1>2. ASSUME NEW i \in numbers
      PROVE  IsFiniteSet(Before(i)) /\ Cardinality(Before(i)) \in Nat /\ Nth(i) \in 1 .. N
  <2>1. Before(i) \subseteq numbers /\ i \notin Before(i)
    BY DEF Strict
  <2>2. IsFiniteSet(Before(i)) /\ Cardinality(Before(i)) <= N /\ Cardinality(Before(i)) # N
    BY <2>1, FS_Subset
  <2>3. Cardinality(Before(i)) \in Nat
    BY <2>2, FS_CardinalityType
  <2> QED
    BY <1>1, <2>2, <2>3
<1>3. ASSUME NEW i \in numbers, NEW j \in numbers, <<i, j>> \in order
      PROVE  Nth(i) < Nth(j)
  <2>1. Before(i) \subseteq Before(j) /\ i \in Before(j) /\ i \notin Before(i)
    BY <1>3 DEF Strict
  <2>2. Cardinality(Before(i)) <= Cardinality(Before(j))
        /\ Cardinality(Before(i)) # Cardinality(Before(j))
    BY <1>2, <2>1, FS_Subset
  <2>3. Nth(i) = 1 + Cardinality(Before(i)) /\ Nth(j) = 1 + Cardinality(Before(j))
    BY <1>1
  <2>4. Cardinality(Before(i)) \in Nat /\ Cardinality(Before(j)) \in Nat
    BY <1>2
  <2> HIDE DEF Before, Nth
  <2> QED
    BY <2>2, <2>3, <2>4
<1> HIDE DEF Before, Nth
<1>4. ASSUME NEW i \in numbers, NEW j \in numbers
      PROVE  (Nth(i) = Nth(j) => i = j) /\ (Nth(i) < Nth(j) => <<i, j>> \in order)
  <2>1. i # j => <<i, j>> \in order \/ <<j, i>> \in order
    BY DEF Strict
  <2>2. Nth(i) \in Int /\ Nth(j) \in Int
    BY <1>1, <1>2
  <2> QED
    BY <1>3, <2>1, <2>2
<1>5. f \in Injection(numbers, 1 .. N)
  BY <1>2, <1>4 DEF Injection, IsInjective
<1>6. IsFiniteSet(1 .. N) /\ Cardinality(1 .. N) = N
  BY <1>1, FS_Interval
<1>7. f \in Surjection(numbers, 1 .. N)
  BY <1>5, <1>6, FS_Injection
<1>8. \A n \in 1 .. N : \E i \in numbers : Nth(i) = n
  BY <1>7 DEF Surjection
<1> QED
  BY <1>2, <1>4, <1>8 DEF Nth

\* Each place has one row, in the store too.
LEMMA StoreInOrder ==
    ASSUME NEW rows, NEW numbers, IsFiniteSet(numbers), NEW order, Strict(order, numbers)
    PROVE  S!InOrder(rows, numbers, order) = InOrder(rows, numbers, order)
<1>1. \A set : S!Cardinality(set) = Cardinality(set)
  BY DEF S!Cardinality, Cardinality
<1> DEFINE N == Cardinality(numbers)
           Before(i) == {j \in numbers : <<j, i>> \in order}
           Here(n) == CHOOSE i \in numbers : 1 + Cardinality(Before(i)) = n
           InS(n) == CHOOSE i \in numbers : 1 + S!Cardinality(Before(i)) = n
<1>2. ASSUME NEW n \in 1 .. N PROVE InS(n) = Here(n)
  <2>1. PICK i \in numbers : 1 + Cardinality(Before(i)) = n
    BY PlacesAre DEF Place
  <2>2. \A j \in numbers : 1 + Cardinality(Before(j)) = n => j = i
    <3>1. \A j : 1 + Cardinality(Before(j)) = Place(numbers, order, j)
      BY DEF Place
    <3>2. \A j \in numbers : Place(numbers, order, j) = Place(numbers, order, i) => j = i
      BY PlacesAre
    <3> HIDE DEF Before
    <3> QED
      BY <2>1, <3>1, <3>2
  <2> HIDE DEF Before
  <2>3. Here(n) = i
    BY <2>1, <2>2
  <2>4. InS(n) = i
    BY <1>1, <2>1, <2>2
  <2> QED
    BY <2>3, <2>4
<1> HIDE DEF Here, InS
<1>3. InOrder(rows, numbers, order) = [n \in 1 .. N |-> rows[Here(n)]]
  BY DEF InOrder, Here
<1>4. S!InOrder(rows, numbers, order) = [n \in 1 .. S!Cardinality(numbers) |-> rows[InS(n)]]
  BY DEF S!InOrder, InS
<1> QED
  BY <1>1, <1>2, <1>3, <1>4

LEMMA InOrderIs ==
    ASSUME NEW rows, NEW numbers, IsFiniteSet(numbers), NEW order, Strict(order, numbers)
    PROVE  \E p : Lists(InOrder(rows, numbers, order), rows, numbers, order, p)
<1> DEFINE N == Cardinality(numbers)
           p == [n \in 1 .. N |-> CHOOSE i \in numbers : Place(numbers, order, i) = n]
<1>1. InOrder(rows, numbers, order) = [n \in 1 .. N |-> rows[p[n]]]
  BY DEF InOrder, Place
<1>2. \A n \in 1 .. N : p[n] \in numbers /\ Place(numbers, order, p[n]) = n
  BY PlacesAre
<1>3. \A i \in numbers : p[Place(numbers, order, i)] = i
  BY <1>2, PlacesAre
<1>4. \A m, n \in 1 .. N : m < n => <<p[m], p[n]>> \in order
  BY <1>2, PlacesAre
<1>5. Lists(InOrder(rows, numbers, order), rows, numbers, order, p)
  BY <1>1, <1>2, <1>3, <1>4, PlacesAre DEF Lists
<1> QED
  BY <1>5

\* Statements that keep the order of the rows.
LEMMA OnlyIs ==
    ASSUME NEW rows, NEW numbers, IsFiniteSet(numbers), numbers \subseteq Int
    PROVE  /\ ToSet(Only(rows, numbers)) = {rows[i] : i \in numbers}
           /\ S!Only(rows, numbers) = Only(rows, numbers)
<1> DEFINE order == {q \in numbers \X numbers : q[1] < q[2]}
<1>1. Strict(order, numbers)
  BY DEF Strict
<1>2. PICK p : Lists(Only(rows, numbers), rows, numbers, order, p)
  BY <1>1, InOrderIs DEF Only
<1>3. ToSet(Only(rows, numbers)) = {rows[i] : i \in numbers}
  <2> HIDE DEF order
  <2>1. /\ \A n \in DOMAIN Only(rows, numbers) : p[n] \in numbers
        /\ \A n \in DOMAIN Only(rows, numbers) : Only(rows, numbers)[n] = rows[p[n]]
        /\ \A i \in numbers : \E n \in DOMAIN Only(rows, numbers) : p[n] = i
    BY <1>2 DEF Lists
  <2>2. ToSet(Only(rows, numbers)) \subseteq {rows[i] : i \in numbers}
    BY <2>1 DEF ToSet
  <2>3. \A i \in numbers : rows[i] \in ToSet(Only(rows, numbers))
    BY <2>1 DEF ToSet
  <2> QED
    BY <2>2, <2>3
<1> QED
  BY <1>1, <1>3, StoreInOrder DEF Only, S!Only

Dated(stamp) == stamp.nano \in Nat \ {0} /\ stamp.text \in Nat

DatedRows(rows, stamp) ==
    /\ \E n \in Nat : DOMAIN rows = 1 .. n
    /\ \A i \in DOMAIN rows : Dated(rows[i][stamp])

\* A listing has every row, the newest first.
LEMMA NewestIs ==
    ASSUME NEW rows, NEW stamp, DatedRows(rows, stamp)
    PROVE  LET listed == newest_first(rows, stamp)
           IN  /\ \E n \in Nat : DOMAIN listed = 1 .. n
               /\ ToSet(listed) = ToSet(rows)
               /\ \A m, n \in DOMAIN listed :
                     m < n => listed[m][stamp].nano >= listed[n][stamp].nano
               /\ S!newest_first(rows, stamp) = listed
<1> DEFINE listed == newest_first(rows, stamp)
           At(i) == rows[i][stamp]
           Newer(i, j) ==
              \/ cmp_rfc3339(At(i), At(j)) > 0
              \/ /\ cmp_rfc3339(At(i), At(j)) = 0
                 /\ At(i).text > At(j).text \/ (At(i).text = At(j).text /\ i > j)
           order == {q \in (DOMAIN rows) \X (DOMAIN rows) : Newer(q[1], q[2])}
<1>1. PICK count \in Nat : DOMAIN rows = 1 .. count
  BY DEF DatedRows
<1>2. IsFiniteSet(DOMAIN rows) /\ \A i \in DOMAIN rows : i \in Int
  BY <1>1, FS_Interval
<1>3. \A i, j \in DOMAIN rows : /\ At(i).nano \in Int /\ At(i).text \in Int
                                /\ cmp_rfc3339(At(i), At(j)) = At(i).nano - At(j).nano
  BY DEF DatedRows, Dated, Parsed, cmp_rfc3339
<1>4. \A i, j \in DOMAIN rows : <<i, j>> \in order <=> Newer(i, j)
  OBVIOUS
<1> HIDE DEF order, At
<1>5. Strict(order, DOMAIN rows)
  <2>1. \A i \in DOMAIN rows : <<i, i>> \notin order
    BY <1>2, <1>3, <1>4
  <2>2. \A i, j \in DOMAIN rows : i # j => <<i, j>> \in order \/ <<j, i>> \in order
    BY <1>2, <1>3, <1>4
  <2>3. ASSUME NEW i \in DOMAIN rows, NEW j \in DOMAIN rows, NEW k \in DOMAIN rows,
               Newer(i, j), Newer(j, k)
        PROVE  Newer(i, k)
    BY <1>2, <1>3, <2>3
  <2> QED
    BY <1>4, <2>1, <2>2, <2>3 DEF Strict
<1>6. listed = InOrder(rows, DOMAIN rows, order)
  BY DEF newest_first, ByText, order, At
<1>7. PICK p : Lists(listed, rows, DOMAIN rows, order, p)
  BY <1>2, <1>5, <1>6, InOrderIs
<1>8. \E n \in Nat : DOMAIN listed = 1 .. n
  <2>1. Cardinality(DOMAIN rows) \in Nat
    BY <1>2, FS_CardinalityType
  <2> QED
    BY <1>6, <2>1 DEF InOrder
<1> HIDE DEF listed
<1>9. ToSet(listed) = ToSet(rows)
  BY <1>7 DEF Lists, ToSet
<1>10. ASSUME NEW m \in DOMAIN listed, NEW n \in DOMAIN listed, m < n
       PROVE  listed[m][stamp].nano >= listed[n][stamp].nano
  <2>1. /\ p[m] \in DOMAIN rows /\ p[n] \in DOMAIN rows /\ Newer(p[m], p[n])
        /\ listed[m][stamp] = At(p[m]) /\ listed[n][stamp] = At(p[n])
    BY <1>4, <1>7, <1>10 DEF Lists, At
  <2> QED
    BY <1>3, <2>1
<1>11. \A a, b : S!cmp_rfc3339(a, b) = cmp_rfc3339(a, b)
  BY DEF S!cmp_rfc3339, S!Parsed, cmp_rfc3339, Parsed
<1>12. S!newest_first(rows, stamp) = S!InOrder(rows, DOMAIN rows, order)
  BY <1>11 DEF S!newest_first, S!ByText, order, At
<1>13. S!newest_first(rows, stamp) = listed
  BY <1>2, <1>5, <1>6, <1>12, StoreInOrder
<1> QED
  BY <1>8, <1>9, <1>10, <1>13 DEF listed

LEMMA OnlyDated ==
    ASSUME NEW rows, NEW stamp, DatedRows(rows, stamp), NEW numbers \in SUBSET DOMAIN rows
    PROVE  /\ DatedRows(Only(rows, numbers), stamp) /\ IsSequence(Only(rows, numbers))
           /\ ToSet(Only(rows, numbers)) = {rows[i] : i \in numbers}
           /\ S!Only(rows, numbers) = Only(rows, numbers)
<1>1. PICK count \in Nat : DOMAIN rows = 1 .. count
  BY DEF DatedRows
<1>2. IsFiniteSet(numbers) /\ numbers \subseteq Int
  BY <1>1, FS_Interval, FS_Subset
<1>3. ToSet(Only(rows, numbers)) = {rows[i] : i \in numbers}
  BY <1>2, OnlyIs
<1>4. PICK n \in Nat : Only(rows, numbers) = [m \in 1 .. n |-> Only(rows, numbers)[m]]
  <2>1. Cardinality(numbers) \in Nat
    BY <1>2, FS_CardinalityType
  <2> QED
    BY <2>1 DEF Only, InOrder
<1>6. Only(rows, numbers) \in Seq({Only(rows, numbers)[m] : m \in 1 .. n})
  BY <1>4
<1>5. \A i \in DOMAIN Only(rows, numbers) : \E j \in DOMAIN rows : Only(rows, numbers)[i] = rows[j]
  BY <1>3 DEF ToSet
<1> QED
  BY <1>2, <1>3, <1>4, <1>5, <1>6, OnlyIs DEF DatedRows, IsSequence, ToSet

\* What the store lists of a kind and a subject.
LEMMA ListedIs ==
    ASSUME NEW db, DatedRows(db.evidence, "created_at"), NEW kind, NEW subject
    PROVE  LET listed == S!evidence_for(db, kind, subject)
           IN  /\ IsSequence(listed) /\ DatedRows(listed, "created_at")
               /\ ToSet(listed) = {e \in ToSet(db.evidence) : e.kind = kind /\ e.subject = subject}
               /\ \A m, n \in DOMAIN listed :
                     m < n => listed[m].created_at.nano >= listed[n].created_at.nano
<1> DEFINE rows == db.evidence
           numbers == Where(rows, "kind", kind) \cap Where(rows, "subject", subject)
           chosen == Only(rows, numbers)
           listed == newest_first(chosen, "created_at")
<1>1. numbers \subseteq DOMAIN rows
  BY DEF Where
<1>2. /\ DatedRows(chosen, "created_at") /\ ToSet(chosen) = {rows[i] : i \in numbers}
      /\ S!Only(rows, numbers) = chosen
  BY <1>1, OnlyDated
<1>3. /\ \E n \in Nat : DOMAIN listed = 1 .. n
      /\ ToSet(listed) = ToSet(chosen)
      /\ \A m, n \in DOMAIN listed :
            m < n => listed[m].created_at.nano >= listed[n].created_at.nano
      /\ S!newest_first(chosen, "created_at") = listed
  BY <1>2, NewestIs
<1>4. S!evidence_for(db, kind, subject) = listed
  <2>1. \A column, value : S!Where(rows, column, value) = Where(rows, column, value)
    BY DEF S!Where, Where
  <2> QED
    BY <1>2, <1>3, <2>1 DEF S!evidence_for
<1>5. ToSet(chosen) = {e \in ToSet(rows) : e.kind = kind /\ e.subject = subject}
  BY <1>2 DEF ToSet, Where
<1> HIDE DEF listed, chosen, numbers
<1>6. \A n \in DOMAIN listed : listed[n] \in ToSet(listed)
  BY DEF ToSet
<1>7. \A e \in ToSet(rows) : Dated(e["created_at"])
  BY DEF DatedRows, ToSet
<1>8. DatedRows(listed, "created_at")
  BY <1>3, <1>5, <1>6, <1>7 DEF DatedRows
<1>9. IsSequence(listed)
  <2>1. listed = [n \in DOMAIN listed |-> listed[n]]
    BY DEF listed, newest_first, InOrder
  <2> QED
    BY <1>3, <2>1, <1>6 DEF IsSequence
<1> QED
  BY <1>3, <1>4, <1>5, <1>8, <1>9
-----------------------------------------------------------------------------
(***************************************************************************)
(* What a report of a branch diff is good for.                             *)
(***************************************************************************)
Found(side, lost, read) ==
    /\ side.exists
    /\ case.model # <<>> \/ side.record # <<>>
    /\ lost # read

Shown(side, lost, exists, columns) ==
    IF Found(side, lost, exists) /\ lost # columns THEN side.schema ELSE <<>>

Renames == IF case.model = <<>> \/ Model.contract = NoContract THEN <<>>
           ELSE Model.contract[1].renames

ModelKeys == IF case.model = <<>> THEN <<>> ELSE model_keys(Model)

\* What the candidate is read from.
Read(own, old) == IF case.same THEN [old EXCEPT !.record = own.record] ELSE own

\* Whether rows are compared, and how that ends.
Compared(new, old, deep, lost) ==
    /\ deep
    /\ Found(new, lost, "new_exists") /\ Found(old, lost, "old_exists")
    /\ Changed(new, old)
    /\ case.model # <<>>
    /\ ModelKeys # <<>> \/ Model.policy # <<>>

Measured(new, old) ==
    Assigned(diff(new.rows, old.rows, ModelKeys, Model.outputs \ ToSet(ModelKeys),
                  diff_policy(Model)), [same_relation |-> case.same])

\* What is reported of a pair, whose tables are these.
Reports(r, pair, bound, deep, lost, new, old) ==
    /\ r.candidate_ref = pair[1] /\ r.base_ref = pair[2]
    /\ r.candidate_hash = IF bound THEN <<head[pair[1]]>> ELSE <<>>
    /\ r.base_hash = IF bound THEN <<head[pair[2]]>> ELSE <<>>
    /\ r.changes = compare_column_lists(Shown(new, lost, "new_exists", "new_columns"),
                                        Shown(old, lost, "old_exists", "old_columns"), Renames)
    /\ r.deep = deep /\ r.lost = lost
    /\ r.passed = (r.diffs = <<>> \/ r.diffs[1].passed)
    /\ ~Compared(new, old, deep, lost) => r.diffs = <<>>
    /\ Compared(new, old, deep, lost) /\ ~r.failed => r.diffs = <<Measured(new, old)>>

LEMMA ReportIs ==
    ASSUME NEW pair, NEW bound, NEW deep, NEW lost
    PROVE  LET old == Current(pair[2])
               new == Read(Current(pair[1]), old)
           IN  Reports(branch_diff(pair, bound, deep, lost), pair, bound, deep, lost, new, old)
<1> DEFINE old == Current(pair[2])
           new == Read(Current(pair[1]), old)
           model == case.model
           There(side, read) == /\ side.exists
                                /\ model # <<>> \/ side.record # <<>>
                                /\ lost # read
           there == <<There(new, "new_exists"), There(old, "old_exists")>>
           Columns(side, present, read) == IF present /\ lost # read THEN side.schema ELSE <<>>
           renames == IF model = <<>> \/ model[1].contract = NoContract THEN <<>>
                      ELSE model[1].contract[1].renames
           keys == IF model = <<>> THEN <<>> ELSE model_keys(model[1])
           compared == deep /\ there = <<TRUE, TRUE>> /\ Changed(new, old) /\ model # <<>>
                         /\ (keys # <<>> \/ model[1].policy # <<>>)
           columns == IF compared THEN model[1].outputs \ ToSet(keys) ELSE {}
           readable == keys = <<>> \/ columns \cup ToSet(keys) \subseteq
                                         DOMAIN new.schema \cap DOMAIN old.schema
           diffs == IF compared /\ readable
                      THEN <<Assigned(diff(new.rows, old.rows, keys, columns, diff_policy(model[1])),
                                      [same_relation |-> case.same])>>
                      ELSE <<>>
           changes == compare_column_lists(Columns(new, there[1], "new_columns"),
                                           Columns(old, there[2], "old_columns"), renames)
           listed == model # <<>> \/ new.record # <<>> \/ old.record # <<>>
           versions == <<Version(new), Version(old)>>
           failed == compared /\ ~readable
           passed == diffs = <<>> \/ diffs[1].passed
           r == branch_diff(pair, bound, deep, lost)
<1>1. r = [failed |-> failed,
           candidate_ref |-> pair[1], base_ref |-> pair[2],
           candidate_hash |-> IF bound THEN <<head[pair[1]]>> ELSE <<>>,
           base_hash |-> IF bound THEN <<head[pair[2]]>> ELSE <<>>,
           listed |-> listed, versions |-> versions, changes |-> changes,
           diffs |-> diffs, deep |-> deep, passed |-> passed, lost |-> lost]
  BY DEF branch_diff, Read
<1>2. changes = compare_column_lists(Shown(new, lost, "new_exists", "new_columns"),
                                     Shown(old, lost, "old_exists", "old_columns"), Renames)
  BY DEF Shown, Found, Renames, Model
<1>3. compared <=> Compared(new, old, deep, lost)
  <2>1. keys = ModelKeys /\ model[1] = Model
    BY DEF ModelKeys, Model
  <2>2. there = <<TRUE, TRUE>> <=> Found(new, lost, "new_exists") /\ Found(old, lost, "old_exists")
    BY DEF Found
  <2> HIDE DEF there, keys, new, old
  <2> QED
    BY <2>1, <2>2 DEF Compared
<1>4. ~compared => diffs = <<>>
  <2> HIDE DEF compared, readable
  <2> QED
    OBVIOUS
<1>5. compared /\ ~failed => diffs = <<Measured(new, old)>>
  <2>1. keys = ModelKeys /\ model[1] = Model
    BY DEF ModelKeys, Model
  <2>2. compared => columns = Model.outputs \ ToSet(ModelKeys)
    <3> HIDE DEF compared, keys
    <3> QED
      BY <2>1
  <2> HIDE DEF compared, readable, columns, keys, new, old
  <2> QED
    BY <2>1, <2>2 DEF Measured
<1> HIDE DEF r, failed, listed, versions, changes, diffs, passed, new, old, compared
<1>6. /\ r.candidate_ref = pair[1] /\ r.base_ref = pair[2] /\ r.changes = changes
      /\ r.candidate_hash = IF bound THEN <<head[pair[1]]>> ELSE <<>>
      /\ r.base_hash = IF bound THEN <<head[pair[2]]>> ELSE <<>>
      /\ r.deep = deep /\ r.lost = lost /\ r.diffs = diffs /\ r.failed = failed
      /\ r.passed = passed
  BY <1>1
<1>7. passed = (diffs = <<>> \/ diffs[1].passed)
  BY DEF passed
<1> QED
  BY <1>2, <1>3, <1>4, <1>5, <1>6, <1>7 DEF Reports, r, new, old

\* What two tables are compared without a break for.
LEMMA UnbrokenColumns ==
    ASSUME NEW now, NEW was, NEW renames, IsColumns(now), IsColumns(was),
           breaking_columns(compare_column_lists(now, was, renames)) = {}
    PROVE  \A c \in DOMAIN was :
              /\ c \in DOMAIN now
              /\ c \in Broken(now, was) => Tolerated(now, was, c)
<1>1. ASSUME NEW c
      PROVE  /\ c \in Resolved(renames, now, was) => renames[c] \in DOMAIN now
             /\ c \notin Gone(now, was, renames)
             /\ c \in Retyped(now, was) => Numbers(now, was, c)
             /\ c \notin Loosens(now, was)
  <2>1. ~ \E x \in breaking_columns(compare_column_lists(now, was, renames)) : x.column = c
    OBVIOUS
  <2> QED
    BY <2>1, PhysicalBreaks
<1>2. ASSUME NEW c \in DOMAIN was PROVE c \in DOMAIN now
  <2>1. \A n \in Resolved(renames, now, was) : renames[n] \in DOMAIN now
    BY <1>1
  <2>2. c \notin DOMAIN now => c \in Away(now, was, renames)
    BY <1>1 DEF Gone
  <2> QED
    BY <2>1, <2>2 DEF Away
<1>3. ASSUME NEW c \in DOMAIN was, c \in Broken(now, was) PROVE Tolerated(now, was, c)
  <2> DEFINE a == now[c].type
             b == was[c].type
  <2>1. c \in DOMAIN now
    BY <1>2
  <2>2. now[c].nullable => was[c].nullable
    BY <1>1, <2>1 DEF Loosens
  <2>3. a # b /\ ~Widens(a, b)
    BY <1>3, <2>1, <2>2 DEF Broken
  <2>4. Narrowed(b, a) \/ Confused(b, a)
    <3>1. CASE c \in Retyped(now, was)
      <4>1. Numbers(now, was, c) /\ ~Wider(now, was, c)
        BY <1>1, <2>3, <3>1, WidensParsed DEF Wider
      <4> QED
        BY <2>1, <3>1, <4>1, NarrowedIs
    <3>2. CASE c \notin Retyped(now, was)
      BY <2>1, <2>3, <3>2 DEF Retyped, Confused
    <3> QED
      BY <3>1, <3>2
  <2> QED
    BY <2>1, <2>2, <2>4 DEF Tolerated
<1> QED
  BY <1>2, <1>3

\* A report without a break, whose rows were compared or had not to be.
Clean(r) ==
    /\ breaking_columns(r.changes) = {}
    /\ r.deep \/ r.diffs # <<>>
    /\ r.diffs = <<>> \/ ~r.diffs[1].same_relation

ColumnsStand(r, new, old) ==
    ( /\ old.exists /\ ~case.same
      /\ case.model # <<>> \/ old.record # <<>>
      /\ r.lost \notin {"old_exists", "old_columns"} ) =>
        \A c \in Broken(new.schema, old.schema) :
            new.exists /\ Tolerated(new.schema, old.schema, c)

RowsStand(r, new, old) ==
    LET keys == model_keys(Model)
        columns == Model.outputs \ ToSet(keys)
    IN  ( /\ case.model # <<>> /\ Model.policy # <<>> /\ keys # <<>>
          /\ new.exists /\ old.exists /\ (case.same => new.record # <<>>)
          /\ r.lost # "old_exists" /\ Changed(new, old)
          /\ Identifies(keys, new.rows) /\ Identifies(keys, old.rows)
          /\ r.passed ) =>
            evaluate_policy(Model.policy[1], keys, Len(old.rows),
                TrueCounts(new.rows, old.rows, keys, columns, Model.policy[1].tolerance))

TableNames == IF case.model = <<>> THEN {} ELSE Model.outputs \cup ToSet(model_keys(Model))

LEMMA EmptyIs == DOMAIN <<>> = {} /\ IsColumns(<<>>)
<1>1. DOMAIN <<>> = {}
  OBVIOUS
<1> QED
  BY <1>1 DEF IsColumns

LEMMA ColumnsAreSound ==
    ASSUME NEW new, NEW old, IsTable(new, TableNames), IsTable(old, TableNames), NEW lost, NEW r,
           r.lost = lost, breaking_columns(r.changes) = {}, ~case.same,
           r.changes = compare_column_lists(Shown(new, lost, "new_exists", "new_columns"),
                                            Shown(old, lost, "old_exists", "old_columns"), Renames)
    PROVE  ColumnsStand(r, new, old)
<1> SUFFICES ASSUME old.exists, case.model # <<>> \/ old.record # <<>>,
                    lost \notin {"old_exists", "old_columns"}, NEW c \in Broken(new.schema, old.schema)
             PROVE  new.exists /\ Tolerated(new.schema, old.schema, c)
  BY DEF ColumnsStand
<1> DEFINE now == Shown(new, lost, "new_exists", "new_columns")
           was == Shown(old, lost, "old_exists", "old_columns")
<1>1. was = old.schema
  BY DEF Shown, Found
<1>2. now = <<>> \/ (now = new.schema /\ new.exists)
  BY DEF Shown, Found
<1>3. IsColumns(now) /\ IsColumns(was)
  BY <1>1, <1>2, EmptyIs DEF IsTable, IsColumns
<1>4. c \in DOMAIN was
  BY <1>1 DEF Broken
<1> HIDE DEF now, was
<1>5. /\ c \in DOMAIN now
      /\ c \in Broken(now, was) => Tolerated(now, was, c)
  BY <1>3, <1>4, UnbrokenColumns DEF now, was
<1>6. now = new.schema /\ new.exists
  BY <1>2, <1>5, EmptyIs
<1> QED
  BY <1>1, <1>5, <1>6

LEMMA MeasuredIs ==
    ASSUME NEW new, NEW old, IsCase(case), case.model # <<>>, Model.policy # <<>>,
           ModelKeys # <<>>, IsTable(new, TableNames), IsTable(old, TableNames),
           Identifies(ModelKeys, new.rows), Identifies(ModelKeys, old.rows)
    PROVE  /\ Measured(new, old).same_relation = case.same
           /\ Measured(new, old).passed =
                evaluate_policy(Model.policy[1], ModelKeys, Len(old.rows),
                    TrueCounts(new.rows, old.rows, ModelKeys, Model.outputs \ ToSet(ModelKeys),
                               Model.policy[1].tolerance))
<1> DEFINE keys == ModelKeys
           columns == Model.outputs \ ToSet(keys)
           policy == Model.policy[1]
           d == diff(new.rows, old.rows, keys, columns, policy)
<1>1. IsModel(Model) /\ keys = model_keys(Model)
  BY DEF IsCase, Model, ModelKeys
<1>2. IsSequence(keys) /\ policy.tolerance \in Nat /\ diff_policy(Model) = policy
  BY <1>1 DEF IsModel, diff_policy
<1>3. IsRows(new.rows, columns) /\ IsRows(old.rows, columns)
  <2>1. columns \subseteq TableNames
    BY <1>1 DEF TableNames
  <2> QED
    BY <2>1 DEF IsTable, IsRows
<1> HIDE DEF keys, columns, policy
<1>4. keyed_counts(new.rows, old.rows, keys, columns, policy.tolerance)
        = TrueCounts(new.rows, old.rows, keys, columns, policy.tolerance)
  BY <1>2, <1>3, CountsAre DEF keys
<1>5. /\ DOMAIN d = {"counts", "delta", "column_changes", "passed"}
      /\ d.passed = evaluate_policy(policy, keys, Len(old.rows),
                       TrueCounts(new.rows, old.rows, keys, columns, policy.tolerance))
  BY <1>4 DEF diff, keys
<1> HIDE DEF d
<1>6. Measured(new, old) = Assigned(d, [same_relation |-> case.same])
  BY <1>2 DEF Measured, d, keys, columns
<1>7. /\ Assigned(d, [same_relation |-> case.same]).same_relation = case.same
      /\ Assigned(d, [same_relation |-> case.same]).passed = d.passed
  BY <1>5 DEF Assigned
<1> QED
  BY <1>5, <1>6, <1>7 DEF keys, columns, policy

\* A report without a break, made at some heads, proves what it says of them.
LEMMA ReportIsSound ==
    ASSUME HeadsInv, NEW pair \in case.pairs, NEW bound \in BOOLEAN, NEW deep \in BOOLEAN, NEW lost,
           NEW r, r = branch_diff(pair, bound, deep, lost), ~r.failed, Clean(r)
    PROVE  /\ ColumnsStand(r, Current(pair[1]), Current(pair[2]))
           /\ RowsStand(r, Current(pair[1]), Current(pair[2]))
<1> DEFINE own == Current(pair[1])
           old == Current(pair[2])
           new == Read(own, old)
           now == Shown(new, lost, "new_exists", "new_columns")
           was == Shown(old, lost, "old_exists", "old_columns")
<1>1. IsTable(own, TableNames) /\ IsTable(old, TableNames)
  <2>1. /\ pair[1] \in Candidates /\ pair[2] \notin Candidates
        /\ pair[1] \in {"dev", "exp"} /\ pair[2] \in {"main", "release"}
    BY DEF HeadsInv, IsCase, Candidates
  <2>2. head[pair[1]] \in DOMAIN case.dev /\ head[pair[2]] \in DOMAIN case.main
    BY <2>1 DEF HeadsInv
  <2> QED
    BY <2>1, <2>2, SidesAre DEF HeadsInv, Current, TableNames
<1>2. /\ r.changes = compare_column_lists(now, was, Renames) /\ r.lost = lost /\ r.deep = deep
      /\ r.passed = (r.diffs = <<>> \/ r.diffs[1].passed)
      /\ ~Compared(new, old, deep, lost) => r.diffs = <<>>
      /\ Compared(new, old, deep, lost) => r.diffs = <<Measured(new, old)>>
  <2>1. Reports(r, pair, bound, deep, lost, new, old)
    BY ReportIs
  <2> HIDE DEF new, old
  <2> QED
    BY <2>1 DEF Reports
<1>3. /\ ~case.same => new = own
      /\ case.same => /\ new.exists = old.exists /\ new.schema = old.schema
                      /\ new.rows = old.rows /\ new.record = own.record
  BY <1>1 DEF Read, IsTable
<1> HIDE DEF own, old, new
<1>4. ColumnsStand(r, own, old)
  <2>1. CASE case.same
    BY <2>1 DEF ColumnsStand
  <2>2. CASE ~case.same
    BY <1>1, <1>2, <1>3, <2>2, ColumnsAreSound DEF Clean
  <2> QED
    BY <2>1, <2>2
<1>5. RowsStand(r, own, old)
  <2> SUFFICES ASSUME case.model # <<>>, Model.policy # <<>>, model_keys(Model) # <<>>,
                      own.exists, old.exists, case.same => own.record # <<>>,
                      lost # "old_exists", Changed(own, old),
                      Identifies(model_keys(Model), own.rows),
                      Identifies(model_keys(Model), old.rows), r.passed
               PROVE  evaluate_policy(Model.policy[1], model_keys(Model), Len(old.rows),
                          TrueCounts(own.rows, old.rows, model_keys(Model),
                              Model.outputs \ ToSet(model_keys(Model)), Model.policy[1].tolerance))
    BY <1>2 DEF RowsStand
  <2>1. ModelKeys = model_keys(Model)
    BY DEF ModelKeys
  <2>2. lost # "new_exists"
    <3> SUFFICES ASSUME lost = "new_exists" PROVE FALSE
      OBVIOUS
    <3>1. now = <<>> /\ was = old.schema
      BY DEF Shown, Found
    <3>2. IsColumns(now) /\ IsColumns(was)
      BY <1>1, <3>1, EmptyIs DEF IsTable, IsColumns
    <3>3. DOMAIN was \subseteq DOMAIN now
      BY <1>2, <3>2, UnbrokenColumns DEF Clean
    <3> QED
      BY <1>1, <3>1, <3>3, EmptyIs DEF IsTable
  <2>3. Changed(new, old)
    <3>1. CASE ~case.same
      BY <1>3, <3>1
    <3>2. CASE case.same
      BY <1>3, <3>2 DEF Changed, Version
    <3> QED
      BY <3>1, <3>2
  <2>4. Compared(new, old, deep, lost)
    <3>1. Found(new, lost, "new_exists") /\ Found(old, lost, "old_exists")
      BY <1>3, <2>2 DEF Found
    <3>2. deep
      BY <1>2 DEF Clean, Compared
    <3> QED
      BY <2>1, <2>3, <3>1, <3>2 DEF Compared
  <2>5. r.diffs = <<Measured(new, old)>>
    BY <1>2, <2>4
  <2>6. ~Measured(new, old).same_relation /\ Measured(new, old).passed
    <3>1. \A x : <<x>> # <<>> /\ <<x>>[1] = x
      OBVIOUS
    <3>2. r.diffs # <<>> /\ r.diffs[1] = Measured(new, old)
      BY <2>5, <3>1
    <3> QED
      BY <1>2, <3>2 DEF Clean
  <2>7. ~case.same
    <3> SUFFICES ASSUME case.same PROVE FALSE
      OBVIOUS
    <3>1. Measured(new, old).same_relation = case.same
      BY DEF Measured, Assigned
    <3> QED
      BY <2>6, <3>1
  <2>8. new = own
    BY <1>3, <2>7
  <2>9. IsCase(case)
    BY DEF HeadsInv
  <2> QED
    BY <1>1, <2>1, <2>6, <2>8, <2>9, MeasuredIs
<1> QED
  BY <1>4, <1>5 DEF own, old

-----------------------------------------------------------------------------
(***************************************************************************)
(* What is on file, in the store and in the hands of the machines.         *)
(***************************************************************************)
\* A report proves what it says of the heads that it names.
Proven(r) ==
    \E n \in DOMAIN case.dev, k \in DOMAIN case.main :
        /\ r.candidate_hash \in {<<>>, <<n>>} /\ r.base_hash \in {<<>>, <<k>>}
        /\ Clean(r) =>
              /\ ColumnsStand(r, Side(r.candidate_ref, n), Side(r.base_ref, k))
              /\ RowsStand(r, Side(r.candidate_ref, n), Side(r.base_ref, k))

DiffIs(r) == Proven(r) /\ Dated(r.finished_at)

IsOption(s) == s # <<>> => s = <<s[1]>>

ArtifactIs(r) ==
    /\ {"base_kind", "git_ref", "base_ref"} \subseteq DOMAIN r
    /\ r.base_kind \in {"merge-base", "ref"}
    /\ IsOption(r.git_ref)

LineageIs(r) ==
    /\ ArtifactIs(r) /\ Dated(r.created_at)
    /\ r.environment # <<>> => /\ r.git_ref # <<>>
                               /\ r.environment[1].pair = <<r.git_ref[1], r.base_ref>>

RowInv(e) ==
    /\ Dated(e.created_at)
    /\ e.kind = "branch_diff" =>
          /\ DiffIs(e.payload) /\ e.payload.finished_at = e.created_at
          /\ e.payload.candidate_ref = e.subject /\ e.payload.base_ref = e.target
    /\ e.kind = "lineage_diff" =>
          /\ LineageIs(e.payload) /\ e.payload.created_at = e.created_at
          /\ e.payload.git_ref = <<e.subject>> /\ e.payload.base_ref = e.target

Rowset(db) == ToSet(db.evidence)

DbInv(db) ==
    /\ "evidence" \in DOMAIN db /\ IsSequence(db.evidence)
    /\ \A e \in Rowset(db) : RowInv(e)

\* The records of a listing that are for a target.
For(records, target) == {e \in ToSet(records) : e.target = target}

StoreInv(db, n) ==
    /\ n \in Nat \ {0} /\ DbInv(db)
    /\ \A e \in Rowset(db) : e.id[2] \in Nat /\ e.id[2] < n

FileInv(f) ==
    /\ {"diff", "lineage", "slot", "own"} \subseteq DOMAIN f
    /\ IsOption(f.diff) /\ (f.diff # <<>> => DiffIs(f.diff[1]))
    /\ IsOption(f.lineage) /\ (f.lineage # <<>> => LineageIs(f.lineage[1]))

\* What was listed of a kind, newest first, and stays in the store.
ListInv(rows, records, kind) ==
    /\ IsSequence(records)
    /\ \A e \in ToSet(records) : e \in rows /\ e.kind = kind
    /\ \A i, j \in DOMAIN records :
          i < j => records[i].created_at.nano >= records[j].created_at.nano

\* A task that may add a row has a number for it, of its own until it did.
Numbered == {"diff", "audit", "lineage", "audit_lineage", "provision", "read", "scan"}
Unused   == {"diff", "audit", "lineage", "audit_lineage"}

Unrecorded(t) == t.op = "provision" /\ t.step \in {"check", "record"}

IdInv(rows, n, m, t) ==
    /\ "op" \in DOMAIN t
    /\ t.op \in Numbered => /\ {"step", "id"} \subseteq DOMAIN t
                            /\ t.id[1] = m /\ t.id[2] \in Nat /\ t.id[2] < n
    /\ (t.op \in Unused \/ Unrecorded(t)) => \A e \in rows : e.id # t.id

TaskInv(rows, t) ==
    /\ t.op = "diff" => /\ "report" \in DOMAIN t
                        /\ DiffIs(t.report)
    /\ t.op = "audit" => /\ IsOption(t.slot) /\ (t.slot # <<>> => DiffIs(t.slot[1]))
                         /\ ListInv(rows, t.records, "branch_diff")
    /\ t.op = "lineage" => /\ {"at", "artifact"} \subseteq DOMAIN t /\ Dated(t.at)
                           /\ ArtifactIs(t.artifact)
                           /\ t.step = "record" => LineageIs(t.artifact)
    /\ t.op = "audit_lineage" => /\ IsOption(t.slot) /\ (t.slot # <<>> => LineageIs(t.slot[1]))
                                 /\ ListInv(rows, t.records, "lineage_diff")
    /\ t.op \in {"provision", "read", "scan"} => /\ "at" \in DOMAIN t
                                                /\ Dated(t.at)

\* The record that an audit names is there.
NamesIts(rows, used, stamp) ==
    used.id # <<>> => \E e \in rows :
        /\ e.id = used.id /\ e.kind # "environment"
        /\ e.payload = used.report \/ e.created_at = stamp

\* It used the newest of what there was for the pair.
ListedFor(a)     == {e.payload : e \in For(a.records, a.pair[2])}
OfferedDiffs(a)   == ListedFor(a) \cup {r \in ToSet(a.slot) : Names(r, a.pair)}
OfferedLineage(a) == ListedFor(a) \cup {r \in ToSet(a.slot) : /\ r.git_ref = <<a.pair[1]>>
                                                            /\ r.base_ref = a.pair[2]}

UsesNewest(used, offered, stamp) ==
    offered # {} => /\ used.report \in offered
                    /\ \A r \in offered : cmp_rfc3339(r[stamp], used.report[stamp]) <= 0

Sound(a) ==
    (a.audited /\ ~a.rejected /\ a.breaking = {}) =>
      LET new == Side(a.pair[1], a.heads[1])
          old == Side(a.pair[2], a.heads[2])
          r == a.found[1].report
      IN  ColumnsStand(r, new, old) /\ (a.passed = <<TRUE>> => r.passed /\ RowsStand(r, new, old))

Upheld(a) ==
    LET r == a.found[1].report IN
    /\ a.status # "stale" => r.lineage_hash = a.lineage_hash
    /\ a.status = "current" => r.git_ref = <<a.pair[1]>> /\ r.base_ref = a.pair[2]
    /\ a.status = "advisory" =>
          r.base_commit = IF r.base_kind = "ref" THEN a.here.main ELSE a.here.fork

AnswerInv(rows, a) ==
    /\ a.op = "audit" => Sound(a)
    /\ (a.op = "audit" /\ a.found # <<>>) =>
          /\ UsesNewest(a.found[1], OfferedDiffs(a), "finished_at")
          /\ NamesIts(rows, a.found[1], a.found[1].report["finished_at"])
    /\ (a.op = "lineage" /\ a.found # <<>>) =>
          /\ UsesNewest(a.found[1], OfferedLineage(a), "created_at")
          /\ NamesIts(rows, a.found[1], a.found[1].report["created_at"])
          /\ Upheld(a)

Kept(db, files, tasks, answers, n) ==
    /\ StoreInv(db, n)
    /\ DOMAIN files = Machines /\ DOMAIN tasks = Machines /\ DOMAIN answers = Machines
    /\ \A m \in Machines : /\ FileInv(files[m])
                           /\ IdInv(Rowset(db), n, m, tasks[m])
                           /\ TaskInv(Rowset(db), tasks[m])
                           /\ AnswerInv(Rowset(db), answers[m])

EvidenceInv == Kept(store, file, task, answer, calls)

-----------------------------------------------------------------------------
(* Calls of the store.                                                     *)

LEMMA RowsDated ==
    ASSUME NEW db, DbInv(db)
    PROVE  DatedRows(db.evidence, "created_at")
<1>1. Len(db.evidence) \in Nat /\ DOMAIN db.evidence = 1 .. Len(db.evidence)
  BY SequenceIs DEF DbInv
<1>2. \A i \in DOMAIN db.evidence : db.evidence[i] \in Rowset(db)
  BY DEF Rowset, ToSet
<1> QED
  BY <1>1, <1>2 DEF DatedRows, DbInv, RowInv

LEMMA AppendIs ==
    ASSUME NEW s, IsSequence(s), NEW x
    PROVE  IsSequence(Append(s, x)) /\ ToSet(Append(s, x)) = ToSet(s) \cup {x}
<1>1. s \in Seq(ToSet(s)) /\ Len(s) \in Nat /\ DOMAIN s = 1 .. Len(s)
  BY SequenceIs DEF IsSequence
<1>2. s \in Seq(ToSet(s) \cup {x})
  BY <1>1
<1>3. /\ Append(s, x) \in Seq(ToSet(s) \cup {x})
      /\ DOMAIN Append(s, x) = 1 .. Len(s) + 1
      /\ \A i \in 1 .. Len(s) : Append(s, x)[i] = s[i]
      /\ Append(s, x)[Len(s) + 1] = x
  BY <1>1, <1>2
<1> HIDE DEF IsSequence
<1>4. ToSet(Append(s, x)) = ToSet(s) \cup {x}
  <2>1. \A y \in ToSet(s) : y \in ToSet(Append(s, x))
    BY <1>1, <1>3 DEF ToSet
  <2>2. x \in ToSet(Append(s, x))
    BY <1>1, <1>3 DEF ToSet
  <2>3. \A i \in 1 .. Len(s) + 1 : Append(s, x)[i] \in ToSet(s) \cup {x}
    BY <1>1, <1>3 DEF ToSet
  <2> QED
    BY <1>3, <2>1, <2>2, <2>3 DEF ToSet
<1> QED
  BY <1>3, <1>4 DEF IsSequence

\* What a call leaves of the rows, and what it may add to them.
Adds(db, new, r) ==
    /\ DbInv(new)
    /\ Rowset(db) \subseteq Rowset(new) /\ Rowset(new) \subseteq Rowset(db) \cup {r}

LEMMA RecordIs ==
    ASSUME NEW db, DbInv(db), NEW r, RowInv(r)
    PROVE  /\ Adds(db, S!record_evidence(db, r), r)
           /\ (\A e \in Rowset(db) : e.id # r.id) => r \in Rowset(S!record_evidence(db, r))
<1> DEFINE new == S!record_evidence(db, r)
<1>1. S!Has(db.evidence, r.id) <=> \E e \in Rowset(db) : e.id = r.id
  BY DEF S!Has, Rowset, ToSet
<1>2. CASE S!Has(db.evidence, r.id)
  <2>1. new = db
    BY <1>2 DEF S!record_evidence
  <2> QED
    BY <1>1, <1>2, <2>1 DEF Adds
<1>3. CASE ~S!Has(db.evidence, r.id)
  <2>1. new = [db EXCEPT !.evidence = Append(db.evidence, r)]
    BY <1>3 DEF S!record_evidence
  <2>2. new.evidence = Append(db.evidence, r) /\ "evidence" \in DOMAIN new
    BY <2>1 DEF DbInv
  <2> HIDE DEF new
  <2>3. IsSequence(new.evidence) /\ Rowset(new) = Rowset(db) \cup {r}
    BY <2>2, AppendIs DEF DbInv, Rowset
  <2> QED
    BY <2>2, <2>3 DEF Adds, DbInv, new
<1> QED
  BY <1>2, <1>3

LEMMA ImportIs ==
    ASSUME NEW db, DbInv(db), NEW r, RowInv(r)
    PROVE  /\ Adds(db, import_evidence(db, r).db, r)
           /\ (\A e \in Rowset(db) : e.id # r.id) =>
                 \E e \in Rowset(import_evidence(db, r).db) :
                    /\ e.id = import_evidence(db, r).id /\ e.kind = r.kind
                    /\ e.payload = r.payload \/ e.created_at = r.created_at
<1> DEFINE listed == S!evidence_for(db, r.kind, r.subject)
           numbers == Where(listed, "target", r.target)
                        \cap (Where(listed, "created_at", r.created_at)
                               \cup Where(listed, "payload", r.payload))
           standing == Only(listed, numbers)
           in == import_evidence(db, r)
<1>1. /\ IsSequence(listed) /\ DatedRows(listed, "created_at")
      /\ ToSet(listed) = {e \in Rowset(db) : e.kind = r.kind /\ e.subject = r.subject}
  BY RowsDated, ListedIs DEF Rowset
<1>2. numbers \in SUBSET DOMAIN listed
  BY DEF Where
<1>3. IsSequence(standing) /\ ToSet(standing) = {listed[i] : i \in numbers}
  <2> HIDE DEF listed, numbers
  <2> QED
    BY <1>1, <1>2, OnlyDated DEF standing
<1>4. \A i \in numbers : /\ listed[i] \in Rowset(db) /\ listed[i].kind = r.kind
                         /\ listed[i].payload = r.payload \/ listed[i].created_at = r.created_at
  <2>1. \A i \in DOMAIN listed : listed[i] \in ToSet(listed)
    BY DEF ToSet
  <2>2. \A i \in numbers : /\ i \in DOMAIN listed
                           /\ listed[i]["payload"] = r.payload \/ listed[i]["created_at"] = r.created_at
    BY DEF Where
  <2> HIDE DEF listed, numbers
  <2> QED
    BY <1>1, <2>1, <2>2
<1>5. in = IF standing # <<>> THEN [db |-> db, id |-> standing[1].id]
           ELSE [db |-> S!record_evidence(db, r), id |-> r.id]
  BY DEF import_evidence
<1> HIDE DEF in, standing, numbers, listed
<1>6. CASE standing # <<>>
  <2>1. in.db = db /\ in.id = standing[1].id
    BY <1>5, <1>6
  <2>2. standing[1] \in ToSet(standing)
    BY <1>3, <1>6, SequenceIs DEF ToSet
  <2>3. /\ standing[1] \in Rowset(db) /\ standing[1].kind = r.kind
        /\ standing[1].payload = r.payload \/ standing[1].created_at = r.created_at
    BY <1>3, <1>4, <2>2
  <2> QED
    BY <2>1, <2>3 DEF Adds, in
<1>7. CASE standing = <<>>
  <2>1. in.db = S!record_evidence(db, r) /\ in.id = r.id
    BY <1>5, <1>7
  <2> QED
    BY <2>1, RecordIs DEF in
<1> QED
  BY <1>6, <1>7

\* Only bindings are removed.
LEMMA RemoveIs ==
    ASSUME NEW db, DbInv(db), NEW ref
    PROVE  LET new == S!remove_evidence(db, "environment", ref)
           IN  /\ DbInv(new)
               /\ Rowset(new) = {e \in Rowset(db) : ~(e.kind = "environment" /\ e.subject = ref)}
<1> DEFINE rows == db.evidence
           numbers == DOMAIN rows \ (Where(rows, "kind", "environment")
                                       \cap Where(rows, "subject", ref))
           new == S!remove_evidence(db, "environment", ref)
<1>1. DatedRows(rows, "created_at")
  BY RowsDated
<1>2. numbers \in SUBSET DOMAIN rows
  OBVIOUS
<1>3. /\ S!Only(rows, numbers) = Only(rows, numbers)
      /\ IsSequence(Only(rows, numbers)) /\ ToSet(Only(rows, numbers)) = {rows[i] : i \in numbers}
  <2> HIDE DEF rows, numbers
  <2> QED
    BY <1>1, <1>2, OnlyDated
<1>4. new.evidence = Only(rows, numbers) /\ "evidence" \in DOMAIN new
  <2>1. \A column, value : S!Where(rows, column, value) = Where(rows, column, value)
    BY DEF S!Where, Where
  <2>2. new = [db EXCEPT !.evidence = S!Only(rows, numbers)]
    BY <2>1 DEF S!remove_evidence
  <2> HIDE DEF new, numbers
  <2> QED
    BY <1>3, <2>2 DEF DbInv
<1>5. Rowset(new) = {rows[i] : i \in numbers}
  BY <1>3, <1>4 DEF Rowset
<1>6. \A e \in Rowset(db) : ~(e.kind = "environment" /\ e.subject = ref) =>
         \E i \in numbers : e = rows[i]
  BY DEF Rowset, ToSet, Where
<1>7. \A i \in numbers : /\ rows[i] \in Rowset(db)
                         /\ ~(rows[i].kind = "environment" /\ rows[i].subject = ref)
  <2>1. \A i \in DOMAIN rows : rows[i] \in Rowset(db)
    BY DEF Rowset, ToSet
  <2>2. \A i \in numbers : /\ i \in DOMAIN rows
                           /\ ~(rows[i]["kind"] = "environment" /\ rows[i]["subject"] = ref)
    BY DEF Where
  <2> QED
    BY <2>1, <2>2
<1>8. Rowset(new) = {e \in Rowset(db) : ~(e.kind = "environment" /\ e.subject = ref)}
  <2> HIDE DEF new, numbers
  <2> QED
    BY <1>5, <1>6, <1>7
<1> HIDE DEF new, numbers
<1> QED
  BY <1>3, <1>4, <1>8 DEF DbInv, new

-----------------------------------------------------------------------------
(* What an audit is given.                                                 *)

LEMMA JoinedIs ==
    ASSUME NEW a, NEW b, IsSequence(a), IsSequence(b)
    PROVE  /\ IsSequence(a \o b) /\ ToSet(a \o b) = ToSet(a) \cup ToSet(b)
           /\ a # <<>> => a \o b # <<>> /\ (a \o b)[1] = a[1]
           /\ a = <<>> => a \o b = b
<1> DEFINE all == ToSet(a) \cup ToSet(b)
<1>1. a \in Seq(all) /\ b \in Seq(all)
  BY DEF IsSequence
<1>2. /\ Len(a) \in Nat /\ DOMAIN a = 1 .. Len(a) /\ Len(b) \in Nat /\ DOMAIN b = 1 .. Len(b)
      /\ a # <<>> => 1 \in DOMAIN a
  BY SequenceIs
<1>3. /\ a \o b \in Seq(all) /\ DOMAIN (a \o b) = 1 .. Len(a) + Len(b)
      /\ \A i \in 1 .. Len(a) : (a \o b)[i] = a[i]
      /\ \A i \in 1 .. Len(b) : (a \o b)[Len(a) + i] = b[i]
  BY <1>1, <1>2
<1>4. ToSet(a \o b) \subseteq all
  BY <1>3 DEF ToSet
<1>5. ToSet(a) \subseteq ToSet(a \o b)
  BY <1>2, <1>3 DEF ToSet
<1>6. ASSUME NEW i \in 1 .. Len(b) PROVE b[i] \in ToSet(a \o b)
  <2>1. Len(a) + i \in DOMAIN (a \o b)
    BY <1>2, <1>3
  <2> QED
    BY <1>3, <2>1 DEF ToSet
<1>7. ToSet(a \o b) = all
  BY <1>2, <1>4, <1>5, <1>6 DEF ToSet
<1>8. IsSequence(a \o b)
  BY <1>3, <1>7 DEF IsSequence
<1>9. a # <<>> => a \o b # <<>> /\ (a \o b)[1] = a[1]
  BY <1>1, <1>2, <1>3
<1>10. a = <<>> => a \o b = b
  BY <1>1
<1> QED
  BY <1>7, <1>8, <1>9, <1>10

\* What is kept of a listing is in the order it had.
LEMMA OnlyOrdered ==
    ASSUME NEW rows, IsSequence(rows), NEW numbers \in SUBSET DOMAIN rows,
           \A i, j \in DOMAIN rows : i < j => rows[i].created_at.nano >= rows[j].created_at.nano
    PROVE  \A i, j \in DOMAIN Only(rows, numbers) :
              i < j => Only(rows, numbers)[i].created_at.nano >= Only(rows, numbers)[j].created_at.nano
<1> DEFINE order == {q \in numbers \X numbers : q[1] < q[2]}
           kept == Only(rows, numbers)
<1>1. IsFiniteSet(numbers) /\ \A i \in numbers : i \in Int
  <2>1. DOMAIN rows = 1 .. Len(rows) /\ Len(rows) \in Nat
    BY SequenceIs
  <2>2. IsFiniteSet(1 .. Len(rows))
    BY <2>1, FS_Interval
  <2> QED
    BY <2>1, <2>2, FS_Subset
<1>2. Strict(order, numbers)
  BY <1>1 DEF Strict
<1>3. PICK p : Lists(kept, rows, numbers, order, p)
  BY <1>1, <1>2, InOrderIs DEF Only
<1> HIDE DEF kept
<1>4. ASSUME NEW i \in DOMAIN kept, NEW j \in DOMAIN kept, i < j
      PROVE  kept[i].created_at.nano >= kept[j].created_at.nano
  <2>1. p[i] \in numbers /\ p[j] \in numbers /\ p[i] < p[j] /\ kept[i] = rows[p[i]] /\ kept[j] = rows[p[j]]
    BY <1>3, <1>4 DEF Lists
  <2> QED
    BY <2>1
<1> QED
  BY <1>4 DEF kept

\* What is weighed of a file and of what is listed.
Weighs(slot, id, records, rest, pair, named, stamp, found) ==
    LET mine == For(records, pair[2]) IN
    /\ \/ slot # <<>> /\ found = Weighed(slot[1], id)
       \/ \E e \in ToSet(records) \cup ToSet(rest) : found = Weighed(e.payload, e.id)
    /\ \/ ~named /\ mine = {}
       \/ /\ named /\ found = Weighed(slot[1], id)
          /\ \A f \in mine : f.created_at.nano <= slot[1][stamp].nano
       \/ \E e \in mine :
             /\ found = Weighed(e.payload, e.id)
             /\ \A f \in mine : f.created_at.nano <= e.created_at.nano
             /\ named => slot[1][stamp].nano <= e.created_at.nano

LEMMA WeighIs ==
    ASSUME NEW slot, NEW id, NEW records, NEW rest, NEW pair, NEW named \in BOOLEAN, NEW stamp,
           IsSequence(records), IsSequence(rest), DatedRows(records, "created_at"),
           \A i, j \in DOMAIN records :
              i < j => records[i].created_at.nano >= records[j].created_at.nano,
           named => slot # <<>> /\ Dated(slot[1][stamp]),
           NEW found, found = Weigh(slot, id, records, rest, pair, named, stamp), found # <<>>
    PROVE  Weighs(slot, id, records, rest, pair, named, stamp, found)
<1> DEFINE numbers == Where(records, "target", pair[2])
           of_pair == Only(records, numbers)
           standing == of_pair \o records \o rest
           fresher == named /\ Outdates(slot[1][stamp], of_pair)
<1>1. numbers \in SUBSET DOMAIN records
  BY DEF Where
<1>2. /\ DatedRows(of_pair, "created_at") /\ IsSequence(of_pair)
      /\ ToSet(of_pair) = {records[i] : i \in numbers}
  BY <1>1, OnlyDated
<1>3. ToSet(of_pair) = For(records, pair[2]) /\ For(records, pair[2]) \subseteq ToSet(records)
  <2>1. For(records, pair[2]) = {records[i] : i \in numbers}
    BY DEF For, ToSet, Where
  <2> QED
    BY <1>2, <2>1 DEF For
<1>4. \A i, j \in DOMAIN of_pair : i < j => of_pair[i].created_at.nano >= of_pair[j].created_at.nano
  BY <1>1, OnlyOrdered
<1>5. found = IF fresher \/ (slot # <<>> /\ records = <<>>) THEN Weighed(slot[1], id)
              ELSE IF standing # <<>> THEN Weighed(standing[1].payload, standing[1].id)
              ELSE <<>>
  BY DEF Weigh
<1>6. /\ IsSequence(standing)
      /\ ToSet(standing) = ToSet(of_pair) \cup ToSet(records) \cup ToSet(rest)
      /\ of_pair # <<>> => standing # <<>> /\ standing[1] = of_pair[1]
  <2> DEFINE both == of_pair \o records
  <2> HIDE DEF of_pair
  <2>1. /\ IsSequence(both) /\ ToSet(both) = ToSet(of_pair) \cup ToSet(records)
        /\ of_pair # <<>> => both # <<>> /\ both[1] = of_pair[1]
    BY <1>2, JoinedIs
  <2> HIDE DEF both
  <2>2. /\ IsSequence(both \o rest) /\ ToSet(both \o rest) = ToSet(both) \cup ToSet(rest)
        /\ both # <<>> => both \o rest # <<>> /\ (both \o rest)[1] = both[1]
    BY <2>1, JoinedIs
  <2>3. standing = both \o rest
    BY DEF both
  <2> QED
    BY <2>1, <2>2, <2>3
<1> HIDE DEF of_pair, numbers, standing
<1>7. \A x : (x \in ToSet(of_pair)) => of_pair # <<>>
  <2>1. of_pair = <<>> => DOMAIN of_pair = {}
    OBVIOUS
  <2> QED
    BY <2>1 DEF ToSet
<1>8. of_pair # <<>> =>
         /\ of_pair[1] \in For(records, pair[2]) /\ Dated(of_pair[1].created_at)
         /\ \A f \in For(records, pair[2]) : f.created_at.nano <= of_pair[1].created_at.nano
  <2> SUFFICES ASSUME of_pair # <<>>
               PROVE  /\ of_pair[1] \in ToSet(of_pair) /\ Dated(of_pair[1]["created_at"])
                      /\ \A i \in DOMAIN of_pair :
                            of_pair[i].created_at.nano <= of_pair[1].created_at.nano
    BY <1>3 DEF ToSet
  <2>1. 1 \in DOMAIN of_pair /\ DOMAIN of_pair = 1 .. Len(of_pair) /\ Len(of_pair) \in Nat
    BY <1>2, SequenceIs
  <2>2. \A i \in DOMAIN of_pair : Dated(of_pair[i]["created_at"])
    BY <1>2 DEF DatedRows
  <2>3. ASSUME NEW i \in DOMAIN of_pair
        PROVE  of_pair[i].created_at.nano <= of_pair[1].created_at.nano
    BY <1>4, <2>1, <2>2 DEF Dated
  <2> QED
    BY <2>1, <2>2, <2>3 DEF ToSet
<1>9. CASE fresher
  <2>1. named /\ found = Weighed(slot[1], id)
    BY <1>5, <1>9
  <2>2. ASSUME NEW f \in For(records, pair[2])
        PROVE  f.created_at.nano <= slot[1][stamp].nano
    <3>1. of_pair # <<>>
      BY <1>3, <1>7
    <3>2. cmp_rfc3339(slot[1][stamp], of_pair[1].created_at) > 0
      BY <1>9, <3>1 DEF Outdates
    <3>3. of_pair[1].created_at.nano <= slot[1][stamp].nano
      BY <1>8, <2>1, <3>1, <3>2 DEF Dated, cmp_rfc3339, Parsed
    <3>4. f.created_at.nano <= of_pair[1].created_at.nano /\ Dated(f["created_at"])
      BY <1>3, <1>8, <3>1 DEF For, ToSet, DatedRows
    <3> QED
      BY <1>8, <2>1, <3>1, <3>3, <3>4 DEF Dated
  <2> QED
    BY <2>1, <2>2 DEF Weighs
<1>10. CASE ~fresher /\ of_pair # <<>>
  <2>1. records # <<>>
    <3>1. records = <<>> => DOMAIN records = {}
      OBVIOUS
    <3> QED
      BY <1>3, <1>8, <1>10, <3>1 DEF ToSet
  <2>2. found = Weighed(of_pair[1].payload, of_pair[1].id)
    BY <1>5, <1>6, <1>10, <2>1
  <2>3. named => slot[1][stamp].nano <= of_pair[1].created_at.nano
    <3> SUFFICES ASSUME named PROVE slot[1][stamp].nano <= of_pair[1].created_at.nano
      OBVIOUS
    <3>1. ~(cmp_rfc3339(slot[1][stamp], of_pair[1].created_at) > 0)
      BY <1>10 DEF Outdates
    <3> QED
      BY <1>8, <1>10, <3>1 DEF Dated, cmp_rfc3339, Parsed
  <2> QED
    BY <1>3, <1>8, <1>10, <2>2, <2>3 DEF Weighs
<1>11. CASE ~fresher /\ of_pair = <<>>
  <2>1. ~named
    BY <1>11 DEF Outdates
  <2>2. For(records, pair[2]) = {}
    BY <1>3, <1>7, <1>11
  <2>3. \/ slot # <<>> /\ found = Weighed(slot[1], id)
        \/ standing # <<>> /\ found = Weighed(standing[1].payload, standing[1].id)
    BY <1>5, <1>11
  <2>4. standing # <<>> => standing[1] \in ToSet(records) \cup ToSet(rest)
    <3>1. standing # <<>> => standing[1] \in ToSet(standing)
      BY <1>6, SequenceIs DEF ToSet
    <3> QED
      BY <1>3, <1>6, <3>1
  <2> QED
    BY <2>1, <2>2, <2>3, <2>4 DEF Weighs
<1> QED
  BY <1>9, <1>10, <1>11

\* What is listed of a kind, in the store and in a task.
LEMMA LatestIs ==
    ASSUME NEW db, DbInv(db), NEW kind
    PROVE  LET latest == newest_first(Only(db.evidence, Where(db.evidence, "kind", kind)),
                                      "created_at")
           IN  IsSequence(latest) /\ \A e \in ToSet(latest) : e \in Rowset(db) /\ e.kind = kind
<1> DEFINE numbers == Where(db.evidence, "kind", kind)
           chosen == Only(db.evidence, numbers)
           latest == newest_first(chosen, "created_at")
<1>1. numbers \in SUBSET DOMAIN db.evidence
  BY DEF Where
<1>2. DatedRows(chosen, "created_at") /\ ToSet(chosen) = {db.evidence[i] : i \in numbers}
  BY <1>1, RowsDated, OnlyDated
<1>3. \A i \in numbers : db.evidence[i] \in Rowset(db) /\ db.evidence[i].kind = kind
  BY DEF Where, Rowset, ToSet
<1> HIDE DEF numbers, chosen
<1>4. ToSet(latest) = ToSet(chosen) /\ \E n \in Nat : DOMAIN latest = 1 .. n
  BY <1>2, NewestIs
<1>5. latest = [n \in DOMAIN latest |-> latest[n]]
  BY DEF newest_first, InOrder
<1> HIDE DEF latest
<1>6. IsSequence(latest)
  <2>1. \A n \in DOMAIN latest : latest[n] \in ToSet(latest)
    BY DEF ToSet
  <2> QED
    BY <1>4, <1>5, <2>1 DEF IsSequence
<1> QED
  BY <1>2, <1>3, <1>4, <1>6 DEF latest, chosen, numbers

LEMMA ListsAre ==
    ASSUME EvidenceInv, NEW kind, NEW subject
    PROVE  ListInv(Rowset(store), Records(kind, subject), kind)
<1>1. DbInv(store)
  BY DEF EvidenceInv, Kept, StoreInv
<1> DEFINE listed == S!evidence_for(store, kind, subject)
<1>2. /\ IsSequence(listed)
      /\ ToSet(listed) = {e \in ToSet(store.evidence) : e.kind = kind /\ e.subject = subject}
      /\ \A i, j \in DOMAIN listed :
            i < j => listed[i].created_at.nano >= listed[j].created_at.nano
  BY <1>1, RowsDated, ListedIs
<1> HIDE DEF listed
<1>3. ListInv(Rowset(store), listed, kind)
  BY <1>2 DEF ListInv, Rowset
<1> QED
  BY <1>3 DEF Records, listed

\* What an audit chooses is a report that is on file or in the store, the
\* newest for the pair, under a record that is there.
Chosen(db, kind, stamp, slot, offered, found) ==
    /\ NamesIts(Rowset(db), found[1], found[1].report[stamp])
    /\ \/ slot # <<>> /\ found[1].report = slot[1]
       \/ \E e \in Rowset(db) : e.kind = kind /\ found[1].report = e.payload
    /\ UsesNewest(found[1], offered, stamp)

LEMMA ChosenIs ==
    ASSUME NEW db, DbInv(db), NEW rows, rows \subseteq Rowset(db),
           NEW kind, kind # "environment", NEW stamp, NEW slot, NEW records, NEW rest, NEW pair,
           NEW id, NEW named \in BOOLEAN, named => slot # <<>>,
           slot # <<>> => Dated(slot[1][stamp]),
           ListInv(rows, records, kind),
           IsSequence(rest), \A e \in ToSet(rest) : e \in Rowset(db) /\ e.kind = kind,
           \A e \in Rowset(db) : e.kind = kind => e.payload[stamp] = e.created_at,
           slot # <<>> /\ id # <<>> =>
              \E e \in Rowset(db) : /\ e.id = id /\ e.kind = kind
                                    /\ e.payload = slot[1] \/ e.created_at = slot[1][stamp],
           NEW found, found = Weigh(slot, id, records, rest, pair, named, stamp), found # <<>>,
           NEW offered, offered = {e.payload : e \in For(records, pair[2])}
                                    \cup IF named THEN {slot[1]} ELSE {}
    PROVE  Chosen(db, kind, stamp, slot, offered, found)
<1>1. /\ IsSequence(records)
      /\ \A e \in ToSet(records) : e \in Rowset(db) /\ e.kind = kind
      /\ \A i, j \in DOMAIN records :
            i < j => records[i].created_at.nano >= records[j].created_at.nano
  BY DEF ListInv
<1>2. \A e \in Rowset(db) : Dated(e.created_at)
  BY DEF DbInv, RowInv
<1>3. DatedRows(records, "created_at")
  <2>1. DOMAIN records = 1 .. Len(records) /\ Len(records) \in Nat
    BY <1>1, SequenceIs
  <2>2. \A i \in DOMAIN records : records[i] \in ToSet(records)
    BY DEF ToSet
  <2> QED
    BY <1>1, <1>2, <2>1, <2>2 DEF DatedRows
<1> DEFINE mine == For(records, pair[2])
<1>4. /\ \/ slot # <<>> /\ found = Weighed(slot[1], id)
         \/ \E e \in ToSet(records) \cup ToSet(rest) : found = Weighed(e.payload, e.id)
      /\ \/ ~named /\ mine = {}
         \/ /\ named /\ found = Weighed(slot[1], id)
            /\ \A f \in mine : f.created_at.nano <= slot[1][stamp].nano
         \/ \E e \in mine :
               /\ found = Weighed(e.payload, e.id)
               /\ \A f \in mine : f.created_at.nano <= e.created_at.nano
               /\ named => slot[1][stamp].nano <= e.created_at.nano
  <2>1. named => slot # <<>> /\ Dated(slot[1][stamp])
    OBVIOUS
  <2>2. Weighs(slot, id, records, rest, pair, named, stamp, found)
    BY <1>1, <1>3, <2>1, WeighIs
  <2> QED
    BY <2>2 DEF Weighs
<1>5. \A x, y : Weighed(x, y)[1].report = x /\ Weighed(x, y)[1].id = y
  BY DEF Weighed
<1>6. NamesIts(Rowset(db), found[1], found[1].report[stamp])
  <2>1. CASE slot # <<>> /\ found = Weighed(slot[1], id)
    BY <1>5, <2>1 DEF NamesIts
  <2>2. ASSUME NEW e \in ToSet(records) \cup ToSet(rest), found = Weighed(e.payload, e.id)
        PROVE  NamesIts(Rowset(db), found[1], found[1].report[stamp])
    BY <1>1, <1>5, <2>2 DEF NamesIts
  <2> QED
    BY <1>4, <2>1, <2>2
<1>7. \/ slot # <<>> /\ found[1].report = slot[1]
      \/ \E e \in Rowset(db) : e.kind = kind /\ found[1].report = e.payload
  BY <1>1, <1>4, <1>5
<1>8. \A f \in mine : f \in Rowset(db) /\ f.kind = kind
  BY <1>1 DEF For
<1>9. \A f \in mine : Dated(f.payload[stamp]) /\ f.payload[stamp] = f.created_at
  BY <1>2, <1>8
<1>10. \A x, y : Dated(x) /\ Dated(y) /\ x.nano <= y.nano => cmp_rfc3339(x, y) <= 0
  BY DEF Dated, cmp_rfc3339, Parsed
<1> HIDE DEF mine
<1>11. \A r \in offered : (named /\ r = slot[1]) \/ \E e \in mine : r = e.payload
  BY DEF mine
<1>12. (named => slot[1] \in offered) /\ \A e \in mine : e.payload \in offered
  BY DEF mine
<1>13. UsesNewest(found[1], offered, stamp)
  <2>1. CASE ~named /\ mine = {}
    BY <1>11, <2>1 DEF UsesNewest
  <2>2. CASE /\ named /\ found = Weighed(slot[1], id)
             /\ \A f \in mine : f.created_at.nano <= slot[1][stamp].nano
    <3>1. found[1].report = slot[1] /\ slot[1] \in offered /\ Dated(slot[1][stamp])
      <4>1. found[1].report = slot[1]
        <5>1. Weighed(slot[1], id)[1].report = slot[1]
          BY <1>5
        <5>2. found = Weighed(slot[1], id)
          BY <2>2
        <5> QED
          BY <5>1, <5>2
      <4>2. slot[1] \in offered
        BY <1>12, <2>2
      <4>3. Dated(slot[1][stamp])
        BY <2>2
      <4> QED
        BY <4>1, <4>2, <4>3
    <3>2. slot[1][stamp].nano <= slot[1][stamp].nano
      BY <3>1 DEF Dated
    <3>3. ASSUME NEW r \in offered PROVE cmp_rfc3339(r[stamp], slot[1][stamp]) <= 0
      <4>1. Dated(r[stamp]) /\ r[stamp].nano <= slot[1][stamp].nano
        BY <1>9, <1>11, <2>2, <3>1, <3>2
      <4> QED
        BY <1>10, <3>1, <4>1
    <3> QED
      BY <3>1, <3>3 DEF UsesNewest
  <2>3. ASSUME NEW e \in mine, found = Weighed(e.payload, e.id),
               \A f \in mine : f.created_at.nano <= e.created_at.nano,
               named => slot[1][stamp].nano <= e.created_at.nano
        PROVE  UsesNewest(found[1], offered, stamp)
    <3>1. found[1].report = e.payload /\ e.payload \in offered /\ Dated(e.payload[stamp])
      BY <1>5, <1>9, <1>12, <2>3
    <3>2. ASSUME NEW r \in offered PROVE cmp_rfc3339(r[stamp], e.payload[stamp]) <= 0
      <4>1. Dated(r[stamp]) /\ r[stamp].nano <= e.payload[stamp].nano
        <5>1. CASE named /\ r = slot[1]
          BY <1>9, <2>3, <5>1
        <5>2. CASE \E f \in mine : r = f.payload
          BY <1>9, <2>3, <5>2
        <5> QED
          BY <1>11, <5>1, <5>2
      <4> QED
        BY <1>10, <3>1, <4>1
    <3> QED
      BY <3>1, <3>2 DEF UsesNewest
  <2> QED
    BY <1>4, <2>1, <2>2, <2>3
<1> QED
  BY <1>6, <1>7, <1>13 DEF Chosen

-----------------------------------------------------------------------------
(* One step.                                                               *)

\* What was proved of two branches as they were stays proved.
LEMMA ProvenStays == ASSUME case' = case PROVE \A r : Proven(r)' <=> Proven(r)
<1>1. \A ref, n : Side(ref, n)' = Side(ref, n)
  BY DEF Side
<1>2. \A r, new, old : ColumnsStand(r, new, old)' <=> ColumnsStand(r, new, old)
  BY DEF ColumnsStand
<1>3. \A r, new, old : RowsStand(r, new, old)' <=> RowsStand(r, new, old)
  BY DEF RowsStand, Model
<1> QED
  BY <1>1, <1>2, <1>3 DEF Proven

LEMMA SoundStays == ASSUME case' = case PROVE \A a : Sound(a)' <=> Sound(a)
<1>1. \A ref, n : Side(ref, n)' = Side(ref, n)
  BY DEF Side
<1>2. \A r, new, old : ColumnsStand(r, new, old)' <=> ColumnsStand(r, new, old)
  BY DEF ColumnsStand
<1>3. \A r, new, old : RowsStand(r, new, old)' <=> RowsStand(r, new, old)
  BY DEF RowsStand, Model
<1> QED
  BY <1>1, <1>2, <1>3 DEF Sound

LEMMA KeptStays ==
    ASSUME case' = case
    PROVE  \A db, files, tasks, answers, n :
              Kept(db, files, tasks, answers, n) => Kept(db, files, tasks, answers, n)'
<1>1. \A r : DiffIs(r)' <=> DiffIs(r)
  BY ProvenStays DEF DiffIs
<1>2. \A e : RowInv(e)' <=> RowInv(e)
  BY <1>1 DEF RowInv
<1>3. \A db, n : StoreInv(db, n)' <=> StoreInv(db, n)
  <2>1. \A db : DbInv(db)' <=> DbInv(db)
    BY <1>2 DEF DbInv
  <2> QED
    BY <2>1 DEF StoreInv
<1>4. \A f : FileInv(f)' <=> FileInv(f)
  BY <1>1 DEF FileInv
<1>5. \A rows, t : TaskInv(rows, t)' <=> TaskInv(rows, t)
  BY <1>1 DEF TaskInv
<1>6. \A rows, a : AnswerInv(rows, a)' <=> AnswerInv(rows, a)
  BY SoundStays DEF AnswerInv
<1> QED
  BY <1>3, <1>4, <1>5, <1>6 DEF Kept

LEMMA KeptNext ==
    ASSUME case' = case, Kept(store', file', task', answer', calls')
    PROVE  EvidenceInv'
<1>1. \A db, files, tasks, answers, n :
         Kept(db, files, tasks, answers, n) => Kept(db, files, tasks, answers, n)'
  BY KeptStays
<1>2. PICK db, files, tasks, answers, n :
         /\ db = store' /\ files = file' /\ tasks = task' /\ answers = answer' /\ n = calls'
         /\ Kept(db, files, tasks, answers, n)
  OBVIOUS
<1>3. Kept(db, files, tasks, answers, n)'
  BY <1>1, <1>2
<1> QED
  BY <1>2, <1>3 DEF EvidenceInv

\* Rows of evidence stay; what a machine adds is of its own numbers.
Grows(rows, new) == \A e \in rows : e.kind # "environment" => e \in new
Numbers_of(m, n, rows, new) == \A e \in new : e \in rows \/ (e.id[1] = m /\ e.id[2] \in Nat /\ e.id[2] < n)

StoreStep(m) ==
    /\ DbInv(store')
    /\ Grows(Rowset(store), Rowset(store'))
    /\ Numbers_of(m, calls, Rowset(store), Rowset(store'))

\* All that a machine does changes its own things only.
Alone(m) ==
    /\ DOMAIN file' = Machines /\ DOMAIN task' = Machines /\ DOMAIN answer' = Machines
    /\ \A k \in Machines \ {m} : file'[k] = file[k] /\ task'[k] = task[k] /\ answer'[k] = answer[k]

LEMMA ListStays ==
    ASSUME NEW rows, NEW new, Grows(rows, new), NEW records, NEW kind, kind # "environment",
           ListInv(rows, records, kind)
    PROVE  ListInv(new, records, kind)
BY DEF ListInv, Grows

LEMMA TaskStays ==
    ASSUME NEW rows, NEW new, Grows(rows, new), NEW t, TaskInv(rows, t)
    PROVE  TaskInv(new, t)
<1>1. t.op = "audit" => ListInv(new, t.records, "branch_diff")
  BY ListStays DEF TaskInv
<1>2. t.op = "audit_lineage" => ListInv(new, t.records, "lineage_diff")
  BY ListStays DEF TaskInv
<1> QED
  BY <1>1, <1>2 DEF TaskInv

LEMMA AnswerStays ==
    ASSUME NEW rows, NEW new, Grows(rows, new), NEW a, AnswerInv(rows, a)
    PROVE  AnswerInv(new, a)
<1>1. \A used, stamp : NamesIts(rows, used, stamp) => NamesIts(new, used, stamp)
  BY DEF NamesIts, Grows
<1> QED
  BY <1>1 DEF AnswerInv

LEMMA StepIs ==
    ASSUME EvidenceInv, NEW m \in Machines, Alone(m), case' = case,
           calls' \in {calls, calls + 1},
           StoreStep(m),
           file'[m] = file[m] \/ FileInv(file'[m]),
           \/ task'[m] = task[m] /\ store' = store
           \/ IdInv(Rowset(store'), calls', m, task'[m]) /\ TaskInv(Rowset(store'), task'[m]),
           answer'[m] = answer[m] \/ AnswerInv(Rowset(store'), answer'[m])
    PROVE  EvidenceInv'
<1> DEFINE rows == Rowset(store)
           new == Rowset(store')
<1>1. calls' \in Nat \ {0} /\ calls \in Nat /\ calls' >= calls
  BY DEF EvidenceInv, Kept, StoreInv
<1>2. StoreInv(store', calls')
  <2>1. \A e \in rows : e.id[2] \in Nat /\ e.id[2] < calls
    BY DEF EvidenceInv, Kept, StoreInv
  <2>2. \A e \in new : e.id[2] \in Nat /\ e.id[2] < calls
    BY <2>1 DEF StoreStep, Numbers_of
  <2> QED
    BY <1>1, <2>2 DEF StoreInv, StoreStep
<1>3. Grows(rows, new)
  BY DEF StoreStep
<1>4. ASSUME NEW k \in Machines PROVE FileInv(file'[k])
  BY DEF EvidenceInv, Kept, Alone
<1>5. ASSUME NEW k \in Machines PROVE AnswerInv(new, answer'[k])
  <2>1. CASE k = m /\ answer'[m] # answer[m]
    BY <2>1
  <2>2. CASE k # m \/ answer'[m] = answer[m]
    <3>1. AnswerInv(rows, answer'[k])
      BY <2>2 DEF EvidenceInv, Kept, Alone
    <3> QED
      BY <1>3, <3>1, AnswerStays
  <2> QED
    BY <2>1, <2>2
<1>6. ASSUME NEW k \in Machines, k # m \/ (task'[m] = task[m] /\ store' = store)
      PROVE  IdInv(new, calls', k, task'[k]) /\ TaskInv(new, task'[k])
  <2>1. task'[k] = task[k] /\ IdInv(rows, calls, k, task[k]) /\ TaskInv(rows, task[k])
    BY <1>6 DEF EvidenceInv, Kept, Alone
  <2>2. TaskInv(new, task'[k])
    BY <1>3, <2>1, TaskStays
  <2> DEFINE t == task[k]
  <2>3. t.op \in Numbered => t.id[1] = k /\ t.id[2] \in Nat /\ t.id[2] < calls'
    <3> HIDE DEF t
    <3> QED
      BY <1>1, <2>1 DEF IdInv, t
  <2>4. ASSUME t.op \in Unused \/ Unrecorded(t), NEW e \in new PROVE e.id # t.id
    <3>1. t.id[1] = k
      BY <2>3, <2>4 DEF Numbered, Unused, Unrecorded
    <3>2. CASE e \in rows
      BY <2>1, <2>4, <3>2 DEF IdInv
    <3>3. CASE e \notin rows
      <4>1. e.id[1] = m /\ k # m
        BY <1>6, <3>3 DEF StoreStep, Numbers_of
      <4> QED
        BY <3>1, <4>1
    <3> QED
      BY <3>2, <3>3
  <2>5. "op" \in DOMAIN t /\ (t.op \in Numbered => {"step", "id"} \subseteq DOMAIN t)
    BY <2>1 DEF IdInv
  <2> HIDE DEF new, rows
  <2>6. IdInv(new, calls', k, t)
    <3> HIDE DEF t
    <3> QED
      BY <2>3, <2>4, <2>5 DEF IdInv
  <2> QED
    BY <2>1, <2>2, <2>6
<1>7. \A k \in Machines : IdInv(new, calls', k, task'[k]) /\ TaskInv(new, task'[k])
  BY <1>6
<1>8. Kept(store', file', task', answer', calls')
  BY <1>2, <1>4, <1>5, <1>7 DEF Kept, Alone
<1> QED
  BY <1>8, KeptNext

LEMMA NowDated == ASSUME EvidenceInv, NEW m PROVE Dated(Now(m))
<1>1. calls \in Nat \ {0}
  BY DEF EvidenceInv, Kept, StoreInv
<1> QED
  BY <1>1 DEF Now, Dated

LEMMA PartsAre ==
    ASSUME EvidenceInv, NEW m \in Machines
    PROVE  /\ DOMAIN file = Machines /\ DOMAIN task = Machines /\ DOMAIN answer = Machines
           /\ DbInv(store) /\ calls \in Nat \ {0}
           /\ \A e \in Rowset(store) : e.id[2] \in Nat /\ e.id[2] < calls
           /\ FileInv(file[m])
           /\ IdInv(Rowset(store), calls, m, task[m]) /\ TaskInv(Rowset(store), task[m])
BY DEF EvidenceInv, Kept, StoreInv

LEMMA IdleIs ==
    ASSUME NEW rows, NEW n, NEW m
    PROVE  IdInv(rows, n, m, Idle) /\ TaskInv(rows, Idle)
<1>1. Idle.op = "idle" /\ "op" \in DOMAIN Idle
  BY DEF Idle
<1> QED
  BY <1>1 DEF IdInv, TaskInv, Numbered, Unused, Unrecorded

LEMMA StoreSame ==
    ASSUME EvidenceInv, NEW m, store' = store
    PROVE  StoreStep(m)
<1>1. DbInv(store)
  BY DEF EvidenceInv, Kept, StoreInv
<1> QED
  BY <1>1 DEF StoreStep, Grows, Numbers_of

\* A machine's own things are set, one by one.
LEMMA Put1 ==
    ASSUME NEW f, DOMAIN f = Machines, NEW m \in Machines, NEW x, NEW g, g = [f EXCEPT ![m] = x]
    PROVE  DOMAIN g = Machines /\ g[m] = x /\ \A k \in Machines \ {m} : g[k] = f[k]
OBVIOUS

LEMMA GotoIs ==
    ASSUME EvidenceInv, NEW m \in Machines, NEW s, Goto(m, s)
    PROVE  /\ DOMAIN task' = Machines /\ \A k \in Machines \ {m} : task'[k] = task[k]
           /\ task'[m] = [task[m] EXCEPT !.step = s]
<1>1. task' = [task EXCEPT ![m] = [task[m] EXCEPT !.step = s]]
  BY DEF Goto
<1> QED
  BY <1>1, PartsAre, Put1

LEMMA DoneIs ==
    ASSUME EvidenceInv, NEW m \in Machines, Done(m)
    PROVE  /\ DOMAIN task' = Machines /\ \A k \in Machines \ {m} : task'[k] = task[k]
           /\ task'[m] = Idle
           /\ IdInv(Rowset(store'), calls', m, task'[m]) /\ TaskInv(Rowset(store'), task'[m])
<1>1. task' = [task EXCEPT ![m] = Idle]
  BY DEF Done
<1>2. DOMAIN task' = Machines /\ task'[m] = Idle /\ \A k \in Machines \ {m} : task'[k] = task[k]
  BY <1>1, PartsAre, Put1
<1> QED
  BY <1>2, IdleIs

LEMMA NothingStep ==
    ASSUME EvidenceInv, UNCHANGED <<case, file, store, task, answer, calls>>
    PROVE  EvidenceInv'
<1>1. Kept(store', file', task', answer', calls')
  BY DEF EvidenceInv
<1> QED
  BY <1>1, KeptNext

LEMMA StopStep ==
    ASSUME EvidenceInv, NEW m \in Machines, Stop(m)
    PROVE  EvidenceInv'
<1>1. Done(m) /\ UNCHANGED <<case, file, store, answer, calls>>
  BY DEF Stop
<1>2. Alone(m)
  BY <1>1, DoneIs, PartsAre DEF Alone
<1> QED
  BY <1>1, <1>2, DoneIs, StoreSame, StepIs

LEMMA EditStep ==
    ASSUME EvidenceInv, NEW m \in Machines, Edit(m)
    PROVE  EvidenceInv'
<1>1. UNCHANGED <<case, file, store, task, answer>> /\ calls' = calls + 1
  BY DEF Edit
<1>2. Alone(m)
  BY <1>1, PartsAre DEF Alone
<1> QED
  BY <1>1, <1>2, StoreSame, StepIs

\* A task that begins: its number is new.
LEMMA BegunIs ==
    ASSUME EvidenceInv, NEW m \in Machines, NEW t, NEW word,
           task' = [task EXCEPT ![m] = t], calls' = calls + 1,
           {"op", "step", "id"} \subseteq DOMAIN t, t.id = <<m, calls, word>>
    PROVE  /\ DOMAIN task' = Machines /\ \A k \in Machines \ {m} : task'[k] = task[k]
           /\ task'[m] = t /\ IdInv(Rowset(store), calls', m, task'[m])
<1>1. /\ DOMAIN task = Machines /\ calls \in Nat
      /\ \A e \in Rowset(store) : e.id[2] \in Nat /\ e.id[2] < calls
  BY PartsAre
<1>2. task'[m] = t /\ DOMAIN task' = Machines /\ \A k \in Machines \ {m} : task'[k] = task[k]
  BY <1>1, Put1
<1>3. t.id[1] = m /\ t.id[2] = calls
  OBVIOUS
<1>4. \A e \in Rowset(store) : e.id # t.id
  BY <1>1, <1>3
<1> QED
  BY <1>1, <1>2, <1>3, <1>4 DEF IdInv

LEMMA DiffStep ==
    ASSUME HeadsInv, EvidenceInv, NEW m \in Machines, NEW pair \in case.pairs,
           NEW bound \in BOOLEAN, NEW deep \in BOOLEAN, NEW lost \in Reads,
           Diff(m, pair, bound, deep, lost)
    PROVE  EvidenceInv'
<1> DEFINE r == branch_diff(pair, bound, deep, lost)
           report == Assigned(r, [finished_at |-> Now(m)])
           t == [op |-> "diff", step |-> "file", report |-> report, id |-> <<m, calls, "diff">>]
<1>1. /\ UNCHANGED <<case, file, store, answer>> /\ calls' = calls + 1
      /\ ~report.failed /\ task' = [task EXCEPT ![m] = t]
  BY DEF Diff, Begin
<1>2. DOMAIN r = {"failed", "candidate_ref", "base_ref", "candidate_hash", "base_hash", "listed",
                  "versions", "changes", "diffs", "deep", "passed", "lost"}
  BY DEF branch_diff
<1> DEFINE old == Current(pair[2])
           new == Read(Current(pair[1]), old)
<1>3. Reports(r, pair, bound, deep, lost, new, old)
  BY ReportIs
<1> HIDE DEF r, old, new
<1>4. /\ report.finished_at = Now(m) /\ report.failed = r.failed
      /\ report.candidate_ref = r.candidate_ref /\ report.base_ref = r.base_ref
      /\ report.candidate_hash = r.candidate_hash /\ report.base_hash = r.base_hash
      /\ report.changes = r.changes /\ report.diffs = r.diffs /\ report.deep = r.deep
      /\ report.passed = r.passed /\ report.lost = r.lost
  BY <1>2 DEF Assigned
<1> HIDE DEF report
<1>5. Clean(report) => /\ ColumnsStand(report, Current(pair[1]), Current(pair[2]))
                       /\ RowsStand(report, Current(pair[1]), Current(pair[2]))
  <2> SUFFICES ASSUME Clean(report)
               PROVE  /\ ColumnsStand(report, Current(pair[1]), Current(pair[2]))
                      /\ RowsStand(report, Current(pair[1]), Current(pair[2]))
    OBVIOUS
  <2>1. Clean(r)
    BY <1>4 DEF Clean
  <2>2. /\ ColumnsStand(r, Current(pair[1]), Current(pair[2]))
        /\ RowsStand(r, Current(pair[1]), Current(pair[2]))
    BY <1>1, <1>4, <2>1, ReportIsSound DEF r
  <2> QED
    BY <1>4, <2>2 DEF ColumnsStand, RowsStand
<1>6. head[pair[1]] \in DOMAIN case.dev /\ head[pair[2]] \in DOMAIN case.main
  BY DEF HeadsInv, IsCase, Candidates
<1>7. Proven(report)
  <2>1. /\ report.candidate_ref = pair[1] /\ report.base_ref = pair[2]
        /\ report.candidate_hash \in {<<>>, <<head[pair[1]]>>}
        /\ report.base_hash \in {<<>>, <<head[pair[2]]>>}
    BY <1>3, <1>4 DEF Reports
  <2> QED
    BY <1>5, <1>6, <2>1 DEF Proven, Current
<1>8. DiffIs(report)
  BY <1>4, <1>7, NowDated DEF DiffIs
<1>9. /\ DOMAIN t = {"op", "step", "report", "id"} /\ t.op = "diff" /\ t.report = report
      /\ t.id = <<m, calls, "diff">>
  OBVIOUS
<1> HIDE DEF t
<1>10. /\ DOMAIN task' = Machines /\ \A k \in Machines \ {m} : task'[k] = task[k]
       /\ task'[m] = t /\ IdInv(Rowset(store), calls', m, task'[m])
  BY <1>1, <1>9, BegunIs
<1>11. TaskInv(Rowset(store), task'[m])
  BY <1>8, <1>9, <1>10 DEF TaskInv
<1>12. Alone(m)
  BY <1>1, <1>10, PartsAre DEF Alone
<1> QED
  BY <1>1, <1>10, <1>11, <1>12, StoreSame, StepIs

LEMMA DiffFileStep ==
    ASSUME EvidenceInv, NEW m \in Machines, DiffFile(m)
    PROVE  EvidenceInv'
<1> DEFINE t == task[m]
           u == task'[m]
           f == [file[m] EXCEPT !.diff = <<t.report>>]
<1>1. /\ t.op = "diff" /\ Goto(m, "record") /\ UNCHANGED <<case, store, answer, calls>>
      /\ file' = [file EXCEPT ![m] = f]
  BY DEF DiffFile, Proceed
<1>2. /\ FileInv(file[m]) /\ IdInv(Rowset(store), calls, m, t) /\ TaskInv(Rowset(store), t)
      /\ DOMAIN file = Machines /\ DOMAIN answer = Machines
  BY PartsAre
<1>3. DOMAIN file' = Machines /\ file'[m] = f /\ \A k \in Machines \ {m} : file'[k] = file[k]
  <2> HIDE DEF f
  <2> QED
    BY <1>1, <1>2, Put1
<1>4. FileInv(f)
  <2>1. DiffIs(t.report)
    BY <1>1, <1>2 DEF TaskInv
  <2>2. f.diff = <<t.report>> /\ f.lineage = file[m].lineage /\ DOMAIN f = DOMAIN file[m]
    BY <1>2 DEF FileInv
  <2> HIDE DEF f
  <2> QED
    BY <1>2, <2>1, <2>2 DEF FileInv, IsOption
<1>5. /\ DOMAIN task' = Machines /\ \A k \in Machines \ {m} : task'[k] = task[k]
      /\ u = [t EXCEPT !.step = "record"]
  BY <1>1, GotoIs
<1> HIDE DEF t, u, f
<1>6. {"op", "step", "id", "report"} \subseteq DOMAIN t
  BY <1>1, <1>2 DEF IdInv, TaskInv, Numbered
<1>7. DOMAIN u = DOMAIN t /\ u.op = t.op /\ u.id = t.id /\ u.report = t.report
  BY <1>5, <1>6
<1>8. IdInv(Rowset(store), calls, m, u) /\ TaskInv(Rowset(store), u)
  BY <1>1, <1>2, <1>7 DEF IdInv, TaskInv, Unrecorded
<1>9. Alone(m)
  BY <1>1, <1>2, <1>3, <1>5 DEF Alone
<1> QED
  BY <1>1, <1>3, <1>4, <1>8, <1>9, StoreSame, StepIs DEF u

\* A row that a task adds under its number.
LEMMA Recorded ==
    ASSUME EvidenceInv, NEW m \in Machines, NEW r, Adds(store, store', r),
           r.id[1] = m, r.id[2] \in Nat, r.id[2] < calls
    PROVE  StoreStep(m)
BY DEF Adds, StoreStep, Grows, Numbers_of

\* A task that ends with the store's answer.
LEMMA LastStep ==
    ASSUME EvidenceInv, NEW m \in Machines, Done(m), UNCHANGED <<case, file, calls>>, StoreStep(m),
           NEW a, \/ answer' = answer
                  \/ answer' = [answer EXCEPT ![m] = a] /\ AnswerInv(Rowset(store'), a)
    PROVE  EvidenceInv'
<1>1. DOMAIN file = Machines /\ DOMAIN answer = Machines
  BY PartsAre
<1>2. /\ DOMAIN task' = Machines /\ \A k \in Machines \ {m} : task'[k] = task[k]
      /\ IdInv(Rowset(store'), calls', m, task'[m]) /\ TaskInv(Rowset(store'), task'[m])
  BY DoneIs
<1>3. /\ DOMAIN answer' = Machines /\ \A k \in Machines \ {m} : answer'[k] = answer[k]
      /\ answer'[m] = answer[m] \/ AnswerInv(Rowset(store'), answer'[m])
  <2>1. CASE answer' = answer
    BY <1>1, <2>1
  <2>2. CASE answer' = [answer EXCEPT ![m] = a] /\ AnswerInv(Rowset(store'), a)
    BY <1>1, <2>2, Put1
  <2> QED
    BY <2>1, <2>2
<1>4. Alone(m)
  BY <1>1, <1>2, <1>3 DEF Alone
<1> QED
  BY <1>2, <1>3, <1>4, StepIs

LEMMA DiffRowIs ==
    ASSUME NEW report, DiffIs(report), NEW id, NEW r, r = branch_diff_record(report, id)
    PROVE  /\ RowInv(r) /\ r.id = id /\ r.kind = "branch_diff" /\ r.payload = report
           /\ r.created_at = report["finished_at"]
<1>1. /\ r.id = id /\ r.kind = "branch_diff" /\ r.payload = report
      /\ r.created_at = report.finished_at
      /\ r.subject = report.candidate_ref /\ r.target = report.base_ref
  BY DEF branch_diff_record
<1> QED
  BY <1>1 DEF RowInv, DiffIs

LEMMA DiffRecordStep ==
    ASSUME EvidenceInv, NEW m \in Machines, DiffRecord(m)
    PROVE  EvidenceInv'
<1> DEFINE t == task[m]
           r == branch_diff_record(t.report, t.id)
<1>1. /\ t.op = "diff" /\ Done(m) /\ UNCHANGED <<case, file, answer, calls>>
      /\ store' = S!record_evidence(store, r)
  BY DEF DiffRecord, Proceed
<1>2. /\ DbInv(store) /\ IdInv(Rowset(store), calls, m, t) /\ TaskInv(Rowset(store), t)
  BY PartsAre
<1>3. RowInv(r) /\ r.id = t.id
  BY <1>1, <1>2, DiffRowIs DEF TaskInv
<1>4. t.id[1] = m /\ t.id[2] \in Nat /\ t.id[2] < calls
  BY <1>1, <1>2 DEF IdInv, Numbered
<1> HIDE DEF r, t
<1>5. Adds(store, store', r)
  BY <1>1, <1>2, <1>3, RecordIs
<1>6. StoreStep(m)
  BY <1>3, <1>4, <1>5, Recorded
<1> QED
  BY <1>1, <1>6, LastStep

LEMMA AuditStep ==
    ASSUME EvidenceInv, NEW m \in Machines, NEW pair, Audit(m, pair)
    PROVE  EvidenceInv'
<1> DEFINE t == [op |-> "audit", step |-> "judge", pair |-> pair, heads |-> Heads(pair),
                 slot |-> file[m].diff, records |-> Records("branch_diff", pair[1]),
                 id |-> <<m, calls, "import">>]
<1>1. /\ UNCHANGED <<case, file, store, answer>> /\ calls' = calls + 1
      /\ task' = [task EXCEPT ![m] = t]
  BY DEF Audit, Begin
<1>2. /\ {"op", "step", "id"} \subseteq DOMAIN t /\ t.id = <<m, calls, "import">>
      /\ t.op = "audit" /\ t.slot = file[m].diff /\ t.records = Records("branch_diff", pair[1])
  OBVIOUS
<1> HIDE DEF t
<1>3. /\ DOMAIN task' = Machines /\ \A k \in Machines \ {m} : task'[k] = task[k]
      /\ task'[m] = t /\ IdInv(Rowset(store), calls', m, task'[m])
  BY <1>1, <1>2, BegunIs
<1>4. FileInv(file[m])
  BY PartsAre
<1>5. TaskInv(Rowset(store), t)
  BY <1>2, <1>4, ListsAre DEF TaskInv, FileInv
<1>6. Alone(m)
  BY <1>1, <1>3, PartsAre DEF Alone
<1> QED
  BY <1>1, <1>3, <1>5, <1>6, StoreSame, StepIs

\* What an audit must have found to pass.
Passes(found, pair, heads, passed) ==
    LET r == found[1].report
    IN  /\ found # <<>> /\ Names(r, pair) /\ Clean(r)
        /\ r.candidate_hash = <<heads[1]>> /\ r.base_hash = <<heads[2]>>
        /\ passed = <<TRUE>> => r.passed

LEMMA JudgedIs ==
    ASSUME NEW found, NEW pair, NEW heads, NEW versions,
           NEW j, j = audited_diff(found, pair, heads, versions),
           j.audited, ~j.rejected, j.breaking = {}
    PROVE  Passes(found, pair, heads, j.passed)
<1> DEFINE r == found[1].report
           fresh == StillHolds(r, heads, versions)
           shallow == ~r.deep /\ r.diffs = <<>>
<1>1. found # <<>>
  BY DEF audited_diff, Nothing
<1>2. Names(r, pair)
  BY <1>1 DEF audited_diff, Nothing
<1>3. j = [audited |-> fresh, rejected |-> ~fresh \/ shallow,
           breaking |-> breaking_columns(r.changes),
           passed |-> IF shallow THEN <<>> ELSE <<r.passed>>,
           base_hash |-> r.base_hash]
  BY <1>1, <1>2 DEF audited_diff
<1> HIDE DEF r, fresh, shallow
<1>4. fresh
  BY <1>3
<1>5. ~shallow
  <2>1. j.rejected = (~fresh \/ shallow)
    BY <1>3
  <2> QED
    BY <2>1 DEF shallow
<1>6. breaking_columns(r.changes) = {}
  BY <1>3
<1>7. j.passed = <<r.passed>>
  BY <1>3, <1>5
<1>8. r.candidate_hash = <<heads[1]>> /\ r.base_hash = <<heads[2]>>
  BY <1>4 DEF fresh, StillHolds
<1>9. Clean(r)
  BY <1>4, <1>5, <1>6 DEF fresh, shallow, StillHolds, Clean
<1>10. j.passed = <<TRUE>> => r.passed
  <2>1. \A x, y : <<x>> = <<y>> => x = y
    OBVIOUS
  <2> QED
    BY <1>7, <2>1
<1> QED
  BY <1>1, <1>2, <1>8, <1>9, <1>10 DEF r, Passes

LEMMA SoundIs ==
    ASSUME NEW a, NEW j, NEW versions,
           j = audited_diff(a.found, a.pair, a.heads, versions),
           a.audited = j.audited, a.rejected = j.rejected, a.breaking = j.breaking,
           a.passed = j.passed,
           a.found # <<>> => Proven(a.found[1].report)
    PROVE  Sound(a)
<1> SUFFICES ASSUME a.audited, ~a.rejected, a.breaking = {} PROVE Sound(a)
  BY DEF Sound
<1> DEFINE r == a.found[1].report
<1>1. Passes(a.found, a.pair, a.heads, j.passed)
  <2>1. j.audited /\ ~j.rejected /\ j.breaking = {}
    OBVIOUS
  <2> QED
    BY <2>1, JudgedIs
<1>2. /\ a.found # <<>> /\ Names(r, a.pair) /\ Clean(r)
      /\ r.candidate_hash = <<a.heads[1]>> /\ r.base_hash = <<a.heads[2]>>
      /\ j.passed = <<TRUE>> => r.passed
  BY <1>1 DEF Passes
<1>3. PICK n \in DOMAIN case.dev, k \in DOMAIN case.main :
         /\ r.candidate_hash \in {<<>>, <<n>>} /\ r.base_hash \in {<<>>, <<k>>}
         /\ Clean(r) => /\ ColumnsStand(r, Side(r.candidate_ref, n), Side(r.base_ref, k))
                        /\ RowsStand(r, Side(r.candidate_ref, n), Side(r.base_ref, k))
  BY <1>2 DEF Proven
<1> HIDE DEF r
<1>4. n = a.heads[1] /\ k = a.heads[2]
  BY <1>2, <1>3
<1>5. r.candidate_ref = a.pair[1] /\ r.base_ref = a.pair[2]
  BY <1>2 DEF Names
<1> QED
  BY <1>2, <1>3, <1>4, <1>5 DEF Sound, r

LEMMA OptionIs ==
    ASSUME NEW s, IsOption(s)
    PROVE  ToSet(s) = IF s = <<>> THEN {} ELSE {s[1]}
<1>1. CASE s = <<>>
  <2>1. DOMAIN s = {}
    BY <1>1
  <2> QED
    BY <1>1, <2>1 DEF ToSet
<1>2. CASE s # <<>>
  <2>1. PICK x : x = s[1]
    OBVIOUS
  <2>2. s = <<x>>
    BY <1>2, <2>1 DEF IsOption
  <2>3. DOMAIN s = {1}
    BY <2>2
  <2> QED
    BY <1>2, <2>3 DEF ToSet
<1> QED
  BY <1>1, <1>2

\* The rows of a kind carry the stamp of what they hold.
LEMMA StampsAre ==
    ASSUME NEW db, DbInv(db)
    PROVE  /\ \A e \in Rowset(db) : e.kind = "branch_diff" =>
                 e.payload["finished_at"] = e.created_at /\ DiffIs(e.payload)
           /\ \A e \in Rowset(db) : e.kind = "lineage_diff" =>
                 e.payload["created_at"] = e.created_at
BY DEF DbInv, RowInv

\* What an audit says: the verdict, and what it was about.
LEMMA SaysIs ==
    ASSUME NEW found, NEW pair, NEW heads, NEW versions, NEW b, NEW a,
           a = Assigned(audited_diff(found, pair, heads, versions), b),
           DOMAIN b = {"op", "pair", "heads", "found", "slot", "records", "contract"}
    PROVE  LET j == audited_diff(found, pair, heads, versions)
           IN  /\ a.audited = j.audited /\ a.rejected = j.rejected
               /\ a.breaking = j.breaking /\ a.passed = j.passed
               /\ \A c \in DOMAIN b : a[c] = b[c]
<1> DEFINE j == audited_diff(found, pair, heads, versions)
<1>1. DOMAIN j = {"audited", "rejected", "breaking", "passed", "base_hash"}
  <2>1. CASE found = <<>>
    BY <2>1 DEF audited_diff, Nothing
  <2>2. CASE found # <<>> /\ ~Names(found[1].report, pair)
    BY <2>2 DEF audited_diff, Nothing
  <2>3. CASE found # <<>> /\ Names(found[1].report, pair)
    BY <2>3 DEF audited_diff
  <2> QED
    BY <2>1, <2>2, <2>3
<1> HIDE DEF j
<1>2. a = Assigned(j, b)
  BY DEF j
<1>3. /\ a.audited = j.audited /\ a.rejected = j.rejected
      /\ a.breaking = j.breaking /\ a.passed = j.passed
  BY <1>1, <1>2 DEF Assigned
<1>4. \A c \in DOMAIN b : a[c] = b[c]
  BY <1>2 DEF Assigned
<1> QED
  BY <1>3, <1>4 DEF j

LEMMA AuditJudgeStep ==
    ASSUME EvidenceInv, NEW m \in Machines, AuditJudge(m)
    PROVE  EvidenceInv'
<1> DEFINE t == task[m]
           r == branch_diff_record(t.slot[1], t.id)
           imported == import_evidence(store, r)
           in == IF t.slot = <<>> THEN [db |-> store, id |-> <<>>] ELSE imported
           db == in.db
           latest == newest_first(Only(db.evidence, Where(db.evidence, "kind", "branch_diff")),
                                  "created_at")
           named == t.slot # <<>> /\ Names(t.slot[1], t.pair)
           found == Weigh(t.slot, in.id, t.records, latest, t.pair, named, "finished_at")
           versions == <<Version(Current(t.pair[1])), Version(Current(t.pair[2]))>>
           b == [op |-> "audit", pair |-> t.pair, heads |-> t.heads, found |-> found,
                 slot |-> t.slot, records |-> t.records,
                 contract |-> contract_breaking_changes(Current(t.pair[2]).record)]
           a == Assigned(audited_diff(found, t.pair, t.heads, versions), b)
<1>1. /\ t.op = "audit" /\ Done(m) /\ UNCHANGED <<case, file, calls>>
      /\ store' = in.db /\ answer' = [answer EXCEPT ![m] = a]
  BY DEF AuditJudge, Proceed, Says
<1>2. DbInv(store) /\ IdInv(Rowset(store), calls, m, t) /\ TaskInv(Rowset(store), t)
  BY PartsAre
<1>3. /\ DOMAIN b = {"op", "pair", "heads", "found", "slot", "records", "contract"}
      /\ b.op = "audit" /\ b.pair = t.pair /\ b.heads = t.heads /\ b.found = found
      /\ b.slot = t.slot /\ b.records = t.records
  OBVIOUS
<1> HIDE DEF b, a, versions, found, named, latest, db, in, imported, r, t
<1>4. /\ t.id[1] = m /\ t.id[2] \in Nat /\ t.id[2] < calls
      /\ \A e \in Rowset(store) : e.id # t.id
  BY <1>1, <1>2 DEF IdInv, Numbered, Unused
<1>5. /\ IsOption(t.slot) /\ (t.slot # <<>> => DiffIs(t.slot[1]))
      /\ ListInv(Rowset(store), t.records, "branch_diff")
  BY <1>1, <1>2 DEF TaskInv
<1>6. t.slot # <<>> =>
        /\ in = imported /\ RowInv(r) /\ r.id = t.id /\ r.kind = "branch_diff"
        /\ r.payload = t.slot[1] /\ r.created_at = t.slot[1]["finished_at"]
  BY <1>5, DiffRowIs DEF r, in
<1>7. t.slot = <<>> => in = [db |-> store, id |-> <<>>]
  BY DEF in
<1>8. /\ DbInv(db) /\ StoreStep(m) /\ Rowset(store) \subseteq Rowset(db)
      /\ store' = db
      /\ t.slot # <<>> =>
            \E e \in Rowset(db) : /\ e.id = in.id /\ e.kind = "branch_diff"
                                  /\ e.payload = t.slot[1] \/ e.created_at = t.slot[1]["finished_at"]
  <2>1. store' = db
    BY <1>1 DEF db
  <2>2. CASE t.slot = <<>>
    <3>1. db = store
      BY <1>7, <2>2 DEF db
    <3> QED
      BY <1>2, <2>1, <2>2, <3>1, StoreSame
  <2>3. CASE t.slot # <<>>
    <3>1. db = import_evidence(store, r).db /\ in.id = import_evidence(store, r).id
      BY <1>6, <2>3 DEF db, imported
    <3>2. /\ Adds(store, import_evidence(store, r).db, r)
          /\ \E e \in Rowset(import_evidence(store, r).db) :
                /\ e.id = import_evidence(store, r).id /\ e.kind = r.kind
                /\ e.payload = r.payload \/ e.created_at = r.created_at
      BY <1>2, <1>4, <1>6, <2>3, ImportIs
    <3>3. StoreStep(m)
      BY <1>4, <1>6, <2>1, <2>3, <3>1, <3>2, Recorded
    <3> QED
      BY <1>6, <2>1, <2>3, <3>1, <3>2, <3>3 DEF Adds
  <2> QED
    BY <2>2, <2>3
<1>9. IsSequence(latest) /\ \A e \in ToSet(latest) : e \in Rowset(db) /\ e.kind = "branch_diff"
  BY <1>8, LatestIs DEF latest
<1>10. named \in BOOLEAN /\ (named => t.slot # <<>>) /\ (t.slot # <<>> => Dated(t.slot[1]["finished_at"]))
  BY <1>5 DEF named, DiffIs
<1> DEFINE offered == {e.payload : e \in For(t.records, t.pair[2])}
                        \cup IF named THEN {t.slot[1]} ELSE {}
<1>11. found # <<>> => Chosen(db, "branch_diff", "finished_at", t.slot, offered, found)
  <2> SUFFICES ASSUME found # <<>>
               PROVE  Chosen(db, "branch_diff", "finished_at", t.slot, offered, found)
    OBVIOUS
  <2>1. \A e \in Rowset(db) : e.kind = "branch_diff" => e.payload["finished_at"] = e.created_at
    BY <1>8, StampsAre
  <2>2. found = Weigh(t.slot, in.id, t.records, latest, t.pair, named, "finished_at")
    BY DEF found
  <2>3. "branch_diff" # "environment"
    OBVIOUS
  <2>4. t.slot # <<>> /\ in.id # <<>> =>
            \E e \in Rowset(db) : /\ e.id = in.id /\ e.kind = "branch_diff"
                                  /\ e.payload = t.slot[1] \/ e.created_at = t.slot[1]["finished_at"]
    BY <1>8
  <2>5. DbInv(db) /\ Rowset(store) \subseteq Rowset(db)
    BY <1>8
  <2>6. ListInv(Rowset(store), t.records, "branch_diff")
    BY <1>5
  <2> QED
    BY <1>9, <1>10, <2>1, <2>2, <2>3, <2>4, <2>5, <2>6, ChosenIs
<1>12. /\ a.op = "audit" /\ a.pair = t.pair /\ a.heads = t.heads /\ a.found = found
       /\ a.slot = t.slot /\ a.records = t.records
  BY <1>3, SaysIs DEF a
<1>13. Sound(a)
  <2>1. found # <<>> => Proven(found[1].report)
    BY <1>5, <1>8, <1>11, StampsAre DEF DiffIs, Chosen
  <2> DEFINE j == audited_diff(found, t.pair, t.heads, versions)
  <2>2. /\ a.audited = j.audited /\ a.rejected = j.rejected
        /\ a.breaking = j.breaking /\ a.passed = j.passed
    BY <1>3, SaysIs DEF a
  <2>3. j = audited_diff(a.found, a.pair, a.heads, versions)
    BY <1>12
  <2> HIDE DEF j
  <2> QED
    BY <1>12, <2>1, <2>2, <2>3, SoundIs
<1>14. OfferedDiffs(a) = offered
  <2>1. ToSet(t.slot) = IF t.slot = <<>> THEN {} ELSE {t.slot[1]}
    BY <1>5, OptionIs
  <2>2. {x \in ToSet(t.slot) : Names(x, t.pair)} = IF named THEN {t.slot[1]} ELSE {}
    BY <2>1 DEF named
  <2> QED
    BY <1>12, <2>2 DEF OfferedDiffs, ListedFor
<1> HIDE DEF offered
<1>15. AnswerInv(Rowset(store'), a)
  BY <1>8, <1>11, <1>12, <1>13, <1>14 DEF AnswerInv, Chosen
<1> QED
  BY <1>1, <1>8, <1>15, LastStep

LEMMA LineageDiffStep ==
    ASSUME EvidenceInv, NEW m \in Machines, NEW kind \in {"merge-base", "ref"},
           NEW pair, NEW named \in BOOLEAN, LineageDiff(m, kind, pair, named)
    PROVE  EvidenceInv'
<1> DEFINE ref == IF named THEN <<pair[1]>> ELSE <<>>
           made == LineageOf(m, kind, ref)
           artifact == Assigned(made, [base_ref |-> pair[2]])
           t == [op |-> "lineage", step |-> "bind", id |-> <<m, calls, "lineage">>, at |-> Now(m),
                 artifact |-> artifact]
<1>1. /\ UNCHANGED <<case, file, store, answer>> /\ calls' = calls + 1
      /\ task' = [task EXCEPT ![m] = t]
  BY DEF LineageDiff, Begin
<1>2. /\ DOMAIN made = {"base_kind", "base_commit", "git_ref", "head", "dirty", "lineage_hash"}
      /\ made.base_kind = kind /\ made.git_ref = ref
  BY DEF LineageOf
<1>3. IsOption(ref)
  BY DEF IsOption
<1> HIDE DEF made, ref
<1>4. /\ artifact.base_kind = kind /\ artifact.git_ref = ref
      /\ {"base_kind", "git_ref", "base_ref"} \subseteq DOMAIN artifact
  BY <1>2 DEF Assigned
<1> HIDE DEF artifact
<1>5. /\ DOMAIN t = {"op", "step", "id", "at", "artifact"} /\ t.op = "lineage" /\ t.step = "bind"
      /\ t.id = <<m, calls, "lineage">> /\ t.at = Now(m) /\ t.artifact = artifact
  OBVIOUS
<1> HIDE DEF t
<1>6. /\ DOMAIN task' = Machines /\ \A k \in Machines \ {m} : task'[k] = task[k]
      /\ task'[m] = t /\ IdInv(Rowset(store), calls', m, task'[m])
  BY <1>1, <1>5, BegunIs
<1>7. TaskInv(Rowset(store), t)
  BY <1>3, <1>4, <1>5, NowDated DEF TaskInv, ArtifactIs
<1>8. Alone(m)
  BY <1>1, <1>6, PartsAre DEF Alone
<1> QED
  BY <1>1, <1>6, <1>7, <1>8, StoreSame, StepIs

LEMMA LineageBindStep ==
    ASSUME EvidenceInv, NEW m \in Machines, LineageBind(m)
    PROVE  EvidenceInv'
<1> DEFINE t == task[m]
           u == task'[m]
           artifact == t.artifact
           pair == <<artifact.git_ref[1], artifact.base_ref>>
           bound == <<[pair |-> pair, heads |-> Heads(pair)]>>
<1>1. PICK found \in BOOLEAN :
        LET done == Assigned(artifact, [created_at |-> t.at,
                      environment |-> IF found /\ artifact.git_ref # <<>> THEN bound ELSE <<>>])
        IN  /\ file' = [file EXCEPT ![m].lineage = <<done>>]
            /\ task' = [task EXCEPT ![m].step = "record", ![m].artifact = done]
  BY DEF LineageBind
<1> DEFINE environment == IF found /\ artifact.git_ref # <<>> THEN bound ELSE <<>>
           done == Assigned(artifact, [created_at |-> t.at, environment |-> environment])
           f == [file[m] EXCEPT !.lineage = <<done>>]
           v == [t EXCEPT !.step = "record", !.artifact = done]
<1>2. t.op = "lineage" /\ UNCHANGED <<case, store, answer, calls>>
  BY DEF LineageBind, Proceed
<1>3. file' = [file EXCEPT ![m] = f] /\ task' = [task EXCEPT ![m] = v]
  BY <1>1
<1>4. /\ FileInv(file[m]) /\ IdInv(Rowset(store), calls, m, t) /\ TaskInv(Rowset(store), t)
      /\ DOMAIN file = Machines /\ DOMAIN task = Machines /\ DOMAIN answer = Machines
  BY PartsAre
<1>5. /\ {"op", "step", "id", "at", "artifact"} \subseteq DOMAIN t
      /\ Dated(t.at) /\ ArtifactIs(artifact)
  BY <1>2, <1>4 DEF IdInv, TaskInv, Numbered
<1>6. LineageIs(done)
  <2>1. /\ done.created_at = t.at /\ done.environment = environment
        /\ artifact.base_kind \in {"merge-base", "ref"} /\ IsOption(artifact.git_ref)
    BY <1>5 DEF Assigned, ArtifactIs
  <2>2. /\ done.base_kind = artifact.base_kind /\ done.git_ref = artifact.git_ref
        /\ done.base_ref = artifact.base_ref
        /\ {"base_kind", "git_ref", "base_ref"} \subseteq DOMAIN done
    <3>1. {"base_kind", "git_ref", "base_ref"} \subseteq DOMAIN artifact
      BY <1>5 DEF ArtifactIs
    <3> HIDE DEF environment, artifact
    <3> QED
      BY <3>1 DEF Assigned
  <2>3. environment # <<>> => /\ artifact.git_ref # <<>>
                              /\ environment[1].pair = <<artifact.git_ref[1], artifact.base_ref>>
    OBVIOUS
  <2> HIDE DEF done, environment, artifact
  <2> QED
    BY <1>5, <2>1, <2>2, <2>3 DEF LineageIs, ArtifactIs
<1> HIDE DEF done
<1>7. DOMAIN file' = Machines /\ file'[m] = f /\ \A k \in Machines \ {m} : file'[k] = file[k]
  <2> HIDE DEF f
  <2> QED
    BY <1>3, <1>4, Put1
<1>8. DOMAIN task' = Machines /\ u = v /\ \A k \in Machines \ {m} : task'[k] = task[k]
  <2> HIDE DEF v
  <2> QED
    BY <1>3, <1>4, Put1
<1>9. FileInv(f)
  <2>1. f.lineage = <<done>> /\ f.diff = file[m].diff /\ DOMAIN f = DOMAIN file[m]
    BY <1>4 DEF FileInv
  <2> HIDE DEF f
  <2> QED
    BY <1>4, <1>6, <2>1 DEF FileInv, IsOption
<1>10. /\ DOMAIN v = DOMAIN t /\ v.op = t.op /\ v.id = t.id /\ v.artifact = done /\ v.at = t.at
  BY <1>5
<1> HIDE DEF t, u, v, f
<1>11. IdInv(Rowset(store), calls, m, u)
  BY <1>2, <1>4, <1>8, <1>10 DEF IdInv, Unrecorded
<1>12. TaskInv(Rowset(store), u)
  BY <1>2, <1>5, <1>6, <1>8, <1>10 DEF TaskInv, LineageIs
<1>13. Alone(m)
  BY <1>2, <1>4, <1>7, <1>8 DEF Alone
<1> QED
  BY <1>2, <1>7, <1>9, <1>11, <1>12, <1>13, StoreSame, StepIs DEF u

LEMMA LineageRowIs ==
    ASSUME NEW artifact, LineageIs(artifact), artifact.git_ref # <<>>, NEW id,
           NEW r, r = lineage_diff_record(artifact, id)
    PROVE  /\ RowInv(r) /\ r.id = id /\ r.kind = "lineage_diff" /\ r.payload = artifact
           /\ r.created_at = artifact["created_at"]
<1>1. /\ r.id = id /\ r.kind = "lineage_diff" /\ r.payload = artifact
      /\ r.created_at = artifact.created_at
      /\ r.subject = artifact.git_ref[1] /\ r.target = artifact.base_ref
  BY DEF lineage_diff_record
<1>2. artifact.git_ref = <<artifact.git_ref[1]>>
  BY DEF LineageIs, ArtifactIs, IsOption
<1> QED
  BY <1>1, <1>2 DEF RowInv, LineageIs

LEMMA LineageRecordStep ==
    ASSUME EvidenceInv, NEW m \in Machines, LineageRecord(m)
    PROVE  EvidenceInv'
<1> DEFINE t == task[m]
           r == lineage_diff_record(t.artifact, t.id)
<1>1. /\ t.op = "lineage" /\ t.step = "record" /\ Done(m)
      /\ UNCHANGED <<case, file, answer, calls>>
      /\ store' = IF t.artifact.git_ref = <<>> THEN store ELSE S!record_evidence(store, r)
  BY DEF LineageRecord, Proceed
<1>2. /\ DbInv(store) /\ IdInv(Rowset(store), calls, m, t) /\ TaskInv(Rowset(store), t)
  BY PartsAre
<1>3. LineageIs(t.artifact)
  BY <1>1, <1>2 DEF TaskInv
<1>4. t.artifact.git_ref # <<>> => RowInv(r) /\ r.id = t.id
  BY <1>3, LineageRowIs
<1>5. t.id[1] = m /\ t.id[2] \in Nat /\ t.id[2] < calls
  BY <1>1, <1>2 DEF IdInv, Numbered
<1> HIDE DEF r, t
<1>6. StoreStep(m)
  <2>1. CASE t.artifact.git_ref = <<>>
    BY <1>1, <2>1, StoreSame
  <2>2. CASE t.artifact.git_ref # <<>>
    <3>1. Adds(store, store', r)
      BY <1>1, <1>2, <1>4, <2>2, RecordIs
    <3> QED
      BY <1>4, <1>5, <2>2, <3>1, Recorded
  <2> QED
    BY <2>1, <2>2
<1> QED
  BY <1>1, <1>6, LastStep

LEMMA AuditLineageStep ==
    ASSUME EvidenceInv, NEW m \in Machines, NEW pair, AuditLineage(m, pair)
    PROVE  EvidenceInv'
<1> DEFINE t == [op |-> "audit_lineage", step |-> "judge", pair |-> pair, heads |-> Heads(pair),
                 slot |-> file[m].lineage, records |-> Records("lineage_diff", pair[1]),
                 lineage_hash |-> git[m].tree, id |-> <<m, calls, "import">>]
<1>1. /\ UNCHANGED <<case, file, store, answer>> /\ calls' = calls + 1
      /\ task' = [task EXCEPT ![m] = t]
  BY DEF AuditLineage, Begin
<1>2. /\ {"op", "step", "id"} \subseteq DOMAIN t /\ t.id = <<m, calls, "import">>
      /\ t.op = "audit_lineage" /\ t.slot = file[m].lineage
      /\ t.records = Records("lineage_diff", pair[1])
  OBVIOUS
<1> HIDE DEF t
<1>3. /\ DOMAIN task' = Machines /\ \A k \in Machines \ {m} : task'[k] = task[k]
      /\ task'[m] = t /\ IdInv(Rowset(store), calls', m, task'[m])
  BY <1>1, <1>2, BegunIs
<1>4. FileInv(file[m])
  BY PartsAre
<1>5. TaskInv(Rowset(store), t)
  BY <1>2, <1>4, ListsAre DEF TaskInv, FileInv
<1>6. Alone(m)
  BY <1>1, <1>3, PartsAre DEF Alone
<1> QED
  BY <1>1, <1>3, <1>5, <1>6, StoreSame, StepIs

\* Lineage that is said to hold is of this tree and of the base of now.
LEMMA LineageUpheld ==
    ASSUME NEW a, a.found # <<>>, NEW dirty, NEW artifact, artifact = a.found[1].report,
           LineageIs(artifact),
           a.status = audited_lineage(artifact, a.pair, a.heads, a.lineage_hash, a.here, dirty)
    PROVE  Upheld(a)
<1>1. a.status # "stale" => artifact.lineage_hash = a.lineage_hash
  BY DEF audited_lineage
<1>2. a.status = "current" => artifact.git_ref = <<a.pair[1]>> /\ artifact.base_ref = a.pair[2]
  <2> SUFFICES ASSUME a.status = "current"
               PROVE  artifact.git_ref = <<a.pair[1]>> /\ artifact.base_ref = a.pair[2]
    OBVIOUS
  <2>1. artifact.environment # <<>>
    BY DEF audited_lineage
  <2>2. artifact.environment[1] = [pair |-> a.pair, heads |-> a.heads]
    BY <2>1 DEF audited_lineage
  <2>3. artifact.environment[1].pair = a.pair
    BY <2>2
  <2>4. /\ artifact.git_ref = <<artifact.git_ref[1]>>
        /\ a.pair = <<artifact.git_ref[1], artifact.base_ref>>
    BY <2>1, <2>3 DEF LineageIs, ArtifactIs, IsOption
  <2> QED
    BY <2>4
<1>3. a.status = "advisory" =>
        artifact.base_commit = IF artifact.base_kind = "ref" THEN a.here.main ELSE a.here.fork
  <2>1. artifact.base_kind \in {"merge-base", "ref"}
    BY DEF LineageIs, ArtifactIs
  <2> QED
    BY <2>1 DEF audited_lineage
<1> QED
  BY <1>1, <1>2, <1>3 DEF Upheld

LEMMA LineageJudgeStep ==
    ASSUME EvidenceInv, NEW m \in Machines, LineageJudge(m)
    PROVE  EvidenceInv'
<1> DEFINE t == task[m]
           r == lineage_diff_record(t.slot[1], t.id)
           imported == import_evidence(store, r)
           imports == t.slot # <<>> /\ t.slot[1].git_ref # <<>>
           in == IF t.slot = <<>> \/ t.slot[1].git_ref = <<>> THEN [db |-> store, id |-> <<>>]
                 ELSE imported
           db == in.db
           named == /\ t.slot # <<>>
                    /\ t.slot[1].git_ref = <<t.pair[1]>>
                    /\ t.slot[1].base_ref = t.pair[2]
           found == Weigh(t.slot, in.id, t.records, <<>>, t.pair, named, "created_at")
           a == [op |-> "lineage", pair |-> t.pair, heads |-> t.heads, found |-> found,
                 slot |-> t.slot, records |-> t.records, here |-> git[m],
                 lineage_hash |-> t.lineage_hash,
                 status |-> IF found = <<>> THEN "none"
                            ELSE audited_lineage(found[1].report, t.pair, t.heads,
                                   t.lineage_hash, git[m], Dirty(m))]
<1>1. /\ t.op = "audit_lineage" /\ Done(m) /\ UNCHANGED <<case, file, calls>>
      /\ store' = in.db /\ answer' = [answer EXCEPT ![m] = a]
  BY DEF LineageJudge, Proceed, Says
<1>2. DbInv(store) /\ IdInv(Rowset(store), calls, m, t) /\ TaskInv(Rowset(store), t)
  BY PartsAre
<1>3. /\ a.op = "lineage" /\ a.pair = t.pair /\ a.heads = t.heads /\ a.found = found
      /\ a.slot = t.slot /\ a.records = t.records /\ a.here = git[m]
      /\ a.lineage_hash = t.lineage_hash
      /\ found # <<>> => a.status = audited_lineage(found[1].report, t.pair, t.heads,
                                       t.lineage_hash, git[m], Dirty(m))
  <2> HIDE DEF found
  <2> QED
    OBVIOUS
<1> HIDE DEF a, found, named, db, in, imports, imported, r, t
<1>4. /\ t.id[1] = m /\ t.id[2] \in Nat /\ t.id[2] < calls
      /\ \A e \in Rowset(store) : e.id # t.id
  BY <1>1, <1>2 DEF IdInv, Numbered, Unused
<1>5. /\ IsOption(t.slot) /\ (t.slot # <<>> => LineageIs(t.slot[1]))
      /\ ListInv(Rowset(store), t.records, "lineage_diff")
  BY <1>1, <1>2 DEF TaskInv
<1>6. imports =>
        /\ in = imported /\ RowInv(r) /\ r.id = t.id /\ r.kind = "lineage_diff"
        /\ r.payload = t.slot[1] /\ r.created_at = t.slot[1]["created_at"]
  BY <1>5, LineageRowIs DEF r, in, imports
<1>7. ~imports => db = store /\ in.id = <<>>
  <2>1. ~imports => in = [db |-> store, id |-> <<>>]
    BY DEF in, imports
  <2> QED
    BY <2>1 DEF db
<1>8. /\ DbInv(db) /\ StoreStep(m) /\ Rowset(store) \subseteq Rowset(db)
      /\ store' = db
      /\ t.slot # <<>> /\ in.id # <<>> =>
            \E e \in Rowset(db) : /\ e.id = in.id /\ e.kind = "lineage_diff"
                                  /\ e.payload = t.slot[1] \/ e.created_at = t.slot[1]["created_at"]
  <2>1. store' = db
    BY <1>1 DEF db
  <2>2. CASE ~imports
    BY <1>2, <1>7, <2>1, <2>2, StoreSame
  <2>3. CASE imports
    <3>1. db = import_evidence(store, r).db /\ in.id = import_evidence(store, r).id
      BY <1>6, <2>3 DEF db, imported
    <3>2. /\ Adds(store, import_evidence(store, r).db, r)
          /\ \E e \in Rowset(import_evidence(store, r).db) :
                /\ e.id = import_evidence(store, r).id /\ e.kind = r.kind
                /\ e.payload = r.payload \/ e.created_at = r.created_at
      BY <1>2, <1>4, <1>6, <2>3, ImportIs
    <3>3. StoreStep(m)
      BY <1>4, <1>6, <2>1, <2>3, <3>1, <3>2, Recorded
    <3> QED
      BY <1>6, <2>1, <2>3, <3>1, <3>2, <3>3 DEF Adds
  <2> QED
    BY <2>2, <2>3
<1>9. IsSequence(<<>>) /\ \A e \in ToSet(<<>>) : e \in Rowset(db) /\ e.kind = "lineage_diff"
  <2>1. ToSet(<<>>) = {}
    BY EmptyIs DEF ToSet
  <2> QED
    BY <2>1 DEF IsSequence
<1>10. /\ named \in BOOLEAN /\ (named => t.slot # <<>>)
       /\ t.slot # <<>> => Dated(t.slot[1]["created_at"])
  BY <1>5 DEF named, LineageIs
<1> DEFINE offered == {e.payload : e \in For(t.records, t.pair[2])}
                        \cup IF named THEN {t.slot[1]} ELSE {}
<1>11. found # <<>> => Chosen(db, "lineage_diff", "created_at", t.slot, offered, found)
  <2> SUFFICES ASSUME found # <<>>
               PROVE  Chosen(db, "lineage_diff", "created_at", t.slot, offered, found)
    OBVIOUS
  <2>1. \A e \in Rowset(db) : e.kind = "lineage_diff" => e.payload["created_at"] = e.created_at
    BY <1>8, StampsAre
  <2>2. found = Weigh(t.slot, in.id, t.records, <<>>, t.pair, named, "created_at")
    BY DEF found
  <2>3. "lineage_diff" # "environment"
    OBVIOUS
  <2>4. t.slot # <<>> /\ in.id # <<>> =>
            \E e \in Rowset(db) : /\ e.id = in.id /\ e.kind = "lineage_diff"
                                  /\ e.payload = t.slot[1] \/ e.created_at = t.slot[1]["created_at"]
    BY <1>8
  <2>5. DbInv(db) /\ Rowset(store) \subseteq Rowset(db)
    BY <1>8
  <2>6. ListInv(Rowset(store), t.records, "lineage_diff")
    BY <1>5
  <2> QED
    BY <1>9, <1>10, <2>1, <2>2, <2>3, <2>4, <2>5, <2>6, ChosenIs
<1>12. OfferedLineage(a) = offered
  <2>1. ToSet(t.slot) = IF t.slot = <<>> THEN {} ELSE {t.slot[1]}
    BY <1>5, OptionIs
  <2>2. {x \in ToSet(t.slot) : x.git_ref = <<t.pair[1]>> /\ x.base_ref = t.pair[2]}
          = IF named THEN {t.slot[1]} ELSE {}
    BY <2>1 DEF named
  <2> QED
    BY <1>3, <2>2 DEF OfferedLineage, ListedFor
<1> HIDE DEF offered
<1>13. found # <<>> => Upheld(a)
  <2> SUFFICES ASSUME found # <<>> PROVE Upheld(a)
    OBVIOUS
  <2>1. LineageIs(found[1].report)
    BY <1>5, <1>8, <1>11 DEF Chosen, DbInv, RowInv
  <2>2. a.found = found /\ a.status = audited_lineage(found[1].report, a.pair, a.heads,
                                         a.lineage_hash, a.here, Dirty(m))
    BY <1>3
  <2> QED
    BY <2>1, <2>2, LineageUpheld
<1>14. AnswerInv(Rowset(store'), a)
  BY <1>3, <1>8, <1>11, <1>12, <1>13 DEF AnswerInv, Chosen
<1> QED
  BY <1>1, <1>8, <1>14, LastStep

\* Of the files, only those of bindings are written.
LEMMA OtherFiles ==
    ASSUME EvidenceInv, NEW m \in Machines, NEW g, file' = [file EXCEPT ![m] = g],
           DOMAIN g = DOMAIN file[m], g.diff = file[m].diff, g.lineage = file[m].lineage
    PROVE  /\ DOMAIN file' = Machines /\ \A k \in Machines \ {m} : file'[k] = file[k]
           /\ FileInv(file'[m])
<1>1. DOMAIN file = Machines /\ FileInv(file[m])
  BY PartsAre
<1>2. DOMAIN file' = Machines /\ file'[m] = g /\ \A k \in Machines \ {m} : file'[k] = file[k]
  BY <1>1, Put1
<1>3. FileInv(g)
  BY <1>1 DEF FileInv
<1> QED
  BY <1>2, <1>3

\* The next step of a task about bindings.
LEMMA GoneOn ==
    ASSUME EvidenceInv, NEW m \in Machines, NEW s, Goto(m, s),
           task[m].op \in {"provision", "remove"},
           NEW rows, s = "record" /\ task[m].op = "provision" =>
                        Unrecorded(task[m]) /\ rows = Rowset(store),
           s # "check"
    PROVE  /\ DOMAIN task' = Machines /\ \A k \in Machines \ {m} : task'[k] = task[k]
           /\ IdInv(rows, calls, m, task'[m]) /\ TaskInv(rows, task'[m])
<1> DEFINE t == task[m]
           u == task'[m]
<1>1. /\ DOMAIN task' = Machines /\ \A k \in Machines \ {m} : task'[k] = task[k]
      /\ u = [t EXCEPT !.step = s]
  BY GotoIs
<1>2. IdInv(Rowset(store), calls, m, t) /\ TaskInv(Rowset(store), t)
  BY PartsAre
<1> HIDE DEF t, u
<1>3. /\ "op" \in DOMAIN t /\ t.op \in {"provision", "remove"}
      /\ t.op = "provision" => {"step", "id", "at"} \subseteq DOMAIN t
  BY <1>2 DEF IdInv, TaskInv, Numbered, t
<1>4. /\ DOMAIN u = DOMAIN t /\ u.op = t.op
      /\ t.op = "provision" => u.id = t.id /\ u.at = t.at
  BY <1>1, <1>3
<1>5. IdInv(rows, calls, m, u)
  <2>1. u.step = s
    BY <1>1, <1>2, <1>3 DEF IdInv
  <2>2. Unrecorded(u) => \A e \in rows : e.id # u.id
    BY <1>2, <1>4, <2>1 DEF IdInv, Unrecorded, t
  <2> QED
    BY <1>2, <1>3, <1>4, <2>2 DEF IdInv, Numbered, Unused
<1>6. TaskInv(rows, u)
  BY <1>2, <1>3, <1>4 DEF TaskInv
<1> QED
  BY <1>1, <1>5, <1>6 DEF u

LEMMA BindingRowIs ==
    ASSUME NEW setup, NEW id, NEW at, Dated(at), NEW r, r = environment_record(setup, id, at)
    PROVE  RowInv(r) /\ r.id = id /\ r.kind = "environment"
<1>1. r.id = id /\ r.kind = "environment" /\ r.created_at = at
  BY DEF environment_record
<1> QED
  BY <1>1 DEF RowInv

LEMMA ProvisionStep ==
    ASSUME EvidenceInv, NEW m \in Machines, NEW ref, NEW base, Provision(m, ref, base)
    PROVE  EvidenceInv'
<1> DEFINE t == [op |-> "provision", step |-> "check", id |-> <<m, calls, "provision">>,
                 at |-> Now(m), setup |-> [candidate |-> ref, created_from |-> base]]
<1>1. /\ UNCHANGED <<case, file, store, answer>> /\ calls' = calls + 1
      /\ task' = [task EXCEPT ![m] = t]
  BY DEF Provision, Begin
<1>2. /\ DOMAIN t = {"op", "step", "id", "at", "setup"} /\ t.id = <<m, calls, "provision">>
      /\ t.op = "provision" /\ t.at = Now(m)
  OBVIOUS
<1> HIDE DEF t
<1>3. /\ DOMAIN task' = Machines /\ \A k \in Machines \ {m} : task'[k] = task[k]
      /\ task'[m] = t /\ IdInv(Rowset(store), calls', m, task'[m])
  BY <1>1, <1>2, BegunIs
<1>4. TaskInv(Rowset(store), t)
  BY <1>2, NowDated DEF TaskInv
<1>5. Alone(m)
  BY <1>1, <1>3, PartsAre DEF Alone
<1> QED
  BY <1>1, <1>3, <1>4, <1>5, StoreSame, StepIs

LEMMA ProvisionCheckStep ==
    ASSUME EvidenceInv, NEW m \in Machines, ProvisionCheck(m)
    PROVE  EvidenceInv'
<1>1. /\ task[m].op = "provision" /\ Unrecorded(task[m])
      /\ UNCHANGED <<case, file, store, answer, calls>>
  BY DEF ProvisionCheck, Proceed, Unrecorded
<1>2. PICK s \in {"slot", "record"} : Goto(m, s)
  BY DEF ProvisionCheck
<1>3. /\ DOMAIN task' = Machines /\ \A k \in Machines \ {m} : task'[k] = task[k]
      /\ IdInv(Rowset(store), calls, m, task'[m]) /\ TaskInv(Rowset(store), task'[m])
  BY <1>1, <1>2, GoneOn
<1>4. Alone(m)
  BY <1>1, <1>3, PartsAre DEF Alone
<1> QED
  BY <1>1, <1>3, <1>4, StoreSame, StepIs

LEMMA ProvisionRecordStep ==
    ASSUME EvidenceInv, NEW m \in Machines, ProvisionRecord(m)
    PROVE  EvidenceInv'
<1> DEFINE t == task[m]
           r == environment_record(t.setup, t.id, t.at)
<1>1. /\ t.op = "provision" /\ Goto(m, "slot") /\ UNCHANGED <<case, file, answer, calls>>
      /\ store' = S!record_evidence(store, r)
  BY DEF ProvisionRecord, Proceed
<1>2. DbInv(store) /\ IdInv(Rowset(store), calls, m, t) /\ TaskInv(Rowset(store), t)
  BY PartsAre
<1>3. RowInv(r) /\ r.id = t.id
  BY <1>1, <1>2, BindingRowIs DEF TaskInv
<1>4. t.id[1] = m /\ t.id[2] \in Nat /\ t.id[2] < calls
  BY <1>1, <1>2 DEF IdInv, Numbered
<1>5. /\ DOMAIN task' = Machines /\ \A k \in Machines \ {m} : task'[k] = task[k]
      /\ IdInv(Rowset(store'), calls, m, task'[m]) /\ TaskInv(Rowset(store'), task'[m])
  BY <1>1, GoneOn
<1> HIDE DEF r, t
<1>6. Adds(store, store', r)
  BY <1>1, <1>2, <1>3, RecordIs
<1>7. StoreStep(m)
  BY <1>3, <1>4, <1>6, Recorded
<1>8. Alone(m)
  BY <1>1, <1>5, PartsAre DEF Alone
<1> QED
  BY <1>1, <1>5, <1>7, <1>8, StepIs

LEMMA ProvisionSlotStep ==
    ASSUME EvidenceInv, NEW m \in Machines, ProvisionSlot(m)
    PROVE  EvidenceInv'
<1> DEFINE g == [file[m] EXCEPT !.slot = <<task[m].setup>>]
<1>1. /\ task[m].op = "provision" /\ Goto(m, "file") /\ UNCHANGED <<case, store, answer, calls>>
      /\ file' = [file EXCEPT ![m] = g]
  BY DEF ProvisionSlot, Proceed
<1>2. DOMAIN g = DOMAIN file[m] /\ g.diff = file[m].diff /\ g.lineage = file[m].lineage
  BY PartsAre DEF FileInv
<1> HIDE DEF g
<1>3. /\ DOMAIN file' = Machines /\ \A k \in Machines \ {m} : file'[k] = file[k]
      /\ FileInv(file'[m])
  BY <1>1, <1>2, OtherFiles
<1>4. /\ DOMAIN task' = Machines /\ \A k \in Machines \ {m} : task'[k] = task[k]
      /\ IdInv(Rowset(store), calls, m, task'[m]) /\ TaskInv(Rowset(store), task'[m])
  BY <1>1, GoneOn
<1>5. Alone(m)
  BY <1>1, <1>3, <1>4, PartsAre DEF Alone
<1> QED
  BY <1>1, <1>3, <1>4, <1>5, StoreSame, StepIs

LEMMA ProvisionFileStep ==
    ASSUME EvidenceInv, NEW m \in Machines, ProvisionFile(m)
    PROVE  EvidenceInv'
<1> DEFINE g == [file[m] EXCEPT !.own[task[m].setup.candidate] = <<task[m].setup>>]
<1>1. /\ Done(m) /\ UNCHANGED <<case, store, answer, calls>>
      /\ file' = [file EXCEPT ![m] = g]
  BY DEF ProvisionFile
<1>2. DOMAIN g = DOMAIN file[m] /\ g.diff = file[m].diff /\ g.lineage = file[m].lineage
  BY PartsAre DEF FileInv
<1> HIDE DEF g
<1>3. /\ DOMAIN file' = Machines /\ \A k \in Machines \ {m} : file'[k] = file[k]
      /\ FileInv(file'[m])
  BY <1>1, <1>2, OtherFiles
<1>4. Alone(m)
  BY <1>1, <1>3, DoneIs, PartsAre DEF Alone
<1> QED
  BY <1>1, <1>3, <1>4, DoneIs, StoreSame, StepIs

LEMMA ReadBindingStep ==
    ASSUME EvidenceInv, NEW m \in Machines, NEW ref, ReadBinding(m, ref)
    PROVE  EvidenceInv'
<1> DEFINE standing == Binding(ref)
           a == [op |-> "binding", setup |-> <<standing[1].payload>>]
           t == [op |-> "read", step |-> "import", ref |-> ref, at |-> Now(m),
                 id |-> <<m, calls, "import">>]
<1>1. /\ UNCHANGED <<case, file, store>> /\ calls' = calls + 1
      /\ \/ answer' = [answer EXCEPT ![m] = a] /\ task' = task
         \/ answer' = answer /\ task' = [task EXCEPT ![m] = t]
  BY DEF ReadBinding, Begin, Says
<1>2. a.op = "binding"
  OBVIOUS
<1>3. /\ DOMAIN t = {"op", "step", "ref", "at", "id"} /\ t.id = <<m, calls, "import">>
      /\ t.op = "read" /\ t.at = Now(m)
  OBVIOUS
<1> HIDE DEF a, t, standing
<1>4. CASE answer' = [answer EXCEPT ![m] = a] /\ task' = task
  <2>1. /\ DOMAIN answer' = Machines /\ answer'[m] = a
        /\ \A k \in Machines \ {m} : answer'[k] = answer[k]
    BY <1>4, PartsAre, Put1
  <2>2. AnswerInv(Rowset(store'), a)
    BY <1>2 DEF AnswerInv
  <2>3. Alone(m)
    BY <1>1, <1>4, <2>1, PartsAre DEF Alone
  <2> QED
    BY <1>1, <1>4, <2>1, <2>2, <2>3, StoreSame, StepIs
<1>5. CASE answer' = answer /\ task' = [task EXCEPT ![m] = t]
  <2>1. {"op", "step", "id"} \subseteq DOMAIN t
    BY <1>3
  <2>2. /\ DOMAIN task' = Machines /\ \A k \in Machines \ {m} : task'[k] = task[k]
        /\ task'[m] = t /\ IdInv(Rowset(store), calls', m, task'[m])
    BY <1>1, <1>3, <1>5, <2>1, BegunIs
  <2>3. TaskInv(Rowset(store), t)
    BY <1>3, NowDated DEF TaskInv
  <2>4. Alone(m)
    BY <1>1, <1>5, <2>2, PartsAre DEF Alone
  <2> QED
    BY <1>1, <1>5, <2>2, <2>3, <2>4, StoreSame, StepIs
<1> QED
  BY <1>1, <1>4, <1>5

\* A binding that a file brings into the store.
LEMMA ImportedBinding ==
    ASSUME EvidenceInv, NEW m \in Machines, NEW setup, NEW id, NEW at, Dated(at),
           id[1] = m, id[2] \in Nat, id[2] < calls,
           store' = import_evidence(store, environment_record(setup, id, at)).db
    PROVE  StoreStep(m)
<1> DEFINE r == environment_record(setup, id, at)
<1>1. RowInv(r) /\ r.id = id
  BY BindingRowIs
<1> HIDE DEF r
<1>2. Adds(store, store', r)
  BY <1>1, PartsAre, ImportIs DEF r
<1> QED
  BY <1>1, <1>2, Recorded

LEMMA ReadFilesStep ==
    ASSUME EvidenceInv, NEW m \in Machines, ReadFiles(m)
    PROVE  EvidenceInv'
<1> DEFINE t == task[m]
           found == file[m].own[t.ref] \o Slot(m, t.ref)
           a == [op |-> "binding", setup |-> IF found = <<>> THEN <<>> ELSE <<found[1]>>]
<1>1. /\ t.op = "read" /\ Done(m) /\ UNCHANGED <<case, file, calls>>
      /\ store' = IF found = <<>> THEN store
                  ELSE import_evidence(store, environment_record(found[1], t.id, t.at)).db
      /\ answer' = [answer EXCEPT ![m] = a]
  BY DEF ReadFiles, Proceed, Says
<1>2. a.op = "binding"
  OBVIOUS
<1> HIDE DEF a, found, t
<1>3. IdInv(Rowset(store), calls, m, t) /\ TaskInv(Rowset(store), t)
  BY PartsAre DEF t
<1>4. t.id[1] = m /\ t.id[2] \in Nat /\ t.id[2] < calls /\ Dated(t.at)
  BY <1>1, <1>3 DEF IdInv, TaskInv, Numbered
<1>5. StoreStep(m)
  BY <1>1, <1>4, StoreSame, ImportedBinding
<1>6. AnswerInv(Rowset(store'), a)
  BY <1>2 DEF AnswerInv
<1> QED
  BY <1>1, <1>5, <1>6, LastStep

LEMMA ScanBindingsStep ==
    ASSUME EvidenceInv, NEW m \in Machines, ScanBindings(m)
    PROVE  EvidenceInv'
<1> DEFINE known == {e.subject : e \in S!latest_evidence(store, "environment")}
           t == [op |-> "scan", step |-> "import", at |-> Now(m), id |-> <<m, calls, "import">>,
                 left |-> Candidates \ known]
<1>1. /\ UNCHANGED <<case, file, store, answer>> /\ calls' = calls + 1
      /\ task' = task \/ task' = [task EXCEPT ![m] = t]
  BY DEF ScanBindings, Begin
<1>2. /\ DOMAIN t = {"op", "step", "at", "id", "left"} /\ t.id = <<m, calls, "import">>
      /\ t.op = "scan" /\ t.at = Now(m)
  OBVIOUS
<1> HIDE DEF t
<1>3. CASE task' = task
  <2>1. Alone(m)
    BY <1>1, <1>3, PartsAre DEF Alone
  <2> QED
    BY <1>1, <1>3, <2>1, StoreSame, StepIs
<1>4. CASE task' = [task EXCEPT ![m] = t]
  <2>1. {"op", "step", "id"} \subseteq DOMAIN t
    BY <1>2
  <2>2. /\ DOMAIN task' = Machines /\ \A k \in Machines \ {m} : task'[k] = task[k]
        /\ task'[m] = t /\ IdInv(Rowset(store), calls', m, task'[m])
    BY <1>1, <1>2, <1>4, <2>1, BegunIs
  <2>3. TaskInv(Rowset(store), t)
    BY <1>2, NowDated DEF TaskInv
  <2>4. Alone(m)
    BY <1>1, <2>2, PartsAre DEF Alone
  <2> QED
    BY <1>1, <2>2, <2>3, <2>4, StoreSame, StepIs
<1> QED
  BY <1>1, <1>3, <1>4

LEMMA ScanFileStep ==
    ASSUME EvidenceInv, NEW m \in Machines, NEW ref, ScanFile(m, ref)
    PROVE  EvidenceInv'
<1> DEFINE t == task[m]
           u == task'[m]
           setups == ToSet(file[m].own[ref] \o Slot(m, ref))
           id == <<m, t.id[2], ref>>
           w == [t EXCEPT !.left = @ \ {ref}]
<1>1. /\ t.op = "scan" /\ UNCHANGED <<case, file, answer, calls>>
      /\ \/ store' = store
         \/ \E setup \in setups :
              store' = import_evidence(store, environment_record(setup, id, t.at)).db
      /\ Done(m) \/ task' = [task EXCEPT ![m] = w]
  BY DEF ScanFile, Proceed
<1>2. /\ IdInv(Rowset(store), calls, m, t) /\ TaskInv(Rowset(store), t)
      /\ DOMAIN task = Machines /\ DOMAIN file = Machines /\ DOMAIN answer = Machines
  BY PartsAre
<1>3. /\ t.id[1] = m /\ t.id[2] \in Nat /\ t.id[2] < calls /\ Dated(t.at)
      /\ {"op", "step", "id", "at"} \subseteq DOMAIN t
  BY <1>1, <1>2 DEF IdInv, TaskInv, Numbered
<1>4. id[1] = m /\ id[2] = t.id[2]
  OBVIOUS
<1>5. DOMAIN w = DOMAIN t /\ w.op = t.op /\ w.id = t.id /\ w.at = t.at
  BY <1>3
<1> HIDE DEF t, u, setups, id, w
<1>6. StoreStep(m)
  BY <1>1, <1>3, <1>4, StoreSame, ImportedBinding
<1>7. IdInv(Rowset(store'), calls, m, w) /\ TaskInv(Rowset(store'), w)
  BY <1>1, <1>2, <1>3, <1>5 DEF IdInv, TaskInv, Numbered, Unused, Unrecorded
<1>8. /\ DOMAIN task' = Machines /\ \A k \in Machines \ {m} : task'[k] = task[k]
      /\ IdInv(Rowset(store'), calls', m, task'[m]) /\ TaskInv(Rowset(store'), task'[m])
  <2>1. CASE Done(m)
    BY <2>1, DoneIs
  <2>2. CASE task' = [task EXCEPT ![m] = w]
    BY <1>1, <1>2, <1>7, <2>2, Put1
  <2> QED
    BY <1>1, <2>1, <2>2
<1>9. Alone(m)
  BY <1>1, <1>2, <1>8 DEF Alone
<1> QED
  BY <1>1, <1>6, <1>8, <1>9, StepIs

LEMMA DeleteStep ==
    ASSUME EvidenceInv, NEW m \in Machines, NEW ref, Delete(m, ref)
    PROVE  EvidenceInv'
<1> DEFINE g == [file[m] EXCEPT !.own[ref] = <<>>]
           t == [op |-> "remove", step |-> "slot", ref |-> ref]
<1>1. /\ UNCHANGED <<case, store, answer>> /\ calls' = calls + 1
      /\ file' = [file EXCEPT ![m] = g] /\ task' = [task EXCEPT ![m] = t]
  BY DEF Delete, Begin
<1>2. DOMAIN g = DOMAIN file[m] /\ g.diff = file[m].diff /\ g.lineage = file[m].lineage
  BY PartsAre DEF FileInv
<1>3. DOMAIN t = {"op", "step", "ref"} /\ t.op = "remove"
  OBVIOUS
<1> HIDE DEF g, t
<1>4. /\ DOMAIN file' = Machines /\ \A k \in Machines \ {m} : file'[k] = file[k]
      /\ FileInv(file'[m])
  BY <1>1, <1>2, OtherFiles
<1>5. /\ DOMAIN task' = Machines /\ \A k \in Machines \ {m} : task'[k] = task[k]
      /\ task'[m] = t
  BY <1>1, PartsAre, Put1
<1>6. IdInv(Rowset(store), calls', m, t) /\ TaskInv(Rowset(store), t)
  BY <1>3 DEF IdInv, TaskInv, Numbered, Unused, Unrecorded
<1>7. Alone(m)
  BY <1>1, <1>4, <1>5, PartsAre DEF Alone
<1> QED
  BY <1>1, <1>4, <1>5, <1>6, <1>7, StoreSame, StepIs

LEMMA RemoveSlotStep ==
    ASSUME EvidenceInv, NEW m \in Machines, RemoveSlot(m)
    PROVE  EvidenceInv'
<1> DEFINE g == [file[m] EXCEPT !.slot = Emptied(@, task[m].ref)]
<1>1. /\ task[m].op = "remove" /\ Goto(m, "record") /\ UNCHANGED <<case, store, answer, calls>>
      /\ file' = [file EXCEPT ![m] = g]
  BY DEF RemoveSlot, Proceed
<1>2. DOMAIN g = DOMAIN file[m] /\ g.diff = file[m].diff /\ g.lineage = file[m].lineage
  BY PartsAre DEF FileInv
<1> HIDE DEF g
<1>3. /\ DOMAIN file' = Machines /\ \A k \in Machines \ {m} : file'[k] = file[k]
      /\ FileInv(file'[m])
  BY <1>1, <1>2, OtherFiles
<1>4. /\ DOMAIN task' = Machines /\ \A k \in Machines \ {m} : task'[k] = task[k]
      /\ IdInv(Rowset(store), calls, m, task'[m]) /\ TaskInv(Rowset(store), task'[m])
  BY <1>1, GoneOn
<1>5. Alone(m)
  BY <1>1, <1>3, <1>4, PartsAre DEF Alone
<1> QED
  BY <1>1, <1>3, <1>4, <1>5, StoreSame, StepIs

LEMMA RemoveRecordStep ==
    ASSUME EvidenceInv, NEW m \in Machines, RemoveRecord(m)
    PROVE  EvidenceInv'
<1>1. /\ Done(m) /\ UNCHANGED <<case, file, answer, calls>>
      /\ store' = S!remove_evidence(store, "environment", task[m].ref)
  BY DEF RemoveRecord
<1>2. /\ DbInv(store') /\ Rowset(store') \subseteq Rowset(store)
      /\ \A e \in Rowset(store) : e.kind # "environment" => e \in Rowset(store')
  BY <1>1, PartsAre, RemoveIs
<1>3. StoreStep(m)
  BY <1>2 DEF StoreStep, Grows, Numbers_of
<1> QED
  BY <1>1, <1>3, LastStep

-----------------------------------------------------------------------------
LEMMA EvidenceInit == Init => EvidenceInv
<1> SUFFICES ASSUME Init PROVE EvidenceInv
  OBVIOUS
<1>1. StoreInv(store, calls)
  <2>1. store.evidence = <<>> /\ "evidence" \in DOMAIN store /\ calls = 1
    BY DEF Init
  <2>2. Rowset(store) = {} /\ IsSequence(store.evidence)
    BY <2>1, EmptyIs DEF Rowset, ToSet, IsSequence
  <2> QED
    BY <2>1, <2>2 DEF StoreInv, DbInv
<1>2. /\ DOMAIN file = Machines /\ DOMAIN task = Machines /\ DOMAIN answer = Machines
      /\ \A m \in Machines : task[m] = Idle /\ answer[m] = None
  BY DEF Init
<1>3. ASSUME NEW m \in Machines PROVE FileInv(file[m])
  <2>1. file[m] = [diff |-> <<>>, lineage |-> <<>>, slot |-> <<>>,
                   own |-> [ref \in Candidates |-> <<>>]]
    BY DEF Init
  <2>2. DOMAIN file[m] = {"diff", "lineage", "slot", "own"} /\ file[m].diff = <<>>
        /\ file[m].lineage = <<>>
    BY <2>1
  <2> QED
    BY <2>2 DEF FileInv, IsOption
<1>4. \A rows : AnswerInv(rows, None)
  <2>1. None.op = "none"
    BY DEF None
  <2> QED
    BY <2>1 DEF AnswerInv
<1> QED
  BY <1>1, <1>2, <1>3, <1>4, IdleIs DEF EvidenceInv, Kept

LEMMA EvidenceStep == HeadsInv /\ EvidenceInv /\ [Next]_vars => EvidenceInv'
<1> SUFFICES ASSUME HeadsInv, EvidenceInv, [Next]_vars PROVE EvidenceInv'
  OBVIOUS
<1>1. CASE UNCHANGED vars
  BY <1>1, NothingStep DEF vars
<1>2. CASE \E ref \in {"dev", "main"} : Move(ref)
  BY <1>2, NothingStep DEF Move
<1>3. ASSUME NEW m \in Machines, Stop(m) \/ Edit(m) PROVE EvidenceInv'
  BY <1>3, StopStep, EditStep
<1>4. ASSUME NEW m \in Machines, NEW pair \in case.pairs,
             \/ \E bound, deep \in BOOLEAN, lost \in Reads : Diff(m, pair, bound, deep, lost)
             \/ \E kind \in {"merge-base", "ref"}, named \in BOOLEAN : LineageDiff(m, kind, pair, named)
             \/ Audit(m, pair) \/ AuditLineage(m, pair)
      PROVE  EvidenceInv'
  BY <1>4, DiffStep, LineageDiffStep, AuditStep, AuditLineageStep
<1>5. ASSUME NEW m \in Machines, \/ DiffFile(m) \/ DiffRecord(m) \/ AuditJudge(m)
                                 \/ LineageBind(m) \/ LineageRecord(m) \/ LineageJudge(m)
      PROVE  EvidenceInv'
  BY <1>5, DiffFileStep, DiffRecordStep, AuditJudgeStep,
     LineageBindStep, LineageRecordStep, LineageJudgeStep
<1>6. ASSUME NEW m \in Machines, NEW ref,
             \/ \E base \in {"main", "release"} : Provision(m, ref, base)
             \/ ReadBinding(m, ref) \/ ScanFile(m, ref) \/ Delete(m, ref)
      PROVE  EvidenceInv'
  BY <1>6, ProvisionStep, ReadBindingStep, ScanFileStep, DeleteStep
<1>7. ASSUME NEW m \in Machines, \/ ProvisionCheck(m) \/ ProvisionRecord(m) \/ ProvisionSlot(m)
                                 \/ ProvisionFile(m) \/ ReadFiles(m) \/ ScanBindings(m)
                                 \/ RemoveSlot(m) \/ RemoveRecord(m)
      PROVE  EvidenceInv'
  BY <1>7, ProvisionCheckStep, ProvisionRecordStep, ProvisionSlotStep, ProvisionFileStep,
     ReadFilesStep, ScanBindingsStep, RemoveSlotStep, RemoveRecordStep
<1> QED
  BY <1>1, <1>2, <1>3, <1>4, <1>5, <1>6, <1>7 DEF Next

\* Files, rows, tasks and answers: every report that a machine has, holds or
\* recorded is proven of the heads it names.
THEOREM EvidenceHolds == Spec => []EvidenceInv
<1> QED
  BY HeadsInit, HeadsStep, EvidenceInit, EvidenceStep, PTL DEF Spec

LEMMA AuditedFound == EvidenceInv => AuditedIsSound
<1> SUFFICES ASSUME EvidenceInv, NEW m \in Machines,
                    answer[m].op = "audit", answer[m].audited, ~answer[m].rejected,
                    answer[m].breaking = {}
             PROVE  LET a == answer[m]
                        new == Side(a.pair[1], a.heads[1])
                        old == Side(a.pair[2], a.heads[2])
                        report == a.found[1].report
                        keys == model_keys(Model)
                        columns == Model.outputs \ ToSet(keys)
                    IN  /\ (old.exists /\ ~case.same /\ (case.model # <<>> \/ old.record # <<>>)
                             /\ report.lost \notin {"old_exists", "old_columns"}) =>
                              \A c \in Broken(new.schema, old.schema) :
                                  new.exists /\ Tolerated(new.schema, old.schema, c)
                        /\ ( /\ case.model # <<>> /\ Model.policy # <<>> /\ keys # <<>>
                              /\ new.exists /\ old.exists /\ (case.same => new.record # <<>>)
                              /\ report.lost # "old_exists" /\ Changed(new, old)
                              /\ Identifies(keys, new.rows) /\ Identifies(keys, old.rows)
                              /\ a.passed = <<TRUE>>) =>
                              evaluate_policy(Model.policy[1], keys, Len(old.rows),
                                  TrueCounts(new.rows, old.rows, keys, columns,
                                             Model.policy[1].tolerance))
  BY DEF AuditedIsSound
<1> DEFINE a == answer[m]
           new == Side(a.pair[1], a.heads[1])
           old == Side(a.pair[2], a.heads[2])
           r == a.found[1].report
<1>1. Sound(a)
  BY DEF EvidenceInv, Kept, AnswerInv
<1> HIDE DEF a, new, old, r
<1>2. ColumnsStand(r, new, old) /\ (a.passed = <<TRUE>> => r.passed /\ RowsStand(r, new, old))
  <2>1. a.audited /\ ~a.rejected /\ a.breaking = {}
    BY DEF a
  <2> QED
    BY <1>1, <2>1 DEF Sound, new, old, r
<1> USE DEF a, new, old, r
<1>3. (old.exists /\ ~case.same /\ (case.model # <<>> \/ old.record # <<>>)
        /\ r.lost \notin {"old_exists", "old_columns"}) =>
         \A c \in Broken(new.schema, old.schema) :
             new.exists /\ Tolerated(new.schema, old.schema, c)
  BY <1>2 DEF ColumnsStand
<1>4. ( /\ case.model # <<>> /\ Model.policy # <<>> /\ model_keys(Model) # <<>>
        /\ new.exists /\ old.exists /\ (case.same => new.record # <<>>)
        /\ r.lost # "old_exists" /\ Changed(new, old)
        /\ Identifies(model_keys(Model), new.rows) /\ Identifies(model_keys(Model), old.rows)
        /\ a.passed = <<TRUE>>) =>
         evaluate_policy(Model.policy[1], model_keys(Model), Len(old.rows),
             TrueCounts(new.rows, old.rows, model_keys(Model),
                        Model.outputs \ ToSet(model_keys(Model)), Model.policy[1].tolerance))
  <2> HIDE DEF a, new, old, r, Model
  <2> QED
    BY <1>2 DEF RowsStand
<1> QED
  BY <1>3, <1>4

\* An audit that passes its gates is right about the columns and the rows of
\* the two branches, for any tables, contracts, policies and number of machines.
THEOREM AuditedIsSoundHolds == Spec => []AuditedIsSound
<1> QED
  BY EvidenceHolds, AuditedFound, PTL

LEMMA FreshestFound == EvidenceInv => FreshestIsAudited
<1> SUFFICES ASSUME EvidenceInv, NEW m \in Machines
             PROVE  LET a == answer[m] IN
                    /\ (a.op = "audit" /\ a.found # <<>>) =>
                          FreshestIsUsed(a, LAMBDA r : Names(r, a.pair), LAMBDA r : r.finished_at)
                    /\ (a.op = "lineage" /\ a.found # <<>>) =>
                          LET r == a.found[1].report IN
                          /\ FreshestIsUsed(a, LAMBDA x : x.git_ref = <<a.pair[1]>> /\ x.base_ref = a.pair[2],
                                             LAMBDA x : x.created_at)
                          /\ a.status # "stale" => r.lineage_hash = a.lineage_hash
                          /\ a.status = "current" => r.git_ref = <<a.pair[1]>> /\ r.base_ref = a.pair[2]
                          /\ a.status = "advisory" =>
                                r.base_commit = IF r.base_kind = "ref" THEN a.here.main ELSE a.here.fork
  BY DEF FreshestIsAudited
<1> DEFINE a == answer[m]
<1>1. AnswerInv(Rowset(store), a)
  BY DEF EvidenceInv, Kept
<1>2. ListedFor(a) = {a.records[i].payload : i \in {j \in DOMAIN a.records :
                                                       a.records[j].target = a.pair[2]}}
  <2> HIDE DEF a
  <2> QED
    BY DEF ListedFor, For, ToSet
<1>3. \A used, stamp : NamesIts(Rowset(store), used, stamp) =>
         (used.id # <<>> => \E e \in {x \in ToSet(store.evidence) : x.id = used.id} :
                               e.payload = used.report \/ e.created_at = stamp)
  BY DEF NamesIts, Rowset
<1>4. (a.op = "audit" /\ a.found # <<>>) =>
        FreshestIsUsed(a, LAMBDA r : Names(r, a.pair), LAMBDA r : r.finished_at)
  <2> HIDE DEF a
  <2> SUFFICES ASSUME a.op = "audit", a.found # <<>>
               PROVE  FreshestIsUsed(a, LAMBDA r : Names(r, a.pair), LAMBDA r : r.finished_at)
    OBVIOUS
  <2>1. /\ UsesNewest(a.found[1], OfferedDiffs(a), "finished_at")
        /\ NamesIts(Rowset(store), a.found[1], a.found[1].report["finished_at"])
    BY <1>1 DEF AnswerInv
  <2> QED
    BY <1>2, <1>3, <2>1 DEF FreshestIsUsed, Offered, OfferedDiffs, UsesNewest
<1>5. (a.op = "lineage" /\ a.found # <<>>) =>
        FreshestIsUsed(a, LAMBDA x : x.git_ref = <<a.pair[1]>> /\ x.base_ref = a.pair[2],
                          LAMBDA x : x.created_at)
  <2> HIDE DEF a
  <2> SUFFICES ASSUME a.op = "lineage", a.found # <<>>
               PROVE  FreshestIsUsed(a, LAMBDA x : x.git_ref = <<a.pair[1]>> /\ x.base_ref = a.pair[2],
                                        LAMBDA x : x.created_at)
    OBVIOUS
  <2>1. /\ UsesNewest(a.found[1], OfferedLineage(a), "created_at")
        /\ NamesIts(Rowset(store), a.found[1], a.found[1].report["created_at"])
    BY <1>1 DEF AnswerInv
  <2> QED
    BY <1>2, <1>3, <2>1 DEF FreshestIsUsed, Offered, OfferedLineage, UsesNewest
<1>6. (a.op = "lineage" /\ a.found # <<>>) => Upheld(a)
  BY <1>1 DEF AnswerInv
<1> QED
  BY <1>4, <1>5, <1>6 DEF Upheld

\* An audit uses the newest of what there is for its pair and names its record,
\* for any clocks and whatever goes on in between.
THEOREM FreshestIsAuditedHolds == Spec => []FreshestIsAudited
<1> QED
  BY EvidenceHolds, FreshestFound, PTL

-----------------------------------------------------------------------------
(***************************************************************************)
(* Bindings, where no clock is behind.  Of the rows of a candidate, the    *)
(* newest is what may stand last, or was brought in from the files of a    *)
(* machine that was not last; and a machine that was last and has no row   *)
(* has no file either.                                                     *)
(***************************************************************************)
Bindings(db)       == {e \in Rowset(db) : e.kind = "environment"}
BoundTo(rows, ref) == {e \in rows : e.subject = ref}
Newest(e, rows)    == \A f \in rows : f.id[2] <= e.id[2]

\* A row is as old as its number, which no other of its candidate has.
RowsBound(rows) ==
    /\ \A e \in rows : e.id[2] \in Nat /\ e.created_at.nano = e.id[2] + 2
    /\ \A e, f \in rows : e.subject = f.subject /\ e.id[2] = f.id[2] => e = f

LastInv(last, rows, n) ==
    /\ last.since \in Nat /\ last.since <= n
    /\ rows = {} => <<>> \in last.setups
    /\ \A e \in rows : e.id[3] = "provision" => e.id[2] < last.since
    /\ \A e \in rows : Newest(e, rows) =>
          <<e.payload>> \in last.setups \/ (e.id[3] # "provision" /\ e.id[1] \notin last.by)

FileBinds(f) ==
    /\ IsOption(f.slot) /\ DOMAIN f.own = Candidates
    /\ \A ref \in Candidates :
          IsOption(f.own[ref]) /\ (f.own[ref] # <<>> => f.own[ref][1].candidate = ref)

\* Nothing on file says that the candidate is bound.
Clear(f, ref) == f.own[ref] = <<>> /\ (f.slot # <<>> => f.slot[1].candidate # ref)

\* What a task may add a row for; the number of a task has no row before.
Pending(t) ==
    CASE t.op = "provision" /\ t.step \in {"check", "record"} -> {t.setup.candidate}
      [] t.op = "read" -> {t.ref}
      [] t.op = "scan" -> t.left
      [] OTHER -> {}

Binders == {"provision", "read", "scan"}

TaskBinds(rows, last, m, f, t) ==
    /\ t.op \in Binders => /\ t.at.nano = t.id[2] + 2
                           /\ Pending(t) \subseteq Candidates
                           /\ \A e \in rows : e.id[2] = t.id[2] => e.subject \notin Pending(t)
    /\ t.op = "provision" =>
          /\ "setup" \in DOMAIN t /\ t.setup.candidate \in Candidates
          /\ t.id[3] = "provision" /\ t.step \in {"check", "record", "slot", "file"}
          /\ t.step \in {"check", "record"} => \A e \in rows : e.id[1] = m => e.id[2] < t.id[2]
          /\ (t.step \in {"slot", "file"} /\ m \in last[t.setup.candidate].by) =>
                BoundTo(rows, t.setup.candidate) # {}
    /\ t.op = "read" => t.id[3] = "import" /\ "ref" \in DOMAIN t
    /\ t.op = "scan" => "left" \in DOMAIN t
    /\ t.op \in {"read", "scan"} =>
          \A ref \in Pending(t) : m \in last[ref].by => Clear(f, ref)
    /\ t.op = "remove" => /\ {"ref", "step"} \subseteq DOMAIN t
                          /\ t.ref \in Candidates /\ f.own[t.ref] = <<>>
                          /\ t.step = "record" => Clear(f, t.ref)

\* A machine that was last, of a candidate that has no row.
Cleared(rows, last, m, f) ==
    \A ref \in Candidates : (m \in last[ref].by /\ BoundTo(rows, ref) = {}) => Clear(f, ref)

Binds(rows, last, files, tasks, n) ==
    /\ DOMAIN last = Candidates /\ RowsBound(rows)
    /\ \A ref \in Candidates : LastInv(last[ref], BoundTo(rows, ref), n)
    /\ \A m \in Machines : /\ FileBinds(files[m])
                           /\ TaskBinds(rows, last, m, files[m], tasks[m])
                           /\ Cleared(rows, last, m, files[m])
    /\ \A m, k \in Machines :
          (m # k /\ tasks[m].op \in Binders /\ tasks[k].op \in Binders) =>
             tasks[m].id[2] # tasks[k].id[2]

BindingInv == case.slow = {} => Binds(Bindings(store), live, file, task, calls)

\* What the other machines know of bindings stays, whatever one machine does
\* under its own number.
Spares(rows, new, last, now, m, t) ==
    /\ \A e \in new : e \in rows \/ (e.id[1] = m /\ t.op \in Binders /\ e.id[2] = t.id[2])
    /\ \A ref \in Candidates, k \in Machines \ {m} : k \in now[ref].by =>
          k \in last[ref].by /\ (BoundTo(new, ref) = {} => BoundTo(rows, ref) = {})

LEMMA OthersBind ==
    ASSUME NEW rows, NEW new, NEW last, NEW now, NEW m, NEW t, Spares(rows, new, last, now, m, t),
           NEW k \in Machines \ {m}, NEW f, NEW u, TaskBinds(rows, last, k, f, u),
           Cleared(rows, last, k, f),
           (t.op \in Binders /\ u.op \in Binders) => t.id[2] # u.id[2]
    PROVE  TaskBinds(new, now, k, f, u) /\ Cleared(new, now, k, f)
<1>1. Cleared(new, now, k, f)
  BY DEF Spares, Cleared
<1>2. u.op \in Binders => \A e \in new : e.id[2] = u.id[2] => e.subject \notin Pending(u)
  BY DEF Spares, TaskBinds
<1>3. u.op = "provision" /\ u.step \in {"check", "record"} =>
         \A e \in new : e.id[1] = k => e.id[2] < u.id[2]
  BY DEF Spares, TaskBinds
<1>4. (u.op = "provision" /\ u.step \in {"slot", "file"} /\ k \in now[u.setup.candidate].by) =>
         BoundTo(new, u.setup.candidate) # {}
  BY DEF Spares, TaskBinds
<1>5. u.op \in {"read", "scan"} => \A ref \in Pending(u) : k \in now[ref].by => Clear(f, ref)
  <2>1. u.op \in {"read", "scan"} => Pending(u) \subseteq Candidates
    BY DEF TaskBinds, Binders
  <2> QED
    BY <2>1 DEF Spares, TaskBinds
<1>6. TaskBinds(new, now, k, f, u)
  BY <1>2, <1>3, <1>4, <1>5 DEF TaskBinds
<1> QED
  BY <1>1, <1>6

\* A step of one machine.
OneStep(m) ==
    /\ DOMAIN live' = Candidates /\ RowsBound(Bindings(store'))
    /\ \A ref \in Candidates : LastInv(live'[ref], BoundTo(Bindings(store'), ref), calls')
    /\ FileBinds(file'[m])
    /\ TaskBinds(Bindings(store'), live', m, file'[m], task'[m])
    /\ Cleared(Bindings(store'), live', m, file'[m])

LEMMA OneStepIs ==
    ASSUME EvidenceInv, Binds(Bindings(store), live, file, task, calls), NEW m \in Machines,
           Spares(Bindings(store), Bindings(store'), live, live', m, task[m]),
           \A k \in Machines \ {m} : file'[k] = file[k] /\ task'[k] = task[k],
           OneStep(m),
           \/ task'[m].op \notin Binders
           \/ task[m].op \in Binders /\ task'[m].id[2] = task[m].id[2]
           \/ task'[m].id[2] = calls
    PROVE  Binds(Bindings(store'), live', file', task', calls')
<1> DEFINE rows == Bindings(store)
           new == Bindings(store')
<1>1. ASSUME NEW k \in Machines
      PROVE  FileBinds(file'[k]) /\ TaskBinds(new, live', k, file'[k], task'[k])
             /\ Cleared(new, live', k, file'[k])
  <2>1. CASE k = m
    BY <2>1 DEF OneStep
  <2>2. CASE k # m
    <3>1. /\ FileBinds(file[k]) /\ TaskBinds(rows, live, k, file[k], task[k])
          /\ Cleared(rows, live, k, file[k])
          /\ (task[m].op \in Binders /\ task[k].op \in Binders) => task[m].id[2] # task[k].id[2]
      BY <2>2 DEF Binds
    <3>2. file'[k] = file[k] /\ task'[k] = task[k] /\ k \in Machines \ {m}
      BY <2>2
    <3> HIDE DEF rows, new
    <3>3. TaskBinds(new, live', k, file[k], task[k]) /\ Cleared(new, live', k, file[k])
      BY <3>1, <3>2, OthersBind DEF rows, new
    <3> QED
      BY <3>1, <3>2, <3>3
  <2> QED
    BY <2>1, <2>2
<1>2. \A k \in Machines : task[k].op \in Binders => task[k].id[2] # calls
  <2>1. \A k \in Machines : IdInv(Rowset(store), calls, k, task[k])
    BY PartsAre
  <2>2. calls \in Nat
    BY DEF EvidenceInv, Kept, StoreInv
  <2>3. \A k \in Machines : task[k].op \in Binders => task[k].id[2] \in Nat /\ task[k].id[2] < calls
    BY <2>1 DEF IdInv, Numbered, Binders
  <2> QED
    BY <2>2, <2>3
<1>3. ASSUME NEW k \in Machines \ {m}, task'[k].op \in Binders, task'[m].op \in Binders
      PROVE  task'[k].id[2] # task'[m].id[2]
  <2>1. task'[k] = task[k]
    OBVIOUS
  <2>2. task[m].op \in Binders => task[k].id[2] # task[m].id[2]
    BY <1>3, <2>1 DEF Binds
  <2> QED
    BY <1>2, <1>3, <2>1, <2>2
<1>4. ASSUME NEW k \in Machines, NEW j \in Machines, k # j,
             task'[k].op \in Binders, task'[j].op \in Binders
      PROVE  task'[k].id[2] # task'[j].id[2]
  <2>1. CASE k = m
    BY <1>3, <1>4, <2>1
  <2>2. CASE j = m
    BY <1>3, <1>4, <2>2
  <2>3. CASE k # m /\ j # m
    <3>1. task'[k] = task[k] /\ task'[j] = task[j]
      BY <2>3
    <3> QED
      BY <1>4, <3>1 DEF Binds
  <2> QED
    BY <2>1, <2>2, <2>3
<1> QED
  BY <1>1, <1>4 DEF Binds, OneStep

\* A step that is not about bindings.
LEMMA ElsewhereIs ==
    ASSUME EvidenceInv, BindingInv, UNCHANGED live, case' = case, calls' \in {calls, calls + 1},
           Bindings(store') = Bindings(store),
           \A k \in Machines : /\ file'[k].slot = file[k].slot /\ file'[k].own = file[k].own
                               /\ \/ task'[k] = task[k]
                                  \/ task'[k].op \notin Binders \cup {"remove"}
    PROVE  BindingInv'
<1> SUFFICES ASSUME case.slow = {}
             PROVE  Binds(Bindings(store'), live', file', task', calls')
  BY DEF BindingInv, Bindings, Rowset
<1> DEFINE rows == Bindings(store)
<1>1. Binds(rows, live, file, task, calls)
  BY DEF BindingInv
<1>2. \A ref \in Candidates : LastInv(live[ref], BoundTo(rows, ref), calls')
  <2>1. calls \in Nat
    BY DEF EvidenceInv, Kept, StoreInv
  <2>2. \A ref \in Candidates : live[ref].since \in Nat /\ live[ref].since <= calls'
    BY <1>1, <2>1 DEF Binds, LastInv
  <2> HIDE DEF rows
  <2> QED
    BY <1>1, <2>2 DEF Binds, LastInv
<1>3. ASSUME NEW k \in Machines
      PROVE  FileBinds(file'[k]) /\ TaskBinds(rows, live, k, file'[k], task'[k])
             /\ Cleared(rows, live, k, file'[k])
  <2>1. /\ FileBinds(file[k]) /\ TaskBinds(rows, live, k, file[k], task[k])
        /\ Cleared(rows, live, k, file[k])
    BY <1>1 DEF Binds
  <2>2. file'[k].slot = file[k].slot /\ file'[k].own = file[k].own
    OBVIOUS
  <2>3. \A ref : Clear(file'[k], ref) <=> Clear(file[k], ref)
    BY <2>2 DEF Clear
  <2> HIDE DEF rows
  <2>4. FileBinds(file'[k]) /\ Cleared(rows, live, k, file'[k])
    BY <2>1, <2>2, <2>3 DEF FileBinds, Cleared
  <2>5. CASE task'[k] = task[k]
    BY <2>1, <2>2, <2>3, <2>4, <2>5 DEF TaskBinds
  <2>6. CASE task'[k].op \notin Binders \cup {"remove"}
    BY <2>4, <2>6 DEF TaskBinds, Binders
  <2> QED
    BY <2>4, <2>5, <2>6
<1>4. ASSUME NEW m \in Machines, NEW k \in Machines, m # k,
             task'[m].op \in Binders, task'[k].op \in Binders
      PROVE  task'[m].id[2] # task'[k].id[2]
  <2>1. task'[m] = task[m] /\ task'[k] = task[k]
    BY <1>4
  <2> QED
    BY <1>1, <1>4, <2>1 DEF Binds
<1> QED
  BY <1>1, <1>2, <1>3, <1>4 DEF Binds

\* Rows of another kind, tasks and files that are not about bindings.
LEMMA RowElsewhere ==
    ASSUME NEW db, NEW new, NEW r, Adds(db, new, r), r.kind # "environment"
    PROVE  Bindings(new) = Bindings(db)
BY DEF Adds, Bindings

Elsewhere(m) ==
    /\ \/ task' = task \/ Done(m)
       \/ \E t : task' = [task EXCEPT ![m] = t] /\ t.op \notin Binders \cup {"remove"}
    /\ \/ file' = file
       \/ \E g : /\ file' = [file EXCEPT ![m] = g]
                 /\ g.slot = file[m].slot /\ g.own = file[m].own

LEMMA ElsewhereStep ==
    ASSUME EvidenceInv, BindingInv, UNCHANGED live, case' = case, calls' \in {calls, calls + 1},
           Bindings(store') = Bindings(store), NEW m \in Machines, Elsewhere(m)
    PROVE  BindingInv'
<1>1. DOMAIN task = Machines /\ DOMAIN file = Machines
  BY PartsAre
<1>2. \A k \in Machines : task'[k] = task[k] \/ task'[k].op \notin Binders \cup {"remove"}
  <2>1. CASE task' = task
    BY <2>1
  <2>2. CASE Done(m)
    <3>1. task' = [task EXCEPT ![m] = Idle] /\ Idle.op = "idle"
      BY <2>2 DEF Done, Idle
    <3> QED
      BY <1>1, <3>1 DEF Binders
  <2>3. CASE \E t : task' = [task EXCEPT ![m] = t] /\ t.op \notin Binders \cup {"remove"}
    BY <1>1, <2>3
  <2> QED
    BY <2>1, <2>2, <2>3 DEF Elsewhere
<1>3. \A k \in Machines : file'[k].slot = file[k].slot /\ file'[k].own = file[k].own
  <2>1. CASE file' = file
    BY <2>1
  <2>2. CASE \E g : /\ file' = [file EXCEPT ![m] = g]
                    /\ g.slot = file[m].slot /\ g.own = file[m].own
    BY <1>1, <2>2
  <2> QED
    BY <2>1, <2>2 DEF Elsewhere
<1> QED
  BY <1>2, <1>3, ElsewhereIs

LEMMA ReportsBegin ==
    ASSUME EvidenceInv, BindingInv, NEW m \in Machines, NEW pair,
           \/ \E bound, deep \in BOOLEAN, lost \in Reads : Diff(m, pair, bound, deep, lost)
           \/ \E kind \in {"merge-base", "ref"}, named \in BOOLEAN : LineageDiff(m, kind, pair, named)
           \/ Audit(m, pair) \/ AuditLineage(m, pair)
    PROVE  BindingInv'
<1> DEFINE Starts == \E t : task' = [task EXCEPT ![m] = t] /\ t.op \notin Binders \cup {"remove"}
<1>1. ASSUME NEW bound \in BOOLEAN, NEW deep \in BOOLEAN, NEW lost \in Reads,
             Diff(m, pair, bound, deep, lost)
      PROVE  Starts
  <2> DEFINE report == Assigned(branch_diff(pair, bound, deep, lost), [finished_at |-> Now(m)])
             t == [op |-> "diff", step |-> "file", report |-> report, id |-> <<m, calls, "diff">>]
  <2>1. task' = [task EXCEPT ![m] = t]
    BY <1>1 DEF Diff
  <2> HIDE DEF report
  <2>2. t.op = "diff"
    OBVIOUS
  <2> HIDE DEF t
  <2> QED
    BY <2>1, <2>2 DEF Binders
<1>2. ASSUME NEW kind, NEW named, LineageDiff(m, kind, pair, named)
      PROVE  Starts
  <2> DEFINE artifact == Assigned(LineageOf(m, kind, IF named THEN <<pair[1]>> ELSE <<>>),
                                 [base_ref |-> pair[2]])
             t == [op |-> "lineage", step |-> "bind", id |-> <<m, calls, "lineage">>, at |-> Now(m),
                   artifact |-> artifact]
  <2>1. task' = [task EXCEPT ![m] = t]
    BY <1>2 DEF LineageDiff
  <2> HIDE DEF artifact
  <2>2. t.op = "lineage"
    OBVIOUS
  <2> HIDE DEF t
  <2> QED
    BY <2>1, <2>2 DEF Binders
<1>3. ASSUME Audit(m, pair) PROVE Starts
  <2> DEFINE t == [op |-> "audit", step |-> "judge", pair |-> pair, heads |-> Heads(pair),
                   slot |-> file[m].diff, records |-> Records("branch_diff", pair[1]),
                   id |-> <<m, calls, "import">>]
  <2>1. task' = [task EXCEPT ![m] = t] /\ t.op = "audit"
    BY <1>3 DEF Audit
  <2> HIDE DEF t
  <2> QED
    BY <2>1 DEF Binders
<1>4. ASSUME AuditLineage(m, pair) PROVE Starts
  <2> DEFINE t == [op |-> "audit_lineage", step |-> "judge", pair |-> pair, heads |-> Heads(pair),
                   slot |-> file[m].lineage, records |-> Records("lineage_diff", pair[1]),
                   lineage_hash |-> git[m].tree, id |-> <<m, calls, "import">>]
  <2>1. task' = [task EXCEPT ![m] = t] /\ t.op = "audit_lineage"
    BY <1>4 DEF AuditLineage
  <2> HIDE DEF t
  <2> QED
    BY <2>1 DEF Binders
<1>5. UNCHANGED <<case, file, store, live>> /\ calls' = calls + 1
  BY DEF Diff, LineageDiff, Audit, AuditLineage, Begin
<1>6. Starts
  BY <1>1, <1>2, <1>3, <1>4
<1> HIDE DEF Starts
<1>7. Elsewhere(m)
  BY <1>5, <1>6 DEF Elsewhere, Starts
<1> QED
  BY <1>5, <1>7, ElsewhereStep

LEMMA FilesAreWritten ==
    ASSUME EvidenceInv, BindingInv, NEW m \in Machines, DiffFile(m) \/ LineageBind(m)
    PROVE  BindingInv'
<1> DEFINE t == task[m]
           Writes == \E g : /\ file' = [file EXCEPT ![m] = g]
                            /\ g.slot = file[m].slot /\ g.own = file[m].own
           GoesOn == \E u : task' = [task EXCEPT ![m] = u] /\ u.op = t.op
<1>1. /\ UNCHANGED <<case, store, live, calls>> /\ t.op \in {"diff", "lineage"}
  BY DEF DiffFile, LineageBind, Proceed
<1>2. "op" \in DOMAIN t
  BY PartsAre DEF IdInv
<1>3. ASSUME DiffFile(m) PROVE Writes /\ GoesOn
  <2> DEFINE g == [file[m] EXCEPT !.diff = <<t.report>>]
             u == [t EXCEPT !.step = "record"]
  <2>1. file' = [file EXCEPT ![m] = g] /\ task' = [task EXCEPT ![m] = u]
    BY <1>3 DEF DiffFile, Goto
  <2>2. g.slot = file[m].slot /\ g.own = file[m].own
    BY PartsAre DEF FileInv
  <2>3. u.op = t.op
    BY <1>2
  <2> HIDE DEF g, u
  <2> QED
    BY <2>1, <2>2, <2>3
<1>4. ASSUME LineageBind(m) PROVE Writes /\ GoesOn
  <2>1. PICK done : /\ file' = [file EXCEPT ![m].lineage = <<done>>]
                    /\ task' = [task EXCEPT ![m].step = "record", ![m].artifact = done]
    BY <1>4 DEF LineageBind
  <2> DEFINE g == [file[m] EXCEPT !.lineage = <<done>>]
             u == [t EXCEPT !.step = "record", !.artifact = done]
  <2>2. file' = [file EXCEPT ![m] = g] /\ task' = [task EXCEPT ![m] = u]
    BY <2>1
  <2>3. g.slot = file[m].slot /\ g.own = file[m].own
    BY PartsAre DEF FileInv
  <2>4. u.op = t.op
    BY <1>2
  <2> HIDE DEF g, u
  <2> QED
    BY <2>2, <2>3, <2>4
<1>5. Writes /\ GoesOn
  BY <1>3, <1>4
<1>6. \E u : task' = [task EXCEPT ![m] = u] /\ u.op \notin Binders \cup {"remove"}
  BY <1>1, <1>5 DEF Binders
<1> HIDE DEF Writes
<1>7. Elsewhere(m)
  BY <1>5, <1>6 DEF Elsewhere, Writes
<1> QED
  BY <1>1, <1>7, ElsewhereStep

LEMMA ReportsEnd ==
    ASSUME EvidenceInv, BindingInv, NEW m \in Machines,
           DiffRecord(m) \/ AuditJudge(m) \/ LineageRecord(m) \/ LineageJudge(m)
    PROVE  BindingInv'
<1> DEFINE t == task[m]
           Same == Bindings(store') = Bindings(store)
<1>1. Done(m) /\ UNCHANGED <<case, file, live, calls>>
  BY DEF DiffRecord, AuditJudge, LineageRecord, LineageJudge
<1>2. DbInv(store) /\ IdInv(Rowset(store), calls, m, t) /\ TaskInv(Rowset(store), t)
  BY PartsAre
<1>3. ASSUME DiffRecord(m) PROVE Same
  <2> DEFINE r == branch_diff_record(t.report, t.id)
  <2>1. t.op = "diff" /\ store' = S!record_evidence(store, r)
    BY <1>3 DEF DiffRecord, Proceed
  <2>2. DiffIs(t.report)
    BY <1>2, <2>1 DEF TaskInv
  <2>3. RowInv(r) /\ r.kind = "branch_diff"
    BY <2>2, DiffRowIs
  <2> HIDE DEF r, t
  <2>4. Adds(store, store', r)
    BY <1>2, <2>1, <2>3, RecordIs
  <2> QED
    BY <2>3, <2>4, RowElsewhere
<1>4. ASSUME LineageRecord(m) PROVE Same
  <2> DEFINE r == lineage_diff_record(t.artifact, t.id)
  <2>1. /\ t.op = "lineage" /\ t.step = "record"
        /\ store' = IF t.artifact.git_ref = <<>> THEN store ELSE S!record_evidence(store, r)
    BY <1>4 DEF LineageRecord, Proceed
  <2>2. LineageIs(t.artifact)
    BY <1>2, <2>1 DEF TaskInv
  <2>3. t.artifact.git_ref # <<>> => RowInv(r) /\ r.kind = "lineage_diff"
    BY <2>2, LineageRowIs
  <2> HIDE DEF r, t
  <2>4. t.artifact.git_ref # <<>> => Adds(store, store', r)
    BY <1>2, <2>1, <2>3, RecordIs
  <2> QED
    BY <2>1, <2>3, <2>4, RowElsewhere
<1>5. ASSUME AuditJudge(m) PROVE Same
  <2> DEFINE r == branch_diff_record(t.slot[1], t.id)
             imported == import_evidence(store, r)
  <2>1. t.op = "audit" /\ store' = (IF t.slot = <<>> THEN [db |-> store, id |-> <<>>] ELSE imported).db
    BY <1>5 DEF AuditJudge, Proceed
  <2>2. t.slot # <<>> => DiffIs(t.slot[1])
    BY <1>2, <2>1 DEF TaskInv
  <2>3. t.slot # <<>> => RowInv(r) /\ r.kind = "branch_diff"
    BY <2>2, DiffRowIs
  <2> HIDE DEF r, t
  <2>4. t.slot # <<>> => Adds(store, store', r)
    BY <1>2, <2>1, <2>3, ImportIs
  <2> QED
    BY <2>1, <2>3, <2>4, RowElsewhere
<1>6. ASSUME LineageJudge(m) PROVE Same
  <2> DEFINE r == lineage_diff_record(t.slot[1], t.id)
             imported == import_evidence(store, r)
             imports == t.slot # <<>> /\ t.slot[1].git_ref # <<>>
  <2>1. /\ t.op = "audit_lineage"
        /\ store' = (IF t.slot = <<>> \/ t.slot[1].git_ref = <<>>
                       THEN [db |-> store, id |-> <<>>] ELSE imported).db
    BY <1>6 DEF LineageJudge, Proceed
  <2>2. imports => LineageIs(t.slot[1])
    BY <1>2, <2>1 DEF TaskInv
  <2>3. imports => RowInv(r) /\ r.kind = "lineage_diff"
    BY <2>2, LineageRowIs
  <2>4. store' = IF imports THEN imported.db ELSE store
    BY <2>1
  <2> HIDE DEF r, t, imports
  <2>5. imports => Adds(store, store', r)
    BY <1>2, <2>3, <2>4, ImportIs
  <2> QED
    BY <2>3, <2>4, <2>5, RowElsewhere
<1>7. Same
  BY <1>3, <1>4, <1>5, <1>6
<1>8. Elsewhere(m)
  BY <1>1 DEF Elsewhere
<1> QED
  BY <1>1, <1>7, <1>8, ElsewhereStep

LEMMA OthersGoOn ==
    ASSUME EvidenceInv, BindingInv, NEW m \in Machines, Stop(m) \/ Edit(m)
    PROVE  BindingInv'
<1>1. /\ UNCHANGED <<case, file, store, live>> /\ calls' \in {calls, calls + 1}
      /\ Done(m) \/ task' = task
  BY DEF Stop, Edit
<1>2. Elsewhere(m)
  BY <1>1 DEF Elsewhere
<1> QED
  BY <1>1, <1>2, ElsewhereStep

LEMMA NoneBind ==
    ASSUME BindingInv, UNCHANGED <<case, file, store, task, live, calls>>
    PROVE  BindingInv'
BY DEF BindingInv, Bindings, Rowset

-----------------------------------------------------------------------------
(* What the store lists of bindings.                                       *)

LEMMA BindingIs ==
    ASSUME EvidenceInv, RowsBound(Bindings(store)), NEW ref
    PROVE  /\ Binding(ref) = <<>> => BoundTo(Bindings(store), ref) = {}
           /\ Binding(ref) # <<>> => /\ Binding(ref)[1] \in BoundTo(Bindings(store), ref)
                                     /\ Newest(Binding(ref)[1], BoundTo(Bindings(store), ref))
<1> DEFINE listed == Binding(ref)
           rows == BoundTo(Bindings(store), ref)
<1>1. DatedRows(store.evidence, "created_at")
  BY RowsDated DEF EvidenceInv, Kept, StoreInv
<1>2. /\ IsSequence(listed)
      /\ ToSet(listed) = {e \in Rowset(store) : e.kind = "environment" /\ e.subject = ref}
      /\ \A i, j \in DOMAIN listed :
            i < j => listed[i].created_at.nano >= listed[j].created_at.nano
  BY <1>1, ListedIs DEF Binding, Records, Rowset
<1>3. ToSet(listed) = rows
  BY <1>2 DEF BoundTo, Bindings
<1>4. \A e \in rows : e.id[2] \in Nat /\ e.created_at.nano = e.id[2] + 2
  BY DEF RowsBound, BoundTo
<1> HIDE DEF listed, rows
<1>5. Len(listed) \in Nat /\ DOMAIN listed = 1 .. Len(listed) /\ (listed # <<>> => 1 \in DOMAIN listed)
  BY <1>2, SequenceIs
<1>6. CASE listed = <<>>
  <2>1. rows = {}
    BY <1>3, <1>6, EmptyIs DEF ToSet
  <2> QED
    BY <1>6, <2>1 DEF listed, rows
<1>7. CASE listed # <<>>
  <2>1. \A i \in DOMAIN listed : listed[i] \in rows
    BY <1>3 DEF ToSet
  <2>2. ASSUME NEW f \in rows PROVE f.id[2] <= listed[1].id[2]
    <3>1. PICK i \in DOMAIN listed : f = listed[i]
      BY <1>3 DEF ToSet
    <3>2. i = 1 \/ listed[1].created_at.nano >= f.created_at.nano
      BY <1>2, <1>5, <1>7, <3>1
    <3>3. listed[1] \in rows
      BY <1>5, <1>7, <2>1
    <3> QED
      BY <1>4, <3>1, <3>2, <3>3
  <2>3. listed[1] \in rows /\ Newest(listed[1], rows)
    BY <1>5, <1>7, <2>1, <2>2 DEF Newest
  <2> QED
    BY <1>7, <2>3 DEF listed, rows
<1> QED
  BY <1>6, <1>7

LEMMA FirstIs ==
    ASSUME NEW n \in Nat, NEW set, set \subseteq 1 .. n, set # {}
    PROVE  \E i \in set : \A j \in set : ~(j < i)
<1> DEFINE order == {p \in set \X set : p[1] < p[2]}
<1>1. IsFiniteSet(set)
  <2>1. IsFiniteSet(1 .. n)
    BY FS_Interval
  <2> QED
    BY <2>1, FS_Subset
<1>2. Cardinality(set) \in Nat /\ Cardinality(set) # 0
  BY <1>1, FS_CardinalityType, FS_EmptySet
<1>3. Strict(order, set)
  BY DEF Strict
<1>4. PICK i \in set : Place(set, order, i) = 1
  <2>1. 1 \in 1 .. Cardinality(set)
    BY <1>2
  <2> HIDE DEF order
  <2> QED
    BY <1>1, <1>3, <2>1, PlacesAre
<1> DEFINE before == {j \in set : <<j, i>> \in order}
<1>5. IsFiniteSet(before)
  BY <1>1, FS_Subset
<1>6. Cardinality(before) = 0
  <2>1. Cardinality(before) \in Nat /\ 1 + Cardinality(before) = 1
    BY <1>4, <1>5, FS_CardinalityType DEF Place
  <2> QED
    BY <2>1
<1>7. before = {}
  BY <1>5, <1>6, FS_EmptySet
<1> QED
  BY <1>7

\* Every candidate that has a row has a latest one.
LEMMA KnownAre ==
    ASSUME NEW db, DbInv(db), NEW ref,
           ref \notin {e.subject : e \in S!latest_evidence(db, "environment")}
    PROVE  BoundTo(Bindings(db), ref) = {}
<1> DEFINE numbers == Where(db.evidence, "kind", "environment")
           chosen == Only(db.evidence, numbers)
           listed == newest_first(chosen, "created_at")
           Earlier(i) == {j \in 1 .. i - 1 : /\ listed[j].subject = listed[i].subject
                                             /\ listed[j].target = listed[i].target}
<1>1. numbers \in SUBSET DOMAIN db.evidence
  BY DEF Where
<1>2. /\ DatedRows(chosen, "created_at") /\ ToSet(chosen) = {db.evidence[i] : i \in numbers}
      /\ S!Only(db.evidence, numbers) = chosen
  BY <1>1, RowsDated, OnlyDated
<1>3. S!latest_evidence(db, "environment") = {listed[i] : i \in {j \in DOMAIN listed : Earlier(j) = {}}}
  <2>1. S!Where(db.evidence, "kind", "environment") = numbers
    BY DEF S!Where, Where
  <2>2. S!newest_first(chosen, "created_at") = listed
    BY <1>2, NewestIs
  <2> HIDE DEF listed, chosen, numbers
  <2> QED
    BY <1>2, <2>1, <2>2 DEF S!latest_evidence
<1>4. ToSet(chosen) = Bindings(db)
  BY <1>2 DEF Bindings, Rowset, ToSet, Where
<1> HIDE DEF numbers, chosen
<1>5. ToSet(listed) = Bindings(db) /\ \E n \in Nat : DOMAIN listed = 1 .. n
  BY <1>2, <1>4, NewestIs
<1> HIDE DEF listed
<1>6. PICK n \in Nat : DOMAIN listed = 1 .. n
  BY <1>5
<1>7. ASSUME NEW e \in Bindings(db), e.subject = ref PROVE FALSE
  <2>1. PICK i \in DOMAIN listed : e = listed[i]
    BY <1>5 DEF ToSet
  <2> DEFINE alike == {j \in DOMAIN listed : /\ listed[j].subject = listed[i].subject
                                             /\ listed[j].target = listed[i].target}
  <2>2. alike \subseteq 1 .. n /\ i \in alike
    BY <1>6
  <2> HIDE DEF alike
  <2>3. PICK k \in alike : \A j \in alike : ~(j < k)
    BY <2>2, FirstIs
  <2>4. /\ k \in 1 .. n /\ listed[k].subject = listed[i].subject
        /\ listed[k].target = listed[i].target
    BY <1>6 DEF alike
  <2>5. ASSUME NEW j \in Earlier(k) PROVE FALSE
    <3>1. j \in 1 .. n /\ j < k
      BY <2>4
    <3>2. j \in alike
      BY <1>6, <2>4, <3>1 DEF alike
    <3> QED
      BY <2>3, <3>1, <3>2
  <2>6. listed[k] \in S!latest_evidence(db, "environment")
    BY <1>3, <1>6, <2>4, <2>5
  <2> QED
    BY <1>7, <2>1, <2>4, <2>6
<1> QED
  BY <1>7 DEF BoundTo

-----------------------------------------------------------------------------
(* Steps about bindings.                                                   *)

\* A step that leaves the rows, and what may be last, as they are.
LEMMA QuietStep ==
    ASSUME EvidenceInv, Binds(Bindings(store), live, file, task, calls),
           UNCHANGED <<case, store, live>>, calls' \in {calls, calls + 1}, NEW m \in Machines,
           \A k \in Machines \ {m} : file'[k] = file[k] /\ task'[k] = task[k],
           FileBinds(file'[m]), TaskBinds(Bindings(store), live, m, file'[m], task'[m]),
           Cleared(Bindings(store), live, m, file'[m]),
           \/ task'[m].op \notin Binders
           \/ task[m].op \in Binders /\ task'[m].id[2] = task[m].id[2]
           \/ task'[m].id[2] = calls
    PROVE  BindingInv'
<1> DEFINE rows == Bindings(store)
<1>1. Bindings(store') = rows /\ live' = live /\ calls \in Nat
  BY PartsAre
<1>2. Spares(rows, rows, live, live, m, task[m])
  BY DEF Spares
<1>3. \A ref \in Candidates : LastInv(live[ref], BoundTo(rows, ref), calls')
  <2>1. \A ref \in Candidates : LastInv(live[ref], BoundTo(rows, ref), calls)
    BY DEF Binds
  <2>2. \A ref \in Candidates : live[ref].since \in Nat /\ live[ref].since <= calls'
    BY <1>1, <2>1 DEF LastInv
  <2> HIDE DEF rows
  <2> QED
    BY <2>1, <2>2 DEF LastInv
<1>4. DOMAIN live = Candidates /\ RowsBound(rows)
  BY DEF Binds
<1> HIDE DEF rows
<1>5. OneStep(m)
  BY <1>1, <1>3, <1>4 DEF OneStep, rows
<1>6. Binds(Bindings(store'), live', file', task', calls')
  BY <1>1, <1>2, <1>5, OneStepIs DEF rows
<1> QED
  BY <1>6 DEF BindingInv, Bindings, Rowset

\* What is known of a machine and its task.
LEMMA BoundParts ==
    ASSUME EvidenceInv, Binds(Bindings(store), live, file, task, calls), NEW m \in Machines
    PROVE  /\ DOMAIN task = Machines /\ DOMAIN file = Machines /\ calls \in Nat
           /\ DOMAIN live = Candidates /\ RowsBound(Bindings(store))
           /\ \A e \in Bindings(store) : e.id[2] \in Nat /\ e.id[2] < calls
           /\ FileInv(file[m]) /\ FileBinds(file[m])
           /\ TaskBinds(Bindings(store), live, m, file[m], task[m])
           /\ Cleared(Bindings(store), live, m, file[m])
           /\ IdInv(Rowset(store), calls, m, task[m]) /\ TaskInv(Rowset(store), task[m])
BY PartsAre DEF Binds, Bindings

LEMMA NowIs == ASSUME case.slow = {}, NEW m PROVE Now(m).nano = calls + 2
BY DEF Now

LEMMA ProvisionBinds ==
    ASSUME EvidenceInv, BindingInv, case.slow = {}, NEW m \in Machines, NEW ref \in Candidates,
           NEW base, Provision(m, ref, base)
    PROVE  BindingInv'
<1> DEFINE t == [op |-> "provision", step |-> "check", id |-> <<m, calls, "provision">>,
                 at |-> Now(m), setup |-> [candidate |-> ref, created_from |-> base]]
<1>1. /\ UNCHANGED <<case, file, store, live>> /\ calls' = calls + 1
      /\ task' = [task EXCEPT ![m] = t]
  BY DEF Provision, Begin
<1>2. /\ DOMAIN t = {"op", "step", "id", "at", "setup"} /\ t.id[1] = m /\ t.id[2] = calls
      /\ t.id[3] = "provision" /\ t.op = "provision" /\ t.step = "check" /\ t.at = Now(m)
      /\ t.setup.candidate = ref
  OBVIOUS
<1> HIDE DEF t
<1>3. Binds(Bindings(store), live, file, task, calls)
  BY DEF BindingInv
<1>4. \A e \in Bindings(store) : e.id[2] \in Nat /\ e.id[2] < calls
  BY <1>3, BoundParts
<1>5. TaskBinds(Bindings(store), live, m, file[m], t)
  <2>1. Pending(t) = {ref}
    BY <1>2 DEF Pending
  <2>2. calls \in Nat
    BY <1>3, BoundParts
  <2>3. \A e \in Bindings(store) : e.id[2] # t.id[2] /\ e.id[2] < t.id[2]
    BY <1>2, <1>4, <2>2
  <2> QED
    BY <1>2, <2>1, <2>3, NowIs DEF TaskBinds
<1>6. task'[m] = t /\ \A k \in Machines \ {m} : task'[k] = task[k]
  BY <1>1, PartsAre
<1> QED
  BY <1>1, <1>2, <1>3, <1>5, <1>6, BoundParts, QuietStep

LEMMA ReadBindingBinds ==
    ASSUME EvidenceInv, BindingInv, case.slow = {}, NEW m \in Machines, NEW ref \in Candidates,
           ReadBinding(m, ref)
    PROVE  BindingInv'
<1> DEFINE t == [op |-> "read", step |-> "import", ref |-> ref, at |-> Now(m),
                 id |-> <<m, calls, "import">>]
<1>1. /\ UNCHANGED <<case, file, store, live>> /\ calls' = calls + 1 /\ task[m] = Idle
      /\ task' = task \/ (Binding(ref) = <<>> /\ task' = [task EXCEPT ![m] = t])
  BY DEF ReadBinding, Begin
<1>2. /\ DOMAIN t = {"op", "step", "ref", "at", "id"} /\ t.id[1] = m /\ t.id[2] = calls
      /\ t.id[3] = "import" /\ t.op = "read" /\ t.at = Now(m) /\ t.ref = ref
  OBVIOUS
<1> HIDE DEF t
<1>3. Binds(Bindings(store), live, file, task, calls)
  BY DEF BindingInv
<1>4. CASE task' = task
  <2>1. task'[m].op \notin Binders
    BY <1>1, <1>4 DEF Idle, Binders
  <2> QED
    BY <1>1, <1>3, <1>4, <2>1, BoundParts, QuietStep
<1>5. CASE Binding(ref) = <<>> /\ task' = [task EXCEPT ![m] = t]
  <2>1. TaskBinds(Bindings(store), live, m, file[m], t)
    <3>1. Pending(t) = {ref}
      BY <1>2 DEF Pending
    <3>2. /\ calls \in Nat /\ \A e \in Bindings(store) : e.id[2] \in Nat /\ e.id[2] < calls
          /\ Cleared(Bindings(store), live, m, file[m])
          /\ RowsBound(Bindings(store))
      BY <1>3, BoundParts
    <3>3. \A e \in Bindings(store) : e.id[2] # t.id[2]
      BY <1>2, <3>2
    <3>4. m \in live[ref].by => Clear(file[m], ref)
      BY <1>5, <3>2, BindingIs DEF Cleared
    <3> QED
      BY <1>2, <3>1, <3>3, <3>4, NowIs DEF TaskBinds
  <2>2. task'[m] = t /\ \A k \in Machines \ {m} : task'[k] = task[k]
    BY <1>5, PartsAre
  <2> QED
    BY <1>1, <1>2, <1>3, <2>1, <2>2, BoundParts, QuietStep
<1> QED
  BY <1>1, <1>4, <1>5

LEMMA ScanBindingsBinds ==
    ASSUME EvidenceInv, BindingInv, case.slow = {}, NEW m \in Machines, ScanBindings(m)
    PROVE  BindingInv'
<1> DEFINE known == {e.subject : e \in S!latest_evidence(store, "environment")}
           t == [op |-> "scan", step |-> "import", at |-> Now(m), id |-> <<m, calls, "import">>,
                 left |-> Candidates \ known]
<1>1. /\ UNCHANGED <<case, file, store, live>> /\ calls' = calls + 1 /\ task[m] = Idle
      /\ task' = task \/ task' = [task EXCEPT ![m] = t]
  BY DEF ScanBindings, Begin
<1>2. /\ DOMAIN t = {"op", "step", "at", "id", "left"} /\ t.id[1] = m /\ t.id[2] = calls
      /\ t.op = "scan" /\ t.at = Now(m) /\ t.left = Candidates \ known
  OBVIOUS
<1>3. Binds(Bindings(store), live, file, task, calls)
  BY DEF BindingInv
<1>4. \A ref \in t.left : ref \in Candidates /\ BoundTo(Bindings(store), ref) = {}
  BY <1>2, KnownAre, PartsAre
<1> HIDE DEF t, known
<1>5. CASE task' = task
  <2>1. task'[m].op \notin Binders
    BY <1>1, <1>5 DEF Idle, Binders
  <2> QED
    BY <1>1, <1>3, <1>5, <2>1, BoundParts, QuietStep
<1>6. CASE task' = [task EXCEPT ![m] = t]
  <2>1. TaskBinds(Bindings(store), live, m, file[m], t)
    <3>1. Pending(t) = t.left
      BY <1>2 DEF Pending
    <3>2. /\ calls \in Nat /\ \A e \in Bindings(store) : e.id[2] \in Nat /\ e.id[2] < calls
          /\ Cleared(Bindings(store), live, m, file[m])
      BY <1>3, BoundParts
    <3>3. \A e \in Bindings(store) : e.id[2] # t.id[2]
      BY <1>2, <3>2
    <3>4. \A ref \in t.left : m \in live[ref].by => Clear(file[m], ref)
      BY <1>4, <3>2 DEF Cleared
    <3> QED
      BY <1>2, <1>4, <3>1, <3>3, <3>4, NowIs DEF TaskBinds
  <2>2. task'[m] = t /\ \A k \in Machines \ {m} : task'[k] = task[k]
    BY <1>6, PartsAre
  <2> QED
    BY <1>1, <1>2, <1>3, <2>1, <2>2, BoundParts, QuietStep
<1> QED
  BY <1>1, <1>5, <1>6

\* Of a file that is there or not.
LEMMA SomeOf ==
    ASSUME NEW s, IsOption(s), NEW numbers \in SUBSET DOMAIN s
    PROVE  Only(s, numbers) = IF numbers = {} THEN <<>> ELSE s
<1> DEFINE order == {p \in numbers \X numbers : p[1] < p[2]}
<1>1. DOMAIN s \subseteq {1}
  BY EmptyIs DEF IsOption
<1>2. CASE numbers = {}
  <2>1. Cardinality(numbers) = 0
    BY <1>2, FS_EmptySet
  <2>2. Only(s, numbers) = [n \in 1 .. 0 |-> s[CHOOSE i \in numbers : 1 + Cardinality({j \in numbers : <<j, i>> \in order}) = n]]
    BY <2>1 DEF Only, InOrder
  <2> QED
    BY <1>2, <2>2
<1>3. CASE numbers # {}
  <2>1. numbers = {1} /\ s # <<>> /\ s = <<s[1]>>
    BY <1>1, <1>3, EmptyIs DEF IsOption
  <2>2. IsFiniteSet(numbers) /\ numbers \subseteq Int /\ Cardinality(numbers) = 1
    <3>1. IsFiniteSet({1}) /\ Cardinality({1}) = 1
      BY FS_Singleton
    <3> QED
      BY <2>1, <3>1
  <2>3. ToSet(Only(s, numbers)) = {s[1]}
    BY <2>1, <2>2, OnlyIs
  <2>4. /\ DOMAIN Only(s, numbers) = 1 .. 1
        /\ Only(s, numbers) = [n \in 1 .. 1 |-> Only(s, numbers)[n]]
    BY <2>2 DEF Only, InOrder
  <2>5. Only(s, numbers)[1] = s[1]
    BY <2>3, <2>4 DEF ToSet
  <2> QED
    BY <1>3, <2>1, <2>4, <2>5
<1> QED
  BY <1>2, <1>3

LEMMA SlotIs ==
    ASSUME NEW s, IsOption(s), NEW ref
    PROVE  /\ Only(s, Where(s, "candidate", ref)) =
                 IF s # <<>> /\ s[1].candidate = ref THEN s ELSE <<>>
           /\ Emptied(s, ref) = IF s # <<>> /\ s[1].candidate = ref THEN <<>> ELSE s
<1>1. DOMAIN s = IF s = <<>> THEN {} ELSE {1}
  <2>1. s # <<>> => DOMAIN <<s[1]>> = {1}
    OBVIOUS
  <2> QED
    BY <2>1, EmptyIs DEF IsOption
<1> DEFINE there == Where(s, "candidate", ref)
<1>2. there = IF s # <<>> /\ s[1].candidate = ref THEN {1} ELSE {}
  BY <1>1 DEF Where
<1>3. there \in SUBSET DOMAIN s /\ DOMAIN s \ there \in SUBSET DOMAIN s
  BY <1>1, <1>2
<1> HIDE DEF there
<1>4. /\ Only(s, there) = IF there = {} THEN <<>> ELSE s
      /\ Only(s, DOMAIN s \ there) = IF DOMAIN s \ there = {} THEN <<>> ELSE s
  BY <1>3, SomeOf
<1>5. Emptied(s, ref) = Only(s, DOMAIN s \ there)
  BY DEF Emptied, there
<1>6. Emptied(s, ref) = IF s # <<>> /\ s[1].candidate = ref THEN <<>> ELSE s
  BY <1>1, <1>2, <1>4, <1>5
<1>7. Only(s, there) = IF s # <<>> /\ s[1].candidate = ref THEN s ELSE <<>>
  BY <1>2, <1>4
<1> QED
  BY <1>6, <1>7 DEF there

\* What a machine has on file for a candidate.
LEMMA FoundIs ==
    ASSUME EvidenceInv, NEW m \in Machines, FileBinds(file[m]), NEW ref \in Candidates
    PROVE  LET found == file[m].own[ref] \o Slot(m, ref)
           IN  /\ \A setup \in ToSet(found) : setup.candidate = ref
               /\ Clear(file[m], ref) => found = <<>>
               /\ found # <<>> => found[1] \in ToSet(found)
<1> DEFINE own == file[m].own[ref]
           slot == Slot(m, ref)
           found == own \o slot
<1>1. /\ IsOption(own) /\ (own # <<>> => own[1].candidate = ref) /\ IsOption(file[m].slot)
  BY DEF FileBinds
<1>2. slot = IF file[m].slot # <<>> /\ file[m].slot[1].candidate = ref THEN file[m].slot ELSE <<>>
  BY <1>1, SlotIs DEF Slot
<1>3. IsOption(slot) /\ (slot # <<>> => slot[1].candidate = ref)
  BY <1>1, <1>2 DEF IsOption
<1>4. Clear(file[m], ref) => own = <<>> /\ slot = <<>>
  BY <1>2 DEF Clear
<1> HIDE DEF own, slot
<1>5. \A s : IsOption(s) => IsSequence(s) /\ \A x \in ToSet(s) : s # <<>> /\ x = s[1]
  <2> SUFFICES ASSUME NEW s, IsOption(s)
               PROVE  IsSequence(s) /\ \A x \in ToSet(s) : s # <<>> /\ x = s[1]
    OBVIOUS
  <2>1. CASE s = <<>>
    BY <2>1, EmptyIs DEF IsSequence, ToSet
  <2>2. CASE s # <<>>
    <3>1. PICK x : s = <<x>>
      BY <2>2 DEF IsOption
    <3>2. ToSet(<<x>>) = {x} /\ <<x>> \in Seq({x})
      BY DEF ToSet
    <3> QED
      BY <2>2, <3>1, <3>2 DEF IsSequence
  <2> QED
    BY <2>1, <2>2
<1>6. IsSequence(own) /\ IsSequence(slot)
  BY <1>1, <1>3, <1>5
<1>7. /\ IsSequence(found) /\ ToSet(found) = ToSet(own) \cup ToSet(slot)
      /\ own = <<>> => found = slot
  BY <1>6, JoinedIs
<1>8. \A setup \in ToSet(found) : setup.candidate = ref
  BY <1>1, <1>3, <1>5, <1>7
<1> HIDE DEF found
<1>9. found # <<>> => found[1] \in ToSet(found)
  BY <1>7, SequenceIs DEF ToSet
<1> QED
  BY <1>4, <1>7, <1>8, <1>9 DEF found, own, slot

LEMMA StepOn ==
    ASSUME EvidenceInv, NEW m \in Machines, NEW s, Goto(m, s), task[m].op \in {"provision", "remove"},
           Binds(Bindings(store), live, file, task, calls)
    PROVE  LET t == task[m]
               u == task'[m]
           IN  /\ \A k \in Machines \ {m} : task'[k] = task[k]
               /\ u.op = t.op /\ u.step = s
               /\ t.op = "provision" => u.id = t.id /\ u.at = t.at /\ u.setup = t.setup
                                        /\ "setup" \in DOMAIN u
               /\ t.op = "remove" => u.ref = t.ref /\ {"ref", "step"} \subseteq DOMAIN u
<1> DEFINE t == task[m]
           u == task'[m]
<1>1. /\ \A k \in Machines \ {m} : task'[k] = task[k]
      /\ u = [t EXCEPT !.step = s]
  BY GotoIs
<1>2. /\ IdInv(Rowset(store), calls, m, t) /\ TaskInv(Rowset(store), t)
      /\ TaskBinds(Bindings(store), live, m, file[m], t)
  BY BoundParts
<1> HIDE DEF t, u
<1>3. /\ "op" \in DOMAIN t
      /\ t.op = "provision" => {"step", "id", "at", "setup"} \subseteq DOMAIN t
      /\ t.op = "remove" => {"ref", "step"} \subseteq DOMAIN t
  BY <1>2 DEF IdInv, TaskInv, TaskBinds, Numbered
<1>4. t.op \in {"provision", "remove"}
  BY DEF t
<1> QED
  BY <1>1, <1>3, <1>4 DEF t, u

LEMMA ProvisionSlotBinds ==
    ASSUME EvidenceInv, BindingInv, case.slow = {}, NEW m \in Machines, ProvisionSlot(m)
    PROVE  BindingInv'
<1> DEFINE t == task[m]
           u == task'[m]
           f == file[m]
           g == [f EXCEPT !.slot = <<t.setup>>]
           rows == Bindings(store)
           ref == t.setup.candidate
<1>1. /\ t.op = "provision" /\ t.step = "slot" /\ Goto(m, "file")
      /\ UNCHANGED <<case, store, live, calls>>
      /\ file' = [file EXCEPT ![m] = g]
  BY DEF ProvisionSlot, Proceed
<1>2. Binds(rows, live, file, task, calls)
  BY DEF BindingInv
<1>3. /\ DOMAIN file = Machines /\ FileInv(f) /\ FileBinds(f)
      /\ TaskBinds(rows, live, m, f, t) /\ Cleared(rows, live, m, f)
  BY <1>2, BoundParts
<1>4. file'[m] = g /\ \A k \in Machines \ {m} : file'[k] = file[k]
  BY <1>1, <1>3
<1>5. g.slot = <<t.setup>> /\ g.own = f.own
  BY <1>3 DEF FileInv
<1>6. /\ u.op = "provision" /\ u.step = "file" /\ u.id = t.id /\ u.at = t.at
      /\ u.setup = t.setup /\ "setup" \in DOMAIN u
      /\ \A k \in Machines \ {m} : task'[k] = task[k]
  BY <1>1, <1>2, StepOn
<1> HIDE DEF g, f, t, u, rows
<1>7. FileBinds(g)
  BY <1>3, <1>5 DEF FileBinds, IsOption
<1>8. ref \in Candidates /\ (m \in live[ref].by => BoundTo(rows, ref) # {})
  BY <1>1, <1>3 DEF TaskBinds
<1>9. Cleared(rows, live, m, g)
  <2>1. \A x \in Candidates : (x # ref /\ Clear(f, x)) => Clear(g, x)
    BY <1>5 DEF Clear
  <2> QED
    BY <1>3, <1>8, <2>1 DEF Cleared
<1>10. TaskBinds(rows, live, m, g, u)
  <2>1. Pending(u) = {}
    BY <1>6 DEF Pending
  <2>2. t.at.nano = t.id[2] + 2 /\ t.id[3] = "provision"
    BY <1>1, <1>3 DEF TaskBinds, Binders
  <2> QED
    BY <1>6, <1>8, <2>1, <2>2 DEF TaskBinds
<1>11. t.op \in Binders /\ u.id[2] = t.id[2]
  BY <1>1, <1>6 DEF Binders
<1> QED
  BY <1>1, <1>2, <1>4, <1>6, <1>7, <1>9, <1>10, <1>11, QuietStep DEF t, u, rows

LEMMA ProvisionFileBinds ==
    ASSUME EvidenceInv, BindingInv, case.slow = {}, NEW m \in Machines, ProvisionFile(m)
    PROVE  BindingInv'
<1> DEFINE t == task[m]
           f == file[m]
           ref == t.setup.candidate
           g == [f EXCEPT !.own[ref] = <<t.setup>>]
           rows == Bindings(store)
<1>1. /\ t.op = "provision" /\ t.step = "file" /\ Done(m)
      /\ UNCHANGED <<case, store, live, calls>>
      /\ file' = [file EXCEPT ![m] = g]
  BY DEF ProvisionFile, Proceed
<1>2. Binds(rows, live, file, task, calls)
  BY DEF BindingInv
<1>3. /\ DOMAIN file = Machines /\ FileInv(f) /\ FileBinds(f)
      /\ TaskBinds(rows, live, m, f, t) /\ Cleared(rows, live, m, f)
  BY <1>2, BoundParts
<1>4. file'[m] = g /\ \A k \in Machines \ {m} : file'[k] = file[k]
  BY <1>1, <1>3
<1>5. g.slot = f.slot /\ g.own = [f.own EXCEPT ![ref] = <<t.setup>>]
  BY <1>3 DEF FileInv
<1>6. /\ task'[m] = Idle /\ \A k \in Machines \ {m} : task'[k] = task[k]
  BY <1>1, DoneIs
<1> HIDE DEF g, f, t, rows
<1>7. FileBinds(g)
  BY <1>3, <1>5 DEF FileBinds, IsOption
<1>8. ref \in Candidates /\ (m \in live[ref].by => BoundTo(rows, ref) # {})
  BY <1>1, <1>3 DEF TaskBinds
<1>9. Cleared(rows, live, m, g)
  <2>1. \A x \in Candidates : (x # ref /\ Clear(f, x)) => Clear(g, x)
    BY <1>3, <1>5 DEF Clear, FileBinds
  <2> QED
    BY <1>3, <1>8, <2>1 DEF Cleared
<1>10. TaskBinds(rows, live, m, g, Idle) /\ Idle.op \notin Binders
  BY DEF TaskBinds, Idle, Binders
<1> QED
  BY <1>1, <1>2, <1>4, <1>6, <1>7, <1>9, <1>10, QuietStep DEF rows

LEMMA DeleteBinds ==
    ASSUME EvidenceInv, BindingInv, case.slow = {}, NEW m \in Machines, NEW ref \in Candidates,
           Delete(m, ref)
    PROVE  BindingInv'
<1> DEFINE t == [op |-> "remove", step |-> "slot", ref |-> ref]
           f == file[m]
           g == [f EXCEPT !.own[ref] = <<>>]
           rows == Bindings(store)
<1>1. /\ UNCHANGED <<case, store, live>> /\ calls' = calls + 1
      /\ file' = [file EXCEPT ![m] = g] /\ task' = [task EXCEPT ![m] = t]
  BY DEF Delete, Begin
<1>2. Binds(rows, live, file, task, calls)
  BY DEF BindingInv
<1>3. /\ DOMAIN file = Machines /\ DOMAIN task = Machines /\ FileInv(f) /\ FileBinds(f)
      /\ Cleared(rows, live, m, f)
  BY <1>2, BoundParts
<1>4. file'[m] = g /\ \A k \in Machines \ {m} : file'[k] = file[k]
  BY <1>1, <1>3
<1>5. g.slot = f.slot /\ g.own = [f.own EXCEPT ![ref] = <<>>]
  BY <1>3 DEF FileInv
<1>6. task'[m] = t /\ \A k \in Machines \ {m} : task'[k] = task[k]
  BY <1>1, <1>3
<1>7. DOMAIN t = {"op", "step", "ref"} /\ t.op = "remove" /\ t.step = "slot" /\ t.ref = ref
  OBVIOUS
<1> HIDE DEF g, f, t, rows
<1>8. FileBinds(g) /\ g.own[ref] = <<>>
  BY <1>3, <1>5 DEF FileBinds, IsOption
<1>9. Cleared(rows, live, m, g)
  <2>1. \A x \in Candidates : Clear(f, x) => Clear(g, x)
    BY <1>3, <1>5 DEF Clear, FileBinds
  <2> QED
    BY <1>3, <2>1 DEF Cleared
<1>10. TaskBinds(rows, live, m, g, t) /\ t.op \notin Binders
  BY <1>7, <1>8 DEF TaskBinds, Binders
<1> QED
  BY <1>1, <1>2, <1>4, <1>6, <1>8, <1>9, <1>10, QuietStep DEF rows

LEMMA RemoveSlotBinds ==
    ASSUME EvidenceInv, BindingInv, case.slow = {}, NEW m \in Machines, RemoveSlot(m)
    PROVE  BindingInv'
<1> DEFINE t == task[m]
           u == task'[m]
           f == file[m]
           g == [f EXCEPT !.slot = Emptied(f.slot, t.ref)]
           rows == Bindings(store)
<1>1. /\ t.op = "remove" /\ t.step = "slot" /\ Goto(m, "record")
      /\ UNCHANGED <<case, store, live, calls>>
      /\ file' = [file EXCEPT ![m] = g]
  BY DEF RemoveSlot, Proceed
<1>2. Binds(rows, live, file, task, calls)
  BY DEF BindingInv
<1>3. /\ DOMAIN file = Machines /\ FileInv(f) /\ FileBinds(f)
      /\ TaskBinds(rows, live, m, f, t) /\ Cleared(rows, live, m, f)
  BY <1>2, BoundParts
<1>4. file'[m] = g /\ \A k \in Machines \ {m} : file'[k] = file[k]
  BY <1>1, <1>3
<1>5. g.slot = Emptied(f.slot, t.ref) /\ g.own = f.own
  BY <1>3 DEF FileInv
<1>6. /\ u.op = "remove" /\ u.step = "record" /\ u.ref = t.ref
      /\ {"ref", "step"} \subseteq DOMAIN u
      /\ \A k \in Machines \ {m} : task'[k] = task[k]
  BY <1>1, <1>2, StepOn
<1> HIDE DEF g, f, t, u, rows
<1>7. Emptied(f.slot, t.ref) = IF f.slot # <<>> /\ f.slot[1].candidate = t.ref THEN <<>> ELSE f.slot
  BY <1>3, SlotIs DEF FileBinds
<1>8. FileBinds(g)
  BY <1>3, <1>5, <1>7 DEF FileBinds, IsOption
<1>9. Cleared(rows, live, m, g)
  <2>1. \A x \in Candidates : Clear(f, x) => Clear(g, x)
    BY <1>5, <1>7 DEF Clear
  <2> QED
    BY <1>3, <2>1 DEF Cleared
<1>10. t.ref \in Candidates /\ f.own[t.ref] = <<>>
  BY <1>1, <1>3 DEF TaskBinds
<1>11. Clear(g, t.ref)
  BY <1>5, <1>7, <1>10 DEF Clear
<1>12. TaskBinds(rows, live, m, g, u) /\ u.op \notin Binders
  BY <1>5, <1>6, <1>10, <1>11 DEF TaskBinds, Binders
<1> QED
  BY <1>1, <1>2, <1>4, <1>6, <1>8, <1>9, <1>12, QuietStep DEF u, rows

\* A row that is added, under a number that its candidate has no row of.
LEMMA AddedIs ==
    ASSUME NEW rows, RowsBound(rows), NEW r, NEW new, rows \subseteq new, new \subseteq rows \cup {r},
           r.id[2] \in Nat, r.created_at.nano = r.id[2] + 2,
           \A e \in rows : e.id[2] = r.id[2] => e.subject # r.subject
    PROVE  /\ RowsBound(new)
           /\ \A x : x # r.subject => BoundTo(new, x) = BoundTo(rows, x)
           /\ \A x : /\ BoundTo(rows, x) \subseteq BoundTo(new, x)
                     /\ BoundTo(new, x) \subseteq BoundTo(rows, x) \cup {r}
<1>1. \A e \in new : e \in rows \/ e = r
  OBVIOUS
<1>2. \A e, f \in new : e.subject = f.subject /\ e.id[2] = f.id[2] => e = f
  BY <1>1 DEF RowsBound
<1>3. \A e \in new : e.id[2] \in Nat /\ e.created_at.nano = e.id[2] + 2
  BY <1>1 DEF RowsBound
<1>4. RowsBound(new)
  BY <1>2, <1>3 DEF RowsBound
<1> QED
  BY <1>1, <1>4 DEF BoundTo

\* What was brought in from files is no word of who was last.
LEMMA LastImported ==
    ASSUME NEW last, NEW rows, NEW n, LastInv(last, rows, n), NEW r, NEW new,
           rows \subseteq new, new \subseteq rows \cup {r},
           r.id[3] # "provision", r.id[1] \notin last.by
    PROVE  LastInv(last, new, n)
<1>1. \A e \in rows : Newest(e, new) => Newest(e, rows)
  BY DEF Newest
<1>2. \A e \in new : e \in rows \/ e = r
  OBVIOUS
<1>3. \A e \in new : e.id[3] = "provision" => e.id[2] < last.since
  BY <1>2 DEF LastInv
<1>4. \A e \in new : Newest(e, new) =>
         <<e.payload>> \in last.setups \/ (e.id[3] # "provision" /\ e.id[1] \notin last.by)
  BY <1>1, <1>2 DEF LastInv
<1> QED
  BY <1>3, <1>4 DEF LastInv

\* What is last from a provision on that began at b.
Stands(last, now, setup, m, b, n) ==
    /\ now.since = n
    /\ now.setups = {setup} \cup (IF b < last.since THEN last.setups ELSE {})
    /\ now.by = {m} \cup (IF b < last.since THEN last.by ELSE {})

LEMMA StandsIs ==
    ASSUME DOMAIN live = Candidates, NEW ref \in Candidates, NEW setup, NEW m, NEW b,
           MayStand(ref, setup, m, b)
    PROVE  /\ DOMAIN live' = Candidates /\ \A x \in Candidates \ {ref} : live'[x] = live[x]
           /\ Stands(live[ref], live'[ref], setup, m, b, calls)
<1> DEFINE now == [setups |-> {setup} \cup (IF b < live[ref].since THEN live[ref].setups ELSE {}),
                   by |-> {m} \cup (IF b < live[ref].since THEN live[ref].by ELSE {}),
                   since |-> calls]
<1>1. live' = [live EXCEPT ![ref] = now]
  BY DEF MayStand
<1>2. Stands(live[ref], now, setup, m, b, calls)
  BY DEF Stands
<1> HIDE DEF now
<1> QED
  BY <1>1, <1>2

\* A provision that was recorded is the newest, or overlapped with what is.
LEMMA LastProvisioned ==
    ASSUME NEW last, NEW rows, NEW n \in Nat, NEW before, LastInv(last, rows, before),
           NEW m, NEW b \in Nat, NEW setup,
           NEW now, Stands(last, now, <<setup>>, m, b, n),
           \A e \in rows : e.id[2] \in Nat /\ e.id[2] < n /\ (e.id[1] = m => e.id[2] < b),
           NEW r, r.id[2] = b, b < n, r.payload = setup, NEW new, new = rows \cup {r}
    PROVE  LastInv(now, new, n)
<1>1. \A e \in new : e.id[2] < n
  OBVIOUS
<1>2. ASSUME NEW e \in rows, Newest(e, new)
      PROVE  <<e.payload>> \in now.setups \/ (e.id[3] # "provision" /\ e.id[1] \notin now.by)
  <2>1. Newest(e, rows) /\ b <= e.id[2]
    BY <1>2 DEF Newest
  <2>2. e.id[1] # m
    BY <2>1
  <2>3. <<e.payload>> \in last.setups \/ (e.id[3] # "provision" /\ e.id[1] \notin last.by)
    BY <2>1 DEF LastInv
  <2>4. CASE b < last.since
    BY <2>2, <2>3, <2>4 DEF Stands
  <2>5. CASE ~(b < last.since)
    <3>1. e.id[3] # "provision"
      BY <2>1, <2>5 DEF LastInv
    <3>2. now.by = {m}
      BY <2>5 DEF Stands
    <3> QED
      BY <2>2, <3>1, <3>2
  <2> QED
    BY <2>4, <2>5
<1>3. <<r.payload>> \in now.setups
  BY DEF Stands
<1>4. \A e \in new : Newest(e, new) =>
         <<e.payload>> \in now.setups \/ (e.id[3] # "provision" /\ e.id[1] \notin now.by)
  BY <1>2, <1>3
<1>5. now.since = n /\ r \in new
  BY DEF Stands
<1>6. /\ now.since \in Nat /\ now.since <= n /\ new # {}
      /\ \A e \in new : e.id[3] = "provision" => e.id[2] < now.since
  BY <1>1, <1>5
<1> QED
  BY <1>4, <1>6 DEF LastInv

\* One that the newest row already says is recorded as it is.
LEMMA LastConfirmed ==
    ASSUME NEW last, NEW rows, RowsBound(rows), NEW ref, NEW n \in Nat, NEW m, NEW b, NEW setup,
           NEW now, Stands(last, now, <<setup>>, m, b, n),
           \A e \in rows : e.id[2] < n,
           NEW standing \in BoundTo(rows, ref), Newest(standing, BoundTo(rows, ref)),
           standing.payload = setup
    PROVE  LastInv(now, BoundTo(rows, ref), n)
<1>1. ASSUME NEW e \in BoundTo(rows, ref), Newest(e, BoundTo(rows, ref))
      PROVE  <<e.payload>> \in now.setups
  <2>1. e.id[2] <= standing.id[2] /\ standing.id[2] <= e.id[2]
    BY <1>1 DEF Newest
  <2>2. /\ e \in rows /\ standing \in rows /\ e.subject = ref /\ standing.subject = ref
        /\ e.id[2] \in Nat /\ standing.id[2] \in Nat
    BY DEF BoundTo, RowsBound
  <2>3. e.id[2] = standing.id[2]
    BY <2>1, <2>2
  <2>4. e = standing
    BY <2>2, <2>3 DEF RowsBound
  <2> QED
    BY <2>4 DEF Stands
<1>2. now.since = n
  BY DEF Stands
<1>3. \A e \in BoundTo(rows, ref) : e.id[2] < n
  BY DEF BoundTo
<1> QED
  BY <1>1, <1>2, <1>3 DEF LastInv

\* Provisioned, with a row: no machine forgets what it knows.
LEMMA StandsSpares ==
    ASSUME NEW rows, NEW new, rows \subseteq new, DOMAIN live = Candidates,
           NEW ref \in Candidates, NEW setup, NEW m, NEW b, MayStand(ref, setup, m, b),
           NEW t, \A e \in new : e \in rows \/ (e.id[1] = m /\ t.op \in Binders /\ e.id[2] = t.id[2]),
           BoundTo(new, ref) # {}, NEW f, Cleared(rows, live, m, f)
    PROVE  Spares(rows, new, live, live', m, t) /\ Cleared(new, live', m, f)
<1>1. /\ \A x \in Candidates \ {ref} : live'[x] = live[x]
      /\ Stands(live[ref], live'[ref], setup, m, b, calls)
  BY StandsIs
<1>2. \A x : BoundTo(rows, x) \subseteq BoundTo(new, x)
  BY DEF BoundTo
<1>3. \A x \in Candidates : \A k : k # m /\ k \in live'[x].by => k \in live[x].by
  BY <1>1 DEF Stands
<1>4. Spares(rows, new, live, live', m, t)
  BY <1>2, <1>3 DEF Spares
<1>5. Cleared(new, live', m, f)
  BY <1>1, <1>2 DEF Cleared
<1> QED
  BY <1>4, <1>5

LEMMA ProvisionCheckBinds ==
    ASSUME EvidenceInv, BindingInv, case.slow = {}, NEW m \in Machines, ProvisionCheck(m)
    PROVE  BindingInv'
<1> DEFINE t == task[m]
           u == task'[m]
           f == file[m]
           rows == Bindings(store)
           setup == t.setup
           ref == setup.candidate
           standing == Binding(ref)
<1>1. /\ t.op = "provision" /\ t.step = "check" /\ UNCHANGED <<case, file, store, calls>>
      /\ \/ /\ standing # <<>> /\ standing[1].payload = setup
            /\ MayStand(ref, <<setup>>, m, t.id[2]) /\ Goto(m, "slot")
         \/ Goto(m, "record") /\ UNCHANGED live
  BY DEF ProvisionCheck, Proceed
<1>2. Binds(rows, live, file, task, calls)
  BY DEF BindingInv
<1>3. /\ calls \in Nat /\ DOMAIN live = Candidates /\ RowsBound(rows)
      /\ \A e \in rows : e.id[2] \in Nat /\ e.id[2] < calls
      /\ FileBinds(f) /\ TaskBinds(rows, live, m, f, t) /\ Cleared(rows, live, m, f)
      /\ IdInv(Rowset(store), calls, m, t)
  BY <1>2, BoundParts
<1>4. PICK s \in {"slot", "record"} :
         /\ Goto(m, s)
         /\ s = "slot" => /\ standing # <<>> /\ standing[1].payload = setup
                          /\ MayStand(ref, <<setup>>, m, t.id[2])
         /\ s = "record" => UNCHANGED live
  BY <1>1
<1>5. /\ \A k \in Machines \ {m} : task'[k] = task[k]
      /\ u.op = "provision" /\ u.step = s /\ u.id = t.id /\ u.at = t.at /\ u.setup = t.setup
      /\ "setup" \in DOMAIN u
  BY <1>1, <1>2, <1>4, StepOn
<1>6. /\ standing = <<>> => BoundTo(rows, ref) = {}
      /\ standing # <<>> => /\ standing[1] \in BoundTo(rows, ref)
                            /\ Newest(standing[1], BoundTo(rows, ref))
  BY <1>3, BindingIs
<1> HIDE DEF t, u, f, rows, standing
<1>7. /\ ref \in Candidates /\ t.at.nano = t.id[2] + 2 /\ t.id[3] = "provision"
      /\ \A e \in rows : e.id[1] = m => e.id[2] < t.id[2]
      /\ \A e \in rows : e.id[2] = t.id[2] => e.subject # ref
  <2>1. Pending(t) = {ref}
    BY <1>1 DEF Pending
  <2> QED
    BY <1>1, <1>3, <2>1 DEF TaskBinds, Binders
<1>8. t.op \in Binders /\ u.op \in Binders /\ u.id[2] = t.id[2]
  BY <1>1, <1>5 DEF Binders
<1>9. CASE s = "record"
  <2>1. TaskBinds(rows, live, m, f, u)
    <3>1. Pending(u) = {ref}
      BY <1>5, <1>9 DEF Pending
    <3> QED
      BY <1>5, <1>7, <1>9, <3>1 DEF TaskBinds
  <2> QED
    BY <1>1, <1>2, <1>3, <1>4, <1>5, <1>8, <1>9, <2>1, QuietStep DEF t, u, f, rows
<1>10. CASE s = "slot"
  <2>1. /\ DOMAIN live' = Candidates /\ \A x \in Candidates \ {ref} : live'[x] = live[x]
        /\ Stands(live[ref], live'[ref], <<setup>>, m, t.id[2], calls)
    BY <1>3, <1>4, <1>7, <1>10, StandsIs
  <2>2. LastInv(live'[ref], BoundTo(rows, ref), calls) /\ BoundTo(rows, ref) # {}
    BY <1>3, <1>4, <1>6, <1>10, <2>1, LastConfirmed
  <2>3. \A x \in Candidates : LastInv(live'[x], BoundTo(rows, x), calls)
    <3>1. \A x \in Candidates : LastInv(live[x], BoundTo(rows, x), calls)
      BY <1>2 DEF Binds
    <3> QED
      BY <2>1, <2>2, <3>1
  <2>4. Spares(rows, rows, live, live', m, t) /\ Cleared(rows, live', m, f)
    BY <1>3, <1>4, <1>7, <1>10, <2>2, StandsSpares
  <2>5. TaskBinds(rows, live', m, f, u)
    <3>1. Pending(u) = {}
      BY <1>5, <1>10 DEF Pending
    <3> QED
      BY <1>5, <1>7, <1>10, <2>2, <3>1 DEF TaskBinds
  <2>6. Bindings(store') = rows /\ file'[m] = f
    BY <1>1 DEF rows, f
  <2>7. OneStep(m)
    BY <1>1, <1>3, <2>1, <2>3, <2>4, <2>5, <2>6 DEF OneStep, u
  <2>8. Binds(Bindings(store'), live', file', task', calls')
    BY <1>1, <1>2, <1>5, <1>8, <2>4, <2>6, <2>7, OneStepIs DEF t, u, rows
  <2> QED
    BY <2>8 DEF BindingInv, Bindings, Rowset
<1> QED
  BY <1>9, <1>10

LEMMA ProvisionRecordBinds ==
    ASSUME EvidenceInv, BindingInv, case.slow = {}, NEW m \in Machines, ProvisionRecord(m)
    PROVE  BindingInv'
<1> DEFINE t == task[m]
           u == task'[m]
           f == file[m]
           rows == Bindings(store)
           new == Bindings(store')
           setup == t.setup
           ref == setup.candidate
           r == environment_record(setup, t.id, t.at)
<1>1. /\ t.op = "provision" /\ t.step = "record" /\ UNCHANGED <<case, file, calls>>
      /\ store' = S!record_evidence(store, r)
      /\ MayStand(ref, <<setup>>, m, t.id[2]) /\ Goto(m, "slot")
  BY DEF ProvisionRecord, Proceed
<1>2. Binds(rows, live, file, task, calls)
  BY DEF BindingInv
<1>3. /\ calls \in Nat /\ DOMAIN live = Candidates /\ RowsBound(rows)
      /\ \A e \in rows : e.id[2] \in Nat /\ e.id[2] < calls
      /\ FileBinds(f) /\ TaskBinds(rows, live, m, f, t) /\ Cleared(rows, live, m, f)
      /\ IdInv(Rowset(store), calls, m, t) /\ TaskInv(Rowset(store), t)
  BY <1>2, BoundParts
<1>4. /\ \A k \in Machines \ {m} : task'[k] = task[k]
      /\ u.op = "provision" /\ u.step = "slot" /\ u.id = t.id /\ u.at = t.at /\ u.setup = t.setup
      /\ "setup" \in DOMAIN u
  BY <1>1, <1>2, StepOn
<1>5. /\ r.id = t.id /\ r.subject = ref /\ r.created_at = t.at /\ r.payload = setup
      /\ r.kind = "environment"
  BY DEF environment_record
<1>6. RowInv(r)
  BY <1>1, <1>3, BindingRowIs DEF TaskInv
<1> HIDE DEF t, u, f, r
<1>7. /\ ref \in Candidates /\ t.at.nano = t.id[2] + 2 /\ t.id[3] = "provision"
      /\ \A e \in rows : e.id[1] = m => e.id[2] < t.id[2]
      /\ \A e \in rows : e.id[2] = t.id[2] => e.subject # ref
  <2>1. Pending(t) = {ref}
    BY <1>1 DEF Pending
  <2> HIDE DEF rows
  <2> QED
    BY <1>1, <1>3, <2>1 DEF TaskBinds, Binders
<1>8. /\ t.op \in Binders /\ u.op \in Binders /\ u.id[2] = t.id[2]
      /\ t.id[1] = m /\ t.id[2] \in Nat /\ t.id[2] < calls
      /\ \A e \in Rowset(store) : e.id # t.id
  BY <1>1, <1>3, <1>4 DEF Binders, IdInv, Numbered, Unrecorded
<1>9. new = rows \cup {r}
  <2>1. Adds(store, store', r) /\ r \in Rowset(store')
    BY <1>1, <1>5, <1>6, <1>8, RecordIs, PartsAre
  <2> QED
    BY <1>5, <2>1 DEF Adds, Bindings
<1> HIDE DEF rows, new
<1>10. /\ RowsBound(new)
       /\ \A x : x # ref => BoundTo(new, x) = BoundTo(rows, x)
       /\ \A x : BoundTo(rows, x) \subseteq BoundTo(new, x)
  <2>1. /\ RowsBound(rows) /\ rows \subseteq new /\ new \subseteq rows \cup {r}
        /\ r.id[2] \in Nat /\ r.created_at.nano = r.id[2] + 2
        /\ \A e \in rows : e.id[2] = r.id[2] => e.subject # r.subject
    BY <1>3, <1>5, <1>7, <1>8, <1>9
  <2>2. /\ RowsBound(new)
        /\ \A x : x # r.subject => BoundTo(new, x) = BoundTo(rows, x)
        /\ \A x : BoundTo(rows, x) \subseteq BoundTo(new, x)
    BY <2>1, AddedIs
  <2> QED
    BY <1>5, <2>2
<1>11. BoundTo(new, ref) = BoundTo(rows, ref) \cup {r}
  BY <1>5, <1>9 DEF BoundTo
<1>12. /\ DOMAIN live' = Candidates /\ \A x \in Candidates \ {ref} : live'[x] = live[x]
       /\ Stands(live[ref], live'[ref], <<setup>>, m, t.id[2], calls)
  BY <1>1, <1>3, <1>7, StandsIs
<1>13. \A x \in Candidates : LastInv(live[x], BoundTo(rows, x), calls)
  BY <1>2 DEF Binds
<1>14. LastInv(live'[ref], BoundTo(new, ref), calls)
  <2>1. \A e \in BoundTo(rows, ref) : e.id[2] \in Nat /\ e.id[2] < calls /\ (e.id[1] = m => e.id[2] < t.id[2])
    BY <1>3, <1>7 DEF BoundTo
  <2>2. LastInv(live[ref], BoundTo(rows, ref), calls)
    BY <1>7, <1>13
  <2>3. r.id[2] = t.id[2] /\ r.payload = setup
    BY <1>5
  <2> DEFINE b == t.id[2]
             last == live[ref]
             now == live'[ref]
             of == BoundTo(rows, ref)
  <2>4. /\ LastInv(last, of, calls) /\ Stands(last, now, <<setup>>, m, b, calls)
        /\ r.id[2] = b /\ b \in Nat /\ b < calls /\ calls \in Nat
        /\ \A e \in of : e.id[2] \in Nat /\ e.id[2] < calls /\ (e.id[1] = m => e.id[2] < b)
    BY <1>3, <1>8, <1>12, <2>1, <2>2, <2>3
  <2> HIDE DEF b, last, now, of
  <2>5. LastInv(now, of \cup {r}, calls)
    BY <2>3, <2>4, LastProvisioned
  <2> QED
    BY <1>11, <2>5 DEF now, of
<1>15. \A x \in Candidates : LastInv(live'[x], BoundTo(new, x), calls)
  BY <1>10, <1>12, <1>13, <1>14
<1>16. Spares(rows, new, live, live', m, t) /\ Cleared(new, live', m, f)
  <2>1. \A e \in new : e \in rows \/ (e.id[1] = m /\ t.op \in Binders /\ e.id[2] = t.id[2])
    BY <1>5, <1>8, <1>9
  <2>2. rows \subseteq new /\ BoundTo(new, ref) # {}
    BY <1>9, <1>11
  <2> QED
    BY <1>1, <1>3, <1>7, <2>1, <2>2, StandsSpares
<1>17. TaskBinds(new, live', m, f, u)
  <2>1. Pending(u) = {}
    BY <1>4 DEF Pending
  <2> QED
    BY <1>4, <1>7, <1>11, <2>1 DEF TaskBinds
<1>18. file' = file /\ file'[m] = f /\ calls' = calls
  BY <1>1 DEF f
<1>19. OneStep(m)
  BY <1>3, <1>10, <1>12, <1>15, <1>16, <1>17, <1>18 DEF OneStep, u, new
<1>20. Binds(Bindings(store'), live', file', task', calls')
  BY <1>2, <1>4, <1>8, <1>16, <1>18, <1>19, OneStepIs DEF t, u, rows, new
<1> QED
  BY <1>20 DEF BindingInv, Bindings, Rowset

LEMMA RemoveRecordBinds ==
    ASSUME EvidenceInv, BindingInv, case.slow = {}, NEW m \in Machines, RemoveRecord(m)
    PROVE  BindingInv'
<1> DEFINE t == task[m]
           f == file[m]
           rows == Bindings(store)
           new == Bindings(store')
           ref == t.ref
           now == [setups |-> {<<>>}, by |-> {m}, since |-> calls]
<1>1. /\ t.op = "remove" /\ t.step = "record" /\ Done(m) /\ UNCHANGED <<case, file, calls>>
      /\ store' = S!remove_evidence(store, "environment", ref)
      /\ live' = [live EXCEPT ![ref] = now]
  BY DEF RemoveRecord, Proceed
<1>2. Binds(rows, live, file, task, calls)
  BY DEF BindingInv
<1>3. /\ calls \in Nat /\ DOMAIN live = Candidates /\ RowsBound(rows)
      /\ FileBinds(f) /\ TaskBinds(rows, live, m, f, t) /\ Cleared(rows, live, m, f)
  BY <1>2, BoundParts
<1>4. task'[m] = Idle /\ \A k \in Machines \ {m} : task'[k] = task[k]
  BY <1>1, DoneIs
<1>5. ref \in Candidates /\ Clear(f, ref)
  BY <1>1, <1>3 DEF TaskBinds
<1>6. now.setups = {<<>>} /\ now.by = {m} /\ now.since = calls
  OBVIOUS
<1>7. new = {e \in rows : e.subject # ref}
  <2>1. Rowset(store') = {e \in Rowset(store) : ~(e.kind = "environment" /\ e.subject = ref)}
    BY <1>1, PartsAre, RemoveIs
  <2> QED
    BY <2>1 DEF Bindings
<1>8. /\ DOMAIN live' = Candidates /\ live'[ref] = now
      /\ \A x \in Candidates \ {ref} : live'[x] = live[x]
  <2> HIDE DEF now
  <2> QED
    BY <1>1, <1>3, <1>5
<1> HIDE DEF t, f, rows, new, now
<1>9. /\ BoundTo(new, ref) = {} /\ RowsBound(new)
      /\ \A x : x # ref => BoundTo(new, x) = BoundTo(rows, x)
  BY <1>3, <1>7 DEF BoundTo, RowsBound
<1>10. \A x \in Candidates : LastInv(live'[x], BoundTo(new, x), calls)
  <2>1. LastInv(now, {}, calls)
    BY <1>3, <1>6 DEF LastInv
  <2>2. \A x \in Candidates : LastInv(live[x], BoundTo(rows, x), calls)
    BY <1>2 DEF Binds
  <2> QED
    BY <1>8, <1>9, <2>1, <2>2
<1>11. Spares(rows, new, live, live', m, t)
  BY <1>6, <1>7, <1>8, <1>9 DEF Spares
<1>12. Cleared(new, live', m, f)
  BY <1>3, <1>5, <1>8, <1>9 DEF Cleared
<1>13. TaskBinds(new, live', m, f, Idle) /\ Idle.op \notin Binders
  BY DEF TaskBinds, Idle, Binders
<1>14. file' = file /\ file'[m] = f /\ calls' = calls
  BY <1>1 DEF f
<1>15. OneStep(m)
  BY <1>3, <1>4, <1>8, <1>9, <1>10, <1>12, <1>13, <1>14 DEF OneStep, new
<1>16. Binds(Bindings(store'), live', file', task', calls')
  BY <1>2, <1>4, <1>11, <1>13, <1>14, <1>15, OneStepIs DEF t, rows, new
<1> QED
  BY <1>16 DEF BindingInv, Bindings, Rowset

\* What is brought in from files was not put there by the last machine.
LEMMA ImportBinds ==
    ASSUME EvidenceInv, Binds(Bindings(store), live, file, task, calls), NEW m \in Machines,
           task[m].op \in {"read", "scan"}, NEW ref \in Pending(task[m]),
           NEW setup \in ToSet(file[m].own[ref] \o Slot(m, ref)), NEW id,
           id[1] = m, id[2] = task[m].id[2], id[3] # "provision",
           store' = import_evidence(store, environment_record(setup, id, task[m].at)).db,
           UNCHANGED live
    PROVE  /\ Spares(Bindings(store), Bindings(store'), live, live', m, task[m])
           /\ RowsBound(Bindings(store')) /\ Cleared(Bindings(store'), live', m, file[m])
           /\ \A x \in Candidates : LastInv(live'[x], BoundTo(Bindings(store'), x), calls)
           /\ \A e \in Bindings(store') : e \in Bindings(store) \/ e.subject = ref
<1> DEFINE t == task[m]
           f == file[m]
           rows == Bindings(store)
           new == Bindings(store')
           r == environment_record(setup, id, t.at)
<1>1. /\ DOMAIN live = Candidates /\ RowsBound(rows) /\ FileBinds(f)
      /\ TaskBinds(rows, live, m, f, t) /\ Cleared(rows, live, m, f)
      /\ IdInv(Rowset(store), calls, m, t) /\ TaskInv(Rowset(store), t)
  BY BoundParts
<1>2. /\ t.op \in Binders /\ t.at.nano = t.id[2] + 2 /\ ref \in Candidates
      /\ \A e \in rows : e.id[2] = t.id[2] => e.subject # ref
      /\ m \in live[ref].by => Clear(f, ref)
  BY <1>1 DEF TaskBinds, Binders
<1>3. setup.candidate = ref /\ ~Clear(f, ref)
  <2>1. ToSet(<<>>) = {}
    BY EmptyIs DEF ToSet
  <2> QED
    BY <1>1, <1>2, <2>1, FoundIs
<1>4. m \notin live[ref].by
  BY <1>2, <1>3
<1>5. /\ r.id = id /\ r.subject = ref /\ r.created_at = t.at /\ r.kind = "environment"
  BY <1>3 DEF environment_record
<1>6. t.id[2] \in Nat /\ RowInv(r)
  BY <1>1, BindingRowIs DEF IdInv, TaskInv, Numbered
<1>7. store' = import_evidence(store, r).db
  OBVIOUS
<1> HIDE DEF t, f, r
<1>8. Adds(store, store', r)
  BY <1>6, <1>7, ImportIs, PartsAre
<1>9. rows \subseteq new /\ new \subseteq rows \cup {r}
  BY <1>5, <1>8 DEF Adds, Bindings
<1>10. id[2] = t.id[2]
  BY DEF t
<1> HIDE DEF rows, new
<1>11. /\ RowsBound(new)
       /\ \A x : x # ref => BoundTo(new, x) = BoundTo(rows, x)
       /\ \A x : /\ BoundTo(rows, x) \subseteq BoundTo(new, x)
                 /\ BoundTo(new, x) \subseteq BoundTo(rows, x) \cup {r}
  BY <1>1, <1>2, <1>5, <1>6, <1>9, <1>10, AddedIs
<1>12. \A x \in Candidates : LastInv(live[x], BoundTo(rows, x), calls)
  BY DEF Binds, rows
<1>13. LastInv(live[ref], BoundTo(new, ref), calls)
  <2>1. /\ LastInv(live[ref], BoundTo(rows, ref), calls)
        /\ BoundTo(rows, ref) \subseteq BoundTo(new, ref)
        /\ BoundTo(new, ref) \subseteq BoundTo(rows, ref) \cup {r}
    BY <1>2, <1>11, <1>12
  <2>2. r.id[3] # "provision" /\ r.id[1] \notin live[ref].by
    BY <1>4, <1>5
  <2> QED
    BY <2>1, <2>2, LastImported
<1>14. \A x \in Candidates : LastInv(live[x], BoundTo(new, x), calls)
  BY <1>11, <1>12, <1>13
<1>15. \A e \in new : e \in rows \/ (e.id[1] = m /\ t.op \in Binders /\ e.id[2] = t.id[2])
  BY <1>2, <1>5, <1>9, <1>10
<1>16. Spares(rows, new, live, live', m, t)
  BY <1>11, <1>15 DEF Spares
<1>17. Cleared(new, live, m, f)
  BY <1>1, <1>11 DEF Cleared
<1>18. \A e \in new : e \in rows \/ e.subject = ref
  BY <1>5, <1>9
<1> QED
  BY <1>11, <1>14, <1>16, <1>17, <1>18 DEF t, f, rows, new

LEMMA ReadFilesBinds ==
    ASSUME EvidenceInv, BindingInv, case.slow = {}, NEW m \in Machines, ReadFiles(m)
    PROVE  BindingInv'
<1> DEFINE t == task[m]
           found == file[m].own[t.ref] \o Slot(m, t.ref)
           rows == Bindings(store)
           new == Bindings(store')
<1>1. /\ t.op = "read" /\ Done(m) /\ UNCHANGED <<case, file, live, calls>>
      /\ store' = IF found = <<>> THEN store
                  ELSE import_evidence(store, environment_record(found[1], t.id, t.at)).db
  BY DEF ReadFiles, Proceed
<1>2. Binds(rows, live, file, task, calls)
  BY DEF BindingInv
<1>3. /\ calls \in Nat /\ DOMAIN live = Candidates
      /\ FileBinds(file[m]) /\ TaskBinds(rows, live, m, file[m], t)
      /\ IdInv(Rowset(store), calls, m, t) /\ DOMAIN task = Machines
  BY <1>2, BoundParts
<1>4. task'[m] = Idle /\ \A k \in Machines \ {m} : task'[k] = task[k]
  BY <1>1, DoneIs
<1>5. \A any : TaskBinds(any, live', m, file[m], Idle) /\ Idle.op \notin Binders
  BY DEF TaskBinds, Idle, Binders
<1>6. Pending(t) = {t.ref} /\ t.ref \in Candidates /\ t.id[3] = "import" /\ t.id[1] = m
  <2>1. Pending(t) = {t.ref}
    BY <1>1 DEF Pending
  <2> HIDE DEF t
  <2> QED
    BY <1>1, <1>3, <2>1 DEF TaskBinds, Binders, IdInv, Numbered
<1>7. CASE found = <<>>
  <2>1. UNCHANGED <<case, store, live>>
    BY <1>1, <1>7
  <2>2. Cleared(rows, live, m, file[m]) /\ TaskBinds(rows, live, m, file[m], Idle)
    BY <1>1, <1>2, <1>5, BoundParts
  <2> QED
    BY <1>1, <1>2, <1>3, <1>4, <1>5, <2>1, <2>2, QuietStep
<1>8. CASE found # <<>>
  <2>1. found[1] \in ToSet(found)
    BY <1>3, <1>6, <1>8, FoundIs
  <2>2. /\ Spares(rows, new, live, live', m, t) /\ RowsBound(new)
        /\ Cleared(new, live', m, file[m])
        /\ \A x \in Candidates : LastInv(live'[x], BoundTo(new, x), calls)
    BY <1>1, <1>2, <1>6, <1>8, <2>1, ImportBinds
  <2> HIDE DEF t, found, rows, new
  <2>3. OneStep(m)
    BY <1>1, <1>3, <1>4, <1>5, <2>2 DEF OneStep, new
  <2>4. Binds(Bindings(store'), live', file', task', calls')
    BY <1>1, <1>2, <1>4, <1>5, <2>2, <2>3, OneStepIs DEF t, rows, new
  <2> QED
    BY <2>4 DEF BindingInv, Bindings, Rowset
<1> QED
  BY <1>7, <1>8

LEMMA ScanFileBinds ==
    ASSUME EvidenceInv, BindingInv, case.slow = {}, NEW m \in Machines, NEW ref \in Candidates,
           ScanFile(m, ref)
    PROVE  BindingInv'
<1> DEFINE t == task[m]
           u == task'[m]
           f == file[m]
           rows == Bindings(store)
           new == Bindings(store')
           id == <<m, t.id[2], ref>>
           w == [t EXCEPT !.left = @ \ {ref}]
           setups == ToSet(f.own[ref] \o Slot(m, ref))
           Imports == \E setup \in setups :
                        store' = import_evidence(store, environment_record(setup, id, t.at)).db
<1>1. /\ t.op = "scan" /\ ref \in t.left /\ UNCHANGED <<case, file, live, calls>>
      /\ store' = store \/ Imports
      /\ Done(m) \/ task' = [task EXCEPT ![m] = w]
  BY DEF ScanFile, Proceed
<1>2. Binds(rows, live, file, task, calls)
  BY DEF BindingInv
<1>3. /\ calls \in Nat /\ DOMAIN live = Candidates /\ FileBinds(f)
      /\ TaskBinds(rows, live, m, f, t) /\ Cleared(rows, live, m, f)
      /\ IdInv(Rowset(store), calls, m, t) /\ TaskInv(Rowset(store), t) /\ DOMAIN task = Machines
  BY <1>2, BoundParts
<1>4. /\ \A k \in Machines \ {m} : task'[k] = task[k]
      /\ u = Idle \/ u = w
  <2>1. CASE Done(m)
    BY <2>1, DoneIs
  <2>2. CASE task' = [task EXCEPT ![m] = w]
    <3> HIDE DEF w
    <3> QED
      BY <1>3, <2>2
  <2> QED
    BY <1>1, <2>1, <2>2
<1>5. id[1] = m /\ id[2] = t.id[2] /\ id[3] # "provision"
  BY DEF Candidates
<1>6. ref \in Pending(t) /\ Pending(t) = t.left /\ t.op \in Binders
  BY <1>1 DEF Pending, Binders
<1> HIDE DEF t, u, f, rows, new, id, setups
<1>7. {"op", "step", "id", "at", "left"} \subseteq DOMAIN t
  BY <1>1, <1>3 DEF IdInv, TaskInv, TaskBinds, Numbered
<1>8. /\ DOMAIN w = DOMAIN t /\ w.op = t.op /\ w.id = t.id /\ w.at = t.at
      /\ w.left = t.left \ {ref}
  BY <1>7
<1> HIDE DEF w
<1>9. ASSUME NEW any, \A e \in any : e \in rows \/ e.subject = ref
      PROVE  /\ TaskBinds(any, live, m, f, u)
             /\ u.op \notin Binders \/ (t.op \in Binders /\ u.id[2] = t.id[2])
  <2>1. CASE u = Idle
    BY <2>1 DEF TaskBinds, Idle, Binders
  <2>2. CASE u = w
    <3>1. Pending(u) = t.left \ {ref}
      BY <1>1, <1>8, <2>2 DEF Pending
    <3>2. /\ Pending(u) \subseteq Candidates /\ t.at.nano = t.id[2] + 2
          /\ \A x \in Pending(u) : m \in live[x].by => Clear(f, x)
          /\ \A e \in any : e.id[2] = t.id[2] => e.subject \notin Pending(u)
      BY <1>1, <1>3, <1>6, <1>9, <3>1 DEF TaskBinds
    <3> QED
      BY <1>1, <1>6, <1>7, <1>8, <2>2, <3>2 DEF TaskBinds
  <2> QED
    BY <1>4, <2>1, <2>2
<1>10. CASE store' = store
  <2>1. TaskBinds(rows, live, m, f, u) /\ (u.op \notin Binders \/ (t.op \in Binders /\ u.id[2] = t.id[2]))
    BY <1>9
  <2>2. UNCHANGED <<case, store, live, file>> /\ calls' \in {calls, calls + 1}
    BY <1>1, <1>10
  <2> QED
    BY <1>2, <1>3, <1>4, <2>1, <2>2, QuietStep DEF t, u, f, rows
<1>11. CASE Imports
  <2>1. PICK setup \in setups :
          store' = import_evidence(store, environment_record(setup, id, t.at)).db
    BY <1>11
  <2>2. /\ Spares(rows, new, live, live', m, t) /\ RowsBound(new) /\ Cleared(new, live', m, f)
        /\ \A x \in Candidates : LastInv(live'[x], BoundTo(new, x), calls)
        /\ \A e \in new : e \in rows \/ e.subject = ref
    BY <1>1, <1>2, <1>5, <1>6, <2>1, ImportBinds DEF t, f, rows, new, setups
  <2>3. /\ TaskBinds(new, live', m, f, u)
        /\ u.op \notin Binders \/ (t.op \in Binders /\ u.id[2] = t.id[2])
    BY <1>1, <1>9, <2>2
  <2>4. file' = file /\ file'[m] = f /\ calls' = calls /\ live' = live
    BY <1>1 DEF f
  <2>5. OneStep(m)
    BY <1>3, <2>2, <2>3, <2>4 DEF OneStep, u, new
  <2>6. Binds(Bindings(store'), live', file', task', calls')
    BY <1>2, <1>4, <2>2, <2>3, <2>4, <2>5, OneStepIs DEF t, u, rows, new
  <2> QED
    BY <1>1, <2>6 DEF BindingInv, Bindings, Rowset
<1> QED
  BY <1>1, <1>10, <1>11

-----------------------------------------------------------------------------
LEMMA BindingInit == Init => BindingInv
<1> SUFFICES ASSUME Init PROVE Binds(Bindings(store), live, file, task, calls)
  BY DEF BindingInv
<1>1. Bindings(store) = {}
  <2>1. store.evidence = <<>>
    BY DEF Init
  <2> QED
    BY <2>1, EmptyIs DEF Bindings, Rowset, ToSet
<1>2. /\ DOMAIN live = Candidates /\ calls = 1
      /\ \A ref \in Candidates :
            live[ref].setups = {<<>>} /\ live[ref].by = {} /\ live[ref].since = 0
  BY DEF Init
<1>3. \A ref : BoundTo({}, ref) = {}
  BY DEF BoundTo
<1>4. \A ref \in Candidates : LastInv(live[ref], BoundTo({}, ref), calls)
  BY <1>2, <1>3 DEF LastInv
<1>5. ASSUME NEW m \in Machines
      PROVE  /\ task[m] = Idle /\ FileBinds(file[m])
  <2>1. file[m] = [diff |-> <<>>, lineage |-> <<>>, slot |-> <<>>,
                   own |-> [ref \in Candidates |-> <<>>]]
    BY DEF Init
  <2>2. file[m].slot = <<>> /\ file[m].own = [ref \in Candidates |-> <<>>]
    BY <2>1
  <2> QED
    BY <2>2 DEF Init, FileBinds, IsOption
<1>6. Idle.op = "idle"
  BY DEF Idle
<1>7. \A m \in Machines : /\ TaskBinds({}, live, m, file[m], task[m])
                          /\ Cleared({}, live, m, file[m])
  BY <1>2, <1>5, <1>6 DEF TaskBinds, Cleared, Binders
<1>8. \A m \in Machines : task[m].op \notin Binders
  BY <1>5, <1>6 DEF Binders
<1>9. RowsBound({})
  BY DEF RowsBound
<1> QED
  BY <1>1, <1>2, <1>4, <1>5, <1>7, <1>8, <1>9 DEF Binds

LEMMA BindingStep == EvidenceInv /\ BindingInv /\ [Next]_vars => BindingInv'
<1> SUFFICES ASSUME EvidenceInv, BindingInv, [Next]_vars, case.slow = {} PROVE BindingInv'
  <2>1. ASSUME [Next]_vars PROVE case' = case
    <3>1. UNCHANGED <<case, head>> \/ \E ref \in {"dev", "main"} : Move(ref)
      BY <2>1, OnlyMoves
    <3> QED
      BY <3>1 DEF Move
  <2> QED
    BY <2>1 DEF BindingInv
<1>1. CASE UNCHANGED vars
  BY <1>1, NoneBind DEF vars
<1>2. CASE \E ref \in {"dev", "main"} : Move(ref)
  BY <1>2, NoneBind DEF Move
<1>3. ASSUME NEW m \in Machines, Stop(m) \/ Edit(m) PROVE BindingInv'
  BY <1>3, OthersGoOn
<1>4. ASSUME NEW m \in Machines, NEW pair \in case.pairs,
             \/ \E bound, deep \in BOOLEAN, lost \in Reads : Diff(m, pair, bound, deep, lost)
             \/ \E kind \in {"merge-base", "ref"}, named \in BOOLEAN : LineageDiff(m, kind, pair, named)
             \/ Audit(m, pair) \/ AuditLineage(m, pair)
      PROVE  BindingInv'
  BY <1>4, ReportsBegin
<1>5. ASSUME NEW m \in Machines, \/ DiffFile(m) \/ DiffRecord(m) \/ AuditJudge(m)
                                 \/ LineageBind(m) \/ LineageRecord(m) \/ LineageJudge(m)
      PROVE  BindingInv'
  BY <1>5, FilesAreWritten, ReportsEnd
<1>6. ASSUME NEW m \in Machines, NEW ref \in Candidates,
             \/ \E base \in {"main", "release"} : Provision(m, ref, base)
             \/ ReadBinding(m, ref) \/ ScanFile(m, ref) \/ Delete(m, ref)
      PROVE  BindingInv'
  BY <1>6, ProvisionBinds, ReadBindingBinds, ScanFileBinds, DeleteBinds
<1>7. ASSUME NEW m \in Machines, \/ ProvisionCheck(m) \/ ProvisionRecord(m) \/ ProvisionSlot(m)
                                 \/ ProvisionFile(m) \/ ReadFiles(m) \/ ScanBindings(m)
                                 \/ RemoveSlot(m) \/ RemoveRecord(m)
      PROVE  BindingInv'
  BY <1>7, ProvisionCheckBinds, ProvisionRecordBinds, ProvisionSlotBinds, ProvisionFileBinds,
     ReadFilesBinds, ScanBindingsBinds, RemoveSlotBinds, RemoveRecordBinds
<1> QED
  BY <1>1, <1>2, <1>3, <1>4, <1>5, <1>6, <1>7 DEF Next

LEMMA BindingFound == EvidenceInv /\ BindingInv => BindingStands
<1> SUFFICES ASSUME EvidenceInv, BindingInv, case.slow = {}, NEW ref \in Candidates
             PROVE  LET standing == Binding(ref)
                    IN  \/ standing = <<>> /\ <<>> \in live[ref].setups
                        \/ /\ standing # <<>>
                           /\ \/ <<standing[1].payload>> \in live[ref].setups
                              \/ standing[1].id[3] # "provision" /\ standing[1].id[1] \notin live[ref].by
  BY DEF BindingStands
<1> DEFINE standing == Binding(ref)
           rows == BoundTo(Bindings(store), ref)
<1>1. RowsBound(Bindings(store)) /\ LastInv(live[ref], rows, calls)
  BY DEF BindingInv, Binds
<1>2. /\ standing = <<>> => rows = {}
      /\ standing # <<>> => standing[1] \in rows /\ Newest(standing[1], rows)
  BY <1>1, BindingIs
<1> HIDE DEF standing, rows
<1> QED
  BY <1>1, <1>2 DEF LastInv, standing

\* Where no clock is behind, the newest row of a candidate, which is what the
\* store says of its binding, is what was provisioned last, or came from the
\* files of a machine that was not the last; and if there is none, it may have
\* been removed last.  For any machines, and however often they are called.
THEOREM BindingStandsHolds == Spec => []BindingStands
<1>1. HeadsInv /\ EvidenceInv /\ BindingInv /\ [Next]_vars => BindingInv'
  BY BindingStep
<1> QED
  BY <1>1, BindingInit, HeadsHold, EvidenceHolds, BindingFound, PTL DEF Spec
=============================================================================
