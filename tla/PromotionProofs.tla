--------------------------- MODULE PromotionProofs ---------------------------
(***************************************************************************)
(* Theorems about Promotion, for any candidates, processes and bounds.     *)
(***************************************************************************)
EXTENDS Promotion, SequenceTheorems, TLAPS

-----------------------------------------------------------------------------
(***************************************************************************)
(* The inductive invariant.                                                *)
(***************************************************************************)
Isolated == {"base", "branch", "catalog", "undo", "record", "target",
             "versions", "compare", "run", "evidence", "gates", "again",
             "merge", "drop", "find", "forget"}

\* Only runs that write may be on Main.
PlaceInv == \A x \in Processes : at[x] \in Isolated => of[x] \in Candidates

\* The newest report or setup of a candidate is the only one.
OneInv ==
    /\ \A c \in Candidates : \A d, f \in report[c] : d = f
    /\ \A p \in Promoters : \A d, f \in eval[p].report : d = f

\* A run that is bound is over: its row does not change any more.
BoundInv == \A r \in Runs : row[r].bound # None => at[r] = "done"

\* The run a promotion goes by.
Vets(n, r) ==
    /\ r \in Runs /\ n # None
    /\ row[r].status = "passed" /\ row[r].bound = n /\ row[r].tests = "passed"

\* What a promotion knows in each place.
Knows(place, e) ==
    /\ place \in {"target", "run"} => e.cand # None
    /\ place \in {"evidence", "gates", "again", "merge"} => Vets(e.cand, e.run)
    /\ place \in {"gates", "again", "merge"} /\ e.fresh =>
         \E d \in e.report : d.cand = e.cand /\ d.base = e.target
    /\ place \in {"again", "merge"} => DataGate(e) /\ BaseGate(e)
VetInv == \A p \in Promoters : Knows(at[p], eval[p])

MergeInv == \A e \in merges : Vets(e.from, e.run) /\ MergeIsVetted(e)

\* Where phlo has no catalog and none was dropped, nothing vouches for one.
CatalogInv == \A c \in Candidates : catalog[c] # "phlo" /\ c \notin dropped =>
    /\ \A s \in setup[c] : ~s.owned /\ ~s.binding
    /\ \A r \in Runs : of[r] = c =>
        /\ \A s \in prov[r].prior : ~s.owned /\ ~s.binding
        /\ ~prov[r].created
        /\ at[r] \notin {"record", "ready", "running", "bind", "binding"}
NewInv == \A r \in Runs : at[r] = "idle" => ~prov[r].created

IInv == /\ TypeOK /\ PlaceInv /\ OneInv /\ BoundInv
        /\ VetInv /\ MergeInv /\ CatalogInv /\ NewInv

LEMMA Start_ == Init => IInv
<1> SUFFICES ASSUME Init PROVE IInv
  OBVIOUS
<1>1. TypeOK
  <2>1. commits \in Seq(Commit) /\ Len(commits) = 1 /\ commits[1].contains = {1}
    <3>1. [tables |-> NoTables, contains |-> {1}] \in Commit
      BY DEF Commit, Tables, NoTables, Builds
    <3> QED
      BY <3>1 DEF Init
  <2>2. order \in Seq(Runs)
    BY EmptySeq DEF Init
  <2>3. /\ NoRow \in Row /\ NoTables \in Tables /\ NoProv \in Prov /\ NoLook \in Look
        /\ NoEval \in Eval
    BY DEF NoRow, NoTables, NoProv, NoLook, NoEval, NoOption, Row, Tables, Prov, Look,
           Eval, Option, Builds, None
  <2>4. \A n \in 1..Len(commits) : commits[n].contains \subseteq 1..n
    BY <2>1
  <2>5. head \in [Refs -> 0..Len(commits)]
    BY <2>1 DEF Init, None
  <2>6. \A x \in Provisioners : prov[x] \in Prov /\ prov[x].base \in 0..Len(commits)
    BY <2>1, <2>3 DEF Init, NoProv, None
  <2> QED
    BY <2>1, <2>2, <2>3, <2>4, <2>5, <2>6 DEF Init, TypeOK, Place, Refs, None
<1>2. PlaceInv /\ OneInv /\ VetInv /\ MergeInv
  <2>1. /\ \A x \in Processes : at[x] = "idle"
        /\ \A p \in Promoters : p \in Processes /\ eval[p].report = {}
    BY DEF Init, NoEval, Processes, Cleaners
  <2> QED
    BY <2>1 DEF Init, PlaceInv, Isolated, OneInv, VetInv, Knows, MergeInv
<1>3. BoundInv
  BY DEF Init, BoundInv, NoRow, None
<1>4. CatalogInv /\ NewInv
  <2>1. \A r \in Runs : prov[r].prior = {} /\ ~prov[r].created /\ at[r] = "idle"
    BY DEF Init, Provisioners, Processes, NoProv
  <2> QED
    BY <2>1 DEF Init, CatalogInv, NewInv
<1> QED
  BY <1>1, <1>2, <1>3, <1>4 DEF IInv

-----------------------------------------------------------------------------
(***************************************************************************)
(* Types.                                                                  *)
(***************************************************************************)
LEMMA CommitTypes ==
    ASSUME TypeOK, NEW n \in 0..Len(commits)
    PROVE  Contains(n) \in SUBSET (1..Len(commits)) /\ TablesAt(n) \in Tables
<1>1. Len(commits) \in Nat
  BY LenProperties DEF TypeOK
<1>2. CASE n = None
  BY <1>2 DEF Contains, TablesAt, NoTables, Tables, Builds
<1>3. CASE n # None
  <2>1. n \in 1..Len(commits)
    BY <1>1, <1>3 DEF None
  <2>2. commits[n] \in Commit /\ commits[n].contains \subseteq 1..n
    BY <2>1, ElementOfSeq DEF TypeOK
  <2>3. 1..n \subseteq 1..Len(commits)
    BY <1>1, <2>1
  <2> QED
    BY <1>3, <2>2, <2>3 DEF Contains, TablesAt, Commit
<1> QED
  BY <1>2, <1>3

LEMMA PutTypes ==
    ASSUME TypeOK, NEW ref \in Refs, NEW tables \in Tables,
           NEW contained \in SUBSET (1..Len(commits)), Put(ref, tables, contained)
    PROVE  /\ commits' \in Seq(Commit) /\ Len(commits') = Len(commits) + 1
           /\ \A n \in 1..Len(commits') : commits'[n].contains \subseteq 1..n
           /\ head' \in [Refs -> 0..Len(commits')]
<1> DEFINE n == Len(commits)
           c == [tables |-> tables, contains |-> contained \cup {n + 1}]
<1>1. n \in Nat /\ commits \in Seq(Commit)
  BY LenProperties DEF TypeOK
<1>2. c \in Commit
  <2>1. \A k \in contained \cup {n + 1} : k \in Nat
    BY <1>1
  <2>2. contained \cup {n + 1} \in SUBSET Nat
    BY <2>1
  <2> QED
    BY <2>2 DEF Commit
<1>3. commits' = Append(commits, c) /\ head' = [head EXCEPT ![ref] = n + 1]
  BY DEF Put
<1>4. c.contains \subseteq 1..n + 1
  <2>1. \A k \in contained \cup {n + 1} : k \in 1..n + 1
    BY <1>1
  <2> QED
    BY <2>1
<1> HIDE DEF c
<1>5. /\ commits' \in Seq(Commit) /\ Len(commits') = n + 1
      /\ \A k \in 1..n : commits'[k] = commits[k]
      /\ commits'[n + 1] = c
  BY <1>1, <1>2, <1>3, AppendProperties
<1>6. ASSUME NEW k \in 1..n + 1 PROVE commits'[k].contains \subseteq 1..k
  <2>1. CASE k = n + 1
    BY <1>4, <1>5, <2>1
  <2>2. CASE k # n + 1
    <3>1. k \in 1..n
      BY <1>1, <2>2
    <3> QED
      BY <1>5, <3>1 DEF TypeOK
  <2> QED
    BY <2>1, <2>2
<1>7. head' \in [Refs -> 0..n + 1]
  <2>1. \A f \in Refs : head[f] \in 0..n + 1
    BY <1>1 DEF TypeOK
  <2> QED
    BY <1>1, <1>3, <2>1 DEF TypeOK
<1> QED
  BY <1>5, <1>6, <1>7

LEMMA Ranges ==
    ASSUME TypeOK
    PROVE  /\ Len(commits) \in Nat
           /\ \A f \in Refs : head[f] \in Nat /\ head[f] \in 0..Len(commits)
           /\ Main \in Refs /\ Candidates \subseteq Refs
           /\ Runs \subseteq Processes /\ Provisioners \subseteq Processes
           /\ Runs \subseteq Provisioners
           /\ Auditors \subseteq Processes /\ Promoters \subseteq Processes
           /\ Cleaners \subseteq Processes /\ Promoters \subseteq Cleaners
           /\ Deleters \subseteq Processes
           /\ NoRow \in Row /\ NoProv \in Prov /\ NoLook \in Look /\ NoEval \in Eval
           /\ NoProv.base = 0 /\ NoRow.stands \in Tables
<1>1. Len(commits) \in Nat
  BY LenProperties DEF TypeOK
<1>2. /\ NoRow \in Row /\ NoProv \in Prov /\ NoLook \in Look /\ NoEval \in Eval
      /\ NoProv.base = 0 /\ NoRow.stands \in Tables
  BY DEF NoRow, NoTables, NoProv, NoLook, NoEval, NoOption, Row, Tables, Prov, Look,
         Eval, Option, Builds, None
<1> QED
  BY <1>1, <1>2
     DEF TypeOK, Refs, Processes, Provisioners, Cleaners

\* The steps of a process that stands still otherwise.
LEMMA AtTypes ==
    ASSUME TypeOK, NEW x \in Processes, NEW from, NEW to \in Place, At(x, from, to)
    PROVE  at' \in [Processes -> Place] /\ at' = [at EXCEPT ![x] = to] /\ at[x] = from
  BY DEF At, TypeOK

LEMMA ProvisionTypes ==
    ASSUME TypeOK, PlaceInv, ProvisionStep
    PROVE  TypeOK'
<1> USE Ranges DEF Place
<1> DEFINE rest == <<look, eval, held, failed>>
<1>1. ASSUME NEW x \in Provisioners, NEW c \in Candidates, StartOn(x, c)
      PROVE  TypeOK'
  <2>1. at' \in [Processes -> Place] /\ of' \in [Processes -> Refs] /\ moves' \in Nat
    BY <1>1 DEF StartOn, Starts, At, TypeOK, Move
  <2>2. prov' \in [Provisioners -> Prov] /\ \A y \in Provisioners : prov'[y].base = prov[y].base
    <3>1. [prov[x] EXCEPT !.prior = setup[c]] \in Prov
      BY DEF TypeOK, Prov
    <3>2. [prov[x] EXCEPT !.prior = setup[c]].base = prov[x].base
      BY DEF TypeOK, Prov
    <3>3. prov' = prov \/ prov' = [prov EXCEPT ![x] = [prov[x] EXCEPT !.prior = setup[c]]]
      BY <1>1 DEF StartOn
    <3> DEFINE q == [prov[x] EXCEPT !.prior = setup[c]]
    <3> HIDE DEF q
    <3>4. prov' = prov \/ prov' = [prov EXCEPT ![x] = q]
      BY <3>3 DEF q
    <3>5. q \in Prov /\ q.base = prov[x].base
      BY <3>1, <3>2 DEF q
    <3>6. prov \in [Provisioners -> Prov]
      BY DEF TypeOK
    <3> QED
      BY <3>4, <3>5, <3>6
  <2> QED
    BY <1>1, <2>1, <2>2 DEF StartOn, TypeOK, world, store, history
<1>2. ASSUME NEW x \in Provisioners, ReadBase(x) PROVE TypeOK'
  <2>1. at' \in [Processes -> Place]
    BY <1>2 DEF ReadBase, At, TypeOK
  <2>2. prov' \in [Provisioners -> Prov]
        /\ \A y \in Provisioners : prov'[y].base \in 0..Len(commits)
    BY <1>2 DEF ReadBase, TypeOK, Prov
  <2> QED
    BY <1>2, <2>1, <2>2 DEF ReadBase, TypeOK, world, store, history
<1>3. ASSUME NEW x \in Provisioners, CutBranch(x) PROVE TypeOK'
  <2>1. at' \in [Processes -> Place]
    BY <1>3 DEF CutBranch, At, TypeOK
  <2>2. prov' \in [Provisioners -> Prov]
        /\ \A y \in Provisioners : prov'[y].base \in 0..Len(commits)
    BY <1>3 DEF CutBranch, TypeOK, Prov
  <2>3. /\ head' \in [Refs -> 0..Len(commits)] /\ alone' \subseteq Runs
        /\ made' \in [Candidates -> {"never", "afresh", "behind"}]
    BY <1>3 DEF CutBranch, TypeOK, Moved, Made
  <2> QED
    BY <1>3, <2>1, <2>2, <2>3 DEF CutBranch, TypeOK, store
<1>4. ASSUME NEW x \in Provisioners, TakeBranch(x) PROVE TypeOK'
  <2>1. at' \in [Processes -> Place]
    BY <1>4 DEF TakeBranch, At, TypeOK
  <2>2. prov' \in [Provisioners -> Prov]
        /\ \A y \in Provisioners : prov'[y].base \in 0..Len(commits)
    BY <1>4 DEF TakeBranch, TypeOK
  <2> QED
    BY <1>4, <2>1, <2>2 DEF TakeBranch, TypeOK, world, store, history
<1>5. ASSUME NEW x \in Provisioners, RecordSetup(x) PROVE TypeOK'
  <2>1. at' \in [Processes -> Place] /\ of[x] \in Candidates
    BY <1>5 DEF RecordSetup, At, TypeOK, PlaceInv, Isolated
  <2>2. prov' \in [Provisioners -> Prov]
        /\ \A y \in Provisioners : prov'[y].base \in 0..Len(commits)
    BY <1>5 DEF RecordSetup, TypeOK
  <2>3. Provisioned(x) \in Setup
    <3> DEFINE p == prov[x]
               from == IF p.cut # None THEN p.base
                       ELSE IF p.prior = {} THEN None
                       ELSE (CHOOSE s \in p.prior : TRUE).from
    <3>1. p.base \in Nat /\ p.prior \in SUBSET Setup
      BY DEF TypeOK, Prov
    <3>2. from \in Nat
      BY <3>1 DEF Setup, None
    <3>3. Provisioned(x) = [from |-> from, binding |-> x \in Runs,
              owned |-> x \in Runs /\ (p.created \/ \E s \in p.prior : s.owned)]
      BY DEF Provisioned
    <3> HIDE DEF from
    <3> QED
      BY <3>2, <3>3 DEF Setup
  <2>4. setup' \in [Candidates -> SUBSET Setup]
    BY <1>5, <2>1, <2>3 DEF RecordSetup, TypeOK
  <2> QED
    BY <1>5, <2>1, <2>2, <2>4 DEF RecordSetup, TypeOK, world, history
<1>6. ASSUME NEW r \in Runs, StartOnMain(r) PROVE TypeOK'
  <2>1. at' \in [Processes -> Place] /\ of' \in [Processes -> Refs]
    BY <1>6 DEF StartOnMain, Starts, At, TypeOK
  <2> QED
    BY <1>6, <2>1 DEF StartOnMain, TypeOK, world, store, mine, history
<1>7. ASSUME NEW r \in Runs, CreateCatalog(r) PROVE TypeOK'
  <2>1. at' \in [Processes -> Place]
    BY <1>7 DEF CreateCatalog, At, TypeOK
  <2>2. prov' \in [Provisioners -> Prov]
        /\ \A y \in Provisioners : prov'[y].base \in 0..Len(commits)
    BY ZenonT(30), <1>7 DEF CreateCatalog, TypeOK, Prov
  <2>3. catalog' \in [Candidates -> {"absent", "phlo", "foreign"}]
    BY <1>7 DEF CreateCatalog, TypeOK
  <2> QED
    BY <1>7, <2>1, <2>2, <2>3 DEF CreateCatalog, TypeOK, store, history
<1>8. ASSUME NEW r \in Runs, TakeCatalog(r) PROVE TypeOK'
  <2>1. at' \in [Processes -> Place]
    BY <1>8 DEF TakeCatalog, At, TypeOK
  <2> QED
    BY <1>8, <2>1 DEF TakeCatalog, TypeOK, world, store, mine, history
<1>9. ASSUME NEW r \in Runs, RefuseCatalog(r) PROVE TypeOK'
  <2>1. at' \in [Processes -> Place] /\ moves' \in Nat
    BY <1>9 DEF RefuseCatalog, At, TypeOK, Move
  <2>2. prov' \in [Provisioners -> Prov]
        /\ \A y \in Provisioners : prov'[y].base \in 0..Len(commits)
    BY <1>9 DEF RefuseCatalog, TypeOK
  <2> QED
    BY <1>9, <2>1, <2>2 DEF RefuseCatalog, TypeOK, world, store, history
<1>10. ASSUME NEW r \in Runs, UndoBranch(r) PROVE TypeOK'
  <2>1. at' \in [Processes -> Place]
    BY <1>10 DEF UndoBranch, At, TypeOK
  <2>2. prov' \in [Provisioners -> Prov]
        /\ \A y \in Provisioners : prov'[y].base \in 0..Len(commits)
    BY <1>10 DEF UndoBranch, TypeOK
  <2>3. head' \in [Refs -> 0..Len(commits)] /\ alone' \subseteq Runs
    BY <1>10 DEF UndoBranch, TypeOK, Moved, None
  <2> QED
    BY <1>10, <2>1, <2>2, <2>3 DEF UndoBranch, TypeOK, store
<1> QED
  BY <1>1, <1>2, <1>3, <1>4, <1>5, <1>6, <1>7, <1>8, <1>9, <1>10 DEF ProvisionStep

LEMMA RunTypes ==
    ASSUME TypeOK, RunStep
    PROVE  TypeOK'
<1> USE Ranges DEF Place
<1>1. ASSUME NEW r \in Runs, NEW selected \in Selects[r], NEW reused \in SUBSET selected,
             Begin(r, selected, reused)
      PROVE  TypeOK'
  <2>1. at' \in [Processes -> Place]
    BY <1>1 DEF Begin, At, TypeOK
  <2>2. selected \in SUBSET Models
    BY NameAssumption
  <2>3. row' \in [Runs -> Row]
    <3> DEFINE stands == [m \in Models |-> IF m \in reused THEN recorded[of[r]][m] ELSE r]
               q == [NoRow EXCEPT !.status = "running", !.selected = selected,
                                  !.todo = selected \ reused, !.stands = stands]
    <3>1. stands \in Tables
      BY DEF TypeOK, Tables, Builds
    <3> HIDE DEF stands
    <3>2. q \in Row
      BY <2>2, <3>1 DEF Row, NoRow, None
    <3>3. row' = [row EXCEPT ![r] = q]
      BY <1>1 DEF Begin, stands
    <3> HIDE DEF q
    <3> QED
      BY <3>2, <3>3 DEF TypeOK
  <2>4. order' \in Seq(Runs) /\ alone' \subseteq Runs
    BY <1>1, AppendProperties DEF Begin, TypeOK
  <2> QED
    BY <1>1, <2>1, <2>3, <2>4 DEF Begin, TypeOK, world, mine
<1>2. ASSUME NEW r \in Runs, NEW m \in Models, Write(r, m) PROVE TypeOK'
  <2> DEFINE tables == [TablesAt(head[of[r]]) EXCEPT ![m] = r]
  <2>1. of[r] \in Refs /\ head[of[r]] \in 0..Len(commits)
    BY DEF TypeOK
  <2>2. tables \in Tables /\ Contains(head[of[r]]) \in SUBSET (1..Len(commits))
    BY <2>1, CommitTypes DEF Tables, Builds
  <2>3. Put(of[r], tables, Contains(head[of[r]]))
    BY <1>2 DEF Write
  <2> HIDE DEF tables
  <2>4. /\ commits' \in Seq(Commit) /\ Len(commits') = Len(commits) + 1
        /\ \A n \in 1..Len(commits') : commits'[n].contains \subseteq 1..n
        /\ head' \in [Refs -> 0..Len(commits')]
    BY <2>1, <2>2, <2>3, PutTypes
  <2>5. row' \in [Runs -> Row]
    <3>1. [row[r] EXCEPT !.wrote = @ \cup {m}] \in Row
      BY ZenonT(40) DEF TypeOK, Row
    <3>2. row' = [row EXCEPT ![r] = [row[r] EXCEPT !.wrote = @ \cup {m}]]
      BY <1>2 DEF Write, TypeOK
    <3> QED
      BY <3>1, <3>2 DEF TypeOK
  <2>6. alone' \subseteq Runs
    BY <1>2 DEF Write, Moved, TypeOK
  <2>7. \A x \in Provisioners : prov[x].base \in 0..Len(commits')
    BY <2>4 DEF TypeOK
  <2> QED
    BY <1>2, <2>4, <2>5, <2>6, <2>7 DEF Write, TypeOK, process, mine
<1>3. ASSUME NEW r \in Runs, NEW m \in Models, Note(r, m) PROVE TypeOK'
  <2>1. row' \in [Runs -> Row]
    <3>1. [row[r] EXCEPT !.todo = @ \ {m}, !.wrote = @ \ {m}] \in Row
      BY ZenonT(40) DEF TypeOK, Row
    <3>2. row' = [row EXCEPT ![r] = [row[r] EXCEPT !.todo = @ \ {m}, !.wrote = @ \ {m}]]
      BY <1>3 DEF Note, TypeOK
    <3> QED
      BY <3>1, <3>2 DEF TypeOK
  <2>2. recorded' \in [Refs -> Tables]
    BY <1>3 DEF Note, TypeOK, Tables, Builds
  <2> QED
    BY <1>3, <2>1, <2>2 DEF Note, TypeOK, world, process, mine, history
<1>4. ASSUME NEW r \in Runs, NEW tests \in {"passed", "cancelled"}, Pass(r, tests)
      PROVE  TypeOK'
  <2>1. at' \in [Processes -> Place] /\ moves' \in Nat
    BY <1>4 DEF Pass, At, TypeOK, Move
  <2>2. row' \in [Runs -> Row]
    <3>1. [row[r] EXCEPT !.status = "passed", !.tests = tests] \in Row
      BY ZenonT(40) DEF TypeOK, Row
    <3>2. row' = [row EXCEPT ![r] = [row[r] EXCEPT !.status = "passed", !.tests = tests]]
      BY <1>4 DEF Pass, TypeOK
    <3> QED
      BY <3>1, <3>2 DEF TypeOK
  <2> QED
    BY <1>4, <2>1, <2>2 DEF Pass, TypeOK, world, mine, history
<1>5. ASSUME NEW r \in Runs, Fail(r) PROVE TypeOK'
  <2>1. at' \in [Processes -> Place] /\ moves' \in Nat
    BY <1>5 DEF Fail, At, TypeOK, Move
  <2>2. row' \in [Runs -> Row]
    <3> DEFINE tests == IF row[r].todo = {} THEN "failed" ELSE row[r].tests
    <3>1. tests \in {"passed", "failed", "cancelled"}
      BY DEF TypeOK, Row
    <3> HIDE DEF tests
    <3>2. [row[r] EXCEPT !.status = "failed", !.wrote = {}, !.tests = tests] \in Row
      BY ZenonT(40), <3>1 DEF TypeOK, Row
    <3>3. row' = [row EXCEPT ![r] =
                    [row[r] EXCEPT !.status = "failed", !.wrote = {}, !.tests = tests]]
      BY <1>5 DEF Fail, TypeOK, tests
    <3> QED
      BY <3>2, <3>3 DEF TypeOK
  <2> QED
    BY <1>5, <2>1, <2>2 DEF Fail, TypeOK, world, mine, history
<1>6. ASSUME NEW r \in Runs, ResolveRun(r) PROVE TypeOK'
  <2>1. at' \in [Processes -> Place] /\ held' \in [Runs -> Nat]
    BY <1>6 DEF ResolveRun, At, TypeOK
  <2> QED
    BY <1>6, <2>1 DEF ResolveRun, TypeOK, world, store, history
<1>7. ASSUME NEW r \in Runs, BindRun(r) PROVE TypeOK'
  <2>1. at' \in [Processes -> Place] /\ held' \in [Runs -> Nat]
    BY <1>7 DEF BindRun, At, TypeOK, None
  <2>2. row' \in [Runs -> Row]
    <3>1. [row[r] EXCEPT !.bound = held[r]] \in Row
      BY ZenonT(40) DEF TypeOK, Row
    <3>2. row' = [row EXCEPT ![r] = [row[r] EXCEPT !.bound = held[r]]]
      BY <1>7 DEF BindRun, TypeOK
    <3> QED
      BY <3>1, <3>2 DEF TypeOK
  <2> QED
    BY <1>7, <2>1, <2>2 DEF BindRun, TypeOK, world, history
<1> QED
  BY <1>1, <1>2, <1>3, <1>4, <1>5, <1>6, <1>7 DEF RunStep

LEMMA AuditTypes ==
    ASSUME TypeOK, PlaceInv, AuditStep
    PROVE  TypeOK'
<1> USE Ranges DEF Place
<1>1. ASSUME NEW a \in Auditors, NEW c \in Candidates, StartAudit(a, c) PROVE TypeOK'
  <2>1. at' \in [Processes -> Place] /\ of' \in [Processes -> Refs]
    BY <1>1 DEF StartAudit, Starts, At, TypeOK
  <2>2. look' \in [Auditors -> Look]
    <3>1. [look[a] EXCEPT !.cand = head[c]] \in Look
      BY DEF TypeOK, Look
    <3>2. look' = [look EXCEPT ![a] = [look[a] EXCEPT !.cand = head[c]]]
      BY <1>1 DEF StartAudit, TypeOK
    <3> QED
      BY <3>1, <3>2 DEF TypeOK
  <2> QED
    BY <1>1, <2>1, <2>2 DEF StartAudit, TypeOK, world, store, history
<1>2. ASSUME NEW a \in Auditors, ReadTarget(a) PROVE TypeOK'
  <2>1. at' \in [Processes -> Place] /\ look' \in [Auditors -> Look]
    BY <1>2 DEF ReadTarget, At, TypeOK, Look
  <2> QED
    BY <1>2, <2>1 DEF ReadTarget, TypeOK, world, store, history
<1>3. ASSUME NEW a \in Auditors, ReadVersions(a) PROVE TypeOK'
  <2>1. at' \in [Processes -> Place]
    BY <1>3 DEF ReadVersions, At, TypeOK
  <2>2. look' \in [Auditors -> Look]
    <3>1. recorded[of[a]] \in Tables /\ recorded[Main] \in Tables
      BY DEF TypeOK
    <3>2. [look[a] EXCEPT !.candTables = recorded[of[a]],
                          !.baseTables = recorded[Main]] \in Look
      BY ZenonT(40), <3>1 DEF TypeOK, Look
    <3>3. look' = [look EXCEPT ![a] =
                [look[a] EXCEPT !.candTables = recorded[of[a]],
                                !.baseTables = recorded[Main]]]
      BY <1>3 DEF ReadVersions, TypeOK
    <3> QED
      BY <3>2, <3>3 DEF TypeOK
  <2> QED
    BY <1>3, <2>1, <2>2 DEF ReadVersions, TypeOK, world, store, history
<1>4. ASSUME NEW a \in Auditors, NEW verdict \in Verdicts, Compare(a, verdict)
      PROVE  TypeOK'
  <2>1. at' \in [Processes -> Place] /\ of[a] \in Candidates
    BY <1>4 DEF Compare, At, TypeOK, PlaceInv, Isolated
  <2>2. look' \in [Auditors -> Look]
    BY <1>4 DEF Compare, TypeOK
  <2>3. report' \in [Candidates -> SUBSET Report]
    <3> DEFINE breaks == \/ head[of[a]] = None
                         \/ Breaks(TablesAt(head[of[a]]), TablesAt(head[Main]))
               d == [cand |-> look[a].cand, base |-> look[a].base,
                     candTables |-> look[a].candTables,
                     baseTables |-> look[a].baseTables,
                     breaks |-> breaks, verdict |-> verdict]
    <3>1. breaks \in BOOLEAN /\ verdict \in {"shallow", "passed", "failed"}
      BY ChoiceAssumption DEF Breaks
    <3>2. report' = [report EXCEPT ![of[a]] = {d}]
      BY <1>4 DEF Compare
    <3> HIDE DEF breaks
    <3>3. d \in Report
      BY <3>1 DEF Report, TypeOK, Look
    <3> HIDE DEF d
    <3> QED
      BY <2>1, <3>2, <3>3 DEF TypeOK
  <2> QED
    BY <1>4, <2>1, <2>2, <2>3 DEF Compare, TypeOK, world, history
<1> QED
  BY <1>1, <1>2, <1>3, <1>4 DEF AuditStep

LEMMA EvaluateTypes ==
    ASSUME TypeOK, NEW p \in Promoters, NEW from, NEW ok \in BOOLEAN, NEW to \in Place,
           NEW e, ok => e \in Eval, Evaluate(p, from, ok, to, e)
    PROVE  TypeOK'
<1>1. at' \in [Processes -> Place]
  BY Ranges DEF Evaluate, At, TypeOK, Place
<1>2. eval' \in [Promoters -> Eval]
  BY Ranges DEF Evaluate, TypeOK
<1> QED
  BY <1>1, <1>2 DEF Evaluate, TypeOK, world, store, history

LEMMA ExpectedType ==
    ASSUME NEW e \in Eval
    PROVE  Expected(e) \in Nat
<1>1. e.report \in SUBSET Report /\ e.setup \in SUBSET Setup
  BY DEF Eval
<1>2. CASE e.report # {}
  BY <1>1, <1>2 DEF Expected, Report
<1>3. CASE e.report = {} /\ e.setup # {}
  BY <1>1, <1>3 DEF Expected, Setup
<1>4. CASE e.report = {} /\ e.setup = {}
  BY <1>4 DEF Expected, None
<1> QED
  BY <1>2, <1>3, <1>4

LEMMA PromoteTypes ==
    ASSUME TypeOK, PlaceInv, VetInv, PromoteStep
    PROVE  TypeOK'
<1> USE Ranges DEF Place
<1>1. ASSUME NEW p \in Promoters, NEW c \in Candidates, StartPromote(p, c)
      PROVE  TypeOK'
  <2>1. at' \in [Processes -> Place] /\ of' \in [Processes -> Refs]
    BY <1>1 DEF StartPromote, Starts, At, TypeOK
  <2>2. eval' \in [Promoters -> Eval]
    BY ZenonT(40), <1>1 DEF StartPromote, TypeOK, Eval
  <2> QED
    BY <1>1, <2>1, <2>2 DEF StartPromote, TypeOK, world, store, history
<1>2. ASSUME NEW p \in Promoters, EvalTarget(p) PROVE TypeOK'
  <2>1. [eval[p] EXCEPT !.target = head[Main]] \in Eval
    BY ZenonT(40) DEF TypeOK, Eval
  <2> QED
    BY <1>2, <2>1, EvaluateTypes DEF EvalTarget
<1>3. ASSUME NEW p \in Promoters, EvalRun(p) PROVE TypeOK'
  <2> DEFINE r == LatestRun(of[p])
  <2>1. r \in Builds
    BY DEF LatestRun, Builds
  <2>2. [eval[p] EXCEPT !.run = r] \in Eval
    BY ZenonT(40), <2>1 DEF TypeOK, Eval
  <2>3. (RunGate(r, eval[p].cand) /\ TestGates(r)) \in BOOLEAN
    BY DEF RunGate, TestGates
  <2> QED
    BY <1>3, <2>2, <2>3, EvaluateTypes DEF EvalRun
<1>4. ASSUME NEW p \in Promoters, EvalEvidence(p) PROVE TypeOK'
  <2> DEFINE c == of[p]
             fresh == \E d \in report[c] : Fresh(d, c, eval[p].cand, eval[p].target)
             strict == \E m \in Models : recorded[Main][m] \in Stricter
             q == [eval[p] EXCEPT !.setup = setup[c], !.report = report[c],
                                  !.fresh = fresh, !.strict = strict]
  <2>1. c \in Candidates
    BY <1>4 DEF EvalEvidence, Evaluate, At, PlaceInv, Isolated
  <2>2. fresh \in BOOLEAN /\ strict \in BOOLEAN
    OBVIOUS
  <2>3. Evaluate(p, "evidence", TRUE, "gates", q)
    BY <1>4 DEF EvalEvidence
  <2> HIDE DEF fresh, strict
  <2>4. q \in Eval
    BY ZenonT(40), <2>1, <2>2 DEF TypeOK, Eval
  <2> HIDE DEF q
  <2> QED
    BY <2>3, <2>4, EvaluateTypes
<1>5. ASSUME NEW p \in Promoters, NEW option \in Options, Gates(p, option)
      PROVE  TypeOK'
  <2> DEFINE e == [eval[p] EXCEPT !.option = option]
             ok == SchemaGate(e) /\ DataGate(e) /\ BaseGate(e) /\ MergeGate(of[p])
  <2>1. option \in Option
    BY ChoiceAssumption DEF Option
  <2>2. e \in Eval
    BY ZenonT(40), <2>1 DEF TypeOK, Eval
  <2>3. Evaluate(p, "gates", ok, "again", e)
    BY <1>5 DEF Gates
  <2> HIDE DEF e
  <2>4. ok \in BOOLEAN
    BY <2>2 DEF SchemaGate, DataGate, BaseGate, MergeGate, Eval, Option
  <2> HIDE DEF ok
  <2> QED
    BY <2>2, <2>3, <2>4, EvaluateTypes
<1>6. ASSUME NEW p \in Promoters, ReadAgain(p) PROVE TypeOK'
  <2>1. eval[p] \in Eval
    BY DEF TypeOK
  <2> QED
    BY <1>6, <2>1, EvaluateTypes DEF ReadAgain
<1>7. ASSUME NEW p \in Promoters, FailMerge(p) PROVE TypeOK'
  <2>1. Evaluate(p, "merge", FALSE, "done", NoEval)
    BY <1>7 DEF FailMerge
  <2> QED
    BY <2>1, EvaluateTypes
<1>8. ASSUME NEW p \in Promoters, DoMerge(p) PROVE TypeOK'
  <2> DEFINE e == eval[p]
             onto == Expected(e)
             new == [by |-> p, run |-> e.run, from |-> e.cand, onto |-> onto,
                     into |-> head'[Main], eval |-> e, resets |-> resets]
  <2>1. e \in Eval /\ onto \in Nat /\ e.run \in Runs
    BY <1>8, ExpectedType DEF TypeOK, DoMerge, At, VetInv, Knows, Vets
  <2>2. /\ head[Main] = onto /\ e.cand \in Contains(head[of[p]])
        /\ of[p] \in Refs /\ head[of[p]] \in 0..Len(commits)
    BY <1>8 DEF DoMerge, TypeOK
  <2>3. e.cand \in 1..Len(commits) /\ onto \in 0..Len(commits)
    BY <2>2, CommitTypes
  <2>4. at' \in [Processes -> Place]
    BY <1>8 DEF DoMerge, At, TypeOK
  <2>5. /\ commits' \in Seq(Commit) /\ Len(commits') \in Nat /\ Len(commits) <= Len(commits')
        /\ \A n \in 1..Len(commits') : commits'[n].contains \subseteq 1..n
        /\ head' \in [Refs -> 0..Len(commits')]
        /\ alone' \subseteq Runs
    <3>1. CASE e.cand \in Contains(onto)
      BY <1>8, <3>1 DEF DoMerge, TypeOK
    <3>2. CASE e.cand \notin Contains(onto)
      <4> DEFINE tables == MergedTables(e.cand, onto)
                 contained == Contains(onto) \cup Contains(e.cand)
      <4>1. e.cand \in 0..Len(commits)
        BY <2>3
      <4>2. contained \in SUBSET (1..Len(commits))
        BY <2>3, <4>1, CommitTypes
      <4>3. tables \in Tables
        <5>1. TablesAt(e.cand) \in Tables /\ TablesAt(onto) \in Tables
          BY <2>3, <4>1, CommitTypes
        <5> QED
          BY <5>1 DEF MergedTables, Tables
      <4>4. Put(Main, tables, contained) /\ alone' \subseteq Runs
        BY <1>8, <3>2 DEF DoMerge, Moved, TypeOK
      <4> HIDE DEF tables, contained
      <4> QED
        BY <4>2, <4>3, <4>4, PutTypes
    <3> QED
      BY <3>1, <3>2
  <2>6. merges' \subseteq Merge
    <3>1. head'[Main] \in Nat
      BY <2>5
    <3>2. new \in Merge
      BY <2>1, <3>1 DEF Merge, TypeOK, Eval
    <3>3. merges' = merges \cup {new}
      BY <1>8 DEF DoMerge
    <3> HIDE DEF new
    <3> QED
      BY <3>2, <3>3 DEF TypeOK
  <2>7. eval' \in [Promoters -> Eval]
    BY <1>8 DEF DoMerge, TypeOK
  <2>8. \A x \in Provisioners : prov[x].base \in 0..Len(commits')
    BY <2>5 DEF TypeOK
  <2> QED
    BY <1>8, <2>4, <2>5, <2>6, <2>7, <2>8 DEF DoMerge, TypeOK, store
<1> QED
  BY <1>1, <1>2, <1>3, <1>4, <1>5, <1>6, <1>7, <1>8 DEF PromoteStep

LEMMA OtherTypes ==
    ASSUME TypeOK, PlaceInv, CleanupStep \/ OtherStep
    PROVE  TypeOK'
<1> USE Ranges DEF Place
<1>1. ASSUME NEW x \in Deleters, NEW c \in Candidates, StartDelete(x, c) PROVE TypeOK'
  <2>1. at' \in [Processes -> Place] /\ of' \in [Processes -> Refs] /\ moves' \in Nat
    BY <1>1 DEF StartDelete, Starts, At, TypeOK, Move
  <2> QED
    BY <1>1, <2>1 DEF StartDelete, TypeOK, world, store, mine, history
<1>2. ASSUME NEW x \in Cleaners, DropCatalog(x) PROVE TypeOK'
  <2>1. at' \in [Processes -> Place] /\ of[x] \in Candidates
    BY <1>2 DEF DropCatalog, At, TypeOK, PlaceInv, Isolated
  <2> QED
    BY <1>2, <2>1 DEF DropCatalog, TypeOK, store, mine
<1>3. ASSUME NEW x \in Cleaners, DeleteBranch(x) PROVE TypeOK'
  <2>1. at' \in [Processes -> Place] /\ head' \in [Refs -> 0..Len(commits)]
        /\ alone' \subseteq Runs
    BY <1>3 DEF DeleteBranch, At, TypeOK, Moved, None
  <2> QED
    BY <1>3, <2>1 DEF DeleteBranch, TypeOK, store, mine
<1>4. ASSUME NEW x \in Cleaners, FailCleanup(x) PROVE TypeOK'
  <2>1. at' \in [Processes -> Place]
    BY ZenonT(40), <1>4 DEF FailCleanup, At, TypeOK
  <2>2. moves' \in Nat /\ failed' \subseteq Cleaners
    BY <1>4 DEF FailCleanup, TypeOK, Move
  <2> QED
    BY <1>4, <2>1, <2>2 DEF FailCleanup, TypeOK, world, store, history
<1>5. ASSUME NEW x \in Cleaners, Forget(x) PROVE TypeOK'
  <2>1. at' \in [Processes -> Place] /\ failed' \subseteq Cleaners
        /\ setup' \in [Candidates -> SUBSET Setup]
    BY <1>5 DEF Forget, At, TypeOK
  <2> QED
    BY <1>5, <2>1 DEF Forget, TypeOK, world, history
<1>6. ASSUME NEW f \in Refs, NEW n \in 1..Len(commits), Rollback(f, n) PROVE TypeOK'
  <2>1. head' \in [Refs -> 0..Len(commits)] /\ alone' \subseteq Runs
        /\ moves' \in Nat /\ resets' \in Nat
    BY <1>6 DEF Rollback, TypeOK, Moved, Move
  <2> QED
    BY <1>6, <2>1 DEF Rollback, TypeOK, store, process, mine
<1>7. ASSUME NEW c \in Candidates, NEW n \in 1..Len(commits), ForeignBranch(c, n)
      PROVE  TypeOK'
  <2>1. head' \in [Refs -> 0..Len(commits)] /\ alone' \subseteq Runs /\ moves' \in Nat
        /\ made' \in [Candidates -> {"never", "afresh", "behind"}]
    BY <1>7 DEF ForeignBranch, TypeOK, Moved, Move, Made
  <2> QED
    BY <1>7, <2>1 DEF ForeignBranch, TypeOK, store, process, mine
<1>8. ASSUME NEW c \in Candidates, ForeignCatalog(c) PROVE TypeOK'
  BY <1>8 DEF ForeignCatalog, TypeOK, Move, store, process, mine, history
<1> QED
  BY <1>1, <1>2, <1>3, <1>4, <1>5, <1>6, <1>7, <1>8 DEF CleanupStep, OtherStep

LEMMA TypeStep ==
    ASSUME TypeOK, PlaceInv, VetInv, [Next]_vars
    PROVE  TypeOK'
<1>1. CASE UNCHANGED vars
  BY <1>1 DEF vars, TypeOK, world, store, process, mine, history
<1> QED
  BY <1>1, ProvisionTypes, RunTypes, AuditTypes, PromoteTypes, OtherTypes DEF Next

-----------------------------------------------------------------------------
(***************************************************************************)
(* Where processes are.                                                    *)
(***************************************************************************)
LEMMA PlaceAt ==
    ASSUME TypeOK, PlaceInv, NEW x \in Processes, NEW from, NEW to, At(x, from, to),
           of' = of, to \in Isolated => from \in Isolated
    PROVE  PlaceInv'
  BY DEF At, PlaceInv, TypeOK

LEMMA PlaceStart ==
    ASSUME TypeOK, PlaceInv, NEW x \in Processes, NEW to, NEW c, Starts(x, to, c),
           to \in Isolated => c \in Candidates
    PROVE  PlaceInv'
<1>1. /\ at' = [at EXCEPT ![x] = to] /\ of' = [of EXCEPT ![x] = c]
      /\ DOMAIN at = Processes /\ DOMAIN of = Processes
  BY DEF Starts, At, TypeOK
<1> SUFFICES ASSUME NEW y \in Processes, at'[y] \in Isolated PROVE of'[y] \in Candidates
  BY DEF PlaceInv
<1>2. CASE y = x
  BY <1>1, <1>2
<1>3. CASE y # x
  BY <1>1, <1>3 DEF PlaceInv
<1> QED
  BY <1>2, <1>3

LEMMA PlaceStep ==
    ASSUME TypeOK, PlaceInv, [Next]_vars
    PROVE  PlaceInv'
<1> USE Ranges DEF Isolated
<1>1. ASSUME at' = at, of' = of PROVE PlaceInv'
  BY <1>1 DEF PlaceInv
<1>2. CASE ProvisionStep
  <2>1. ASSUME NEW x \in Provisioners, NEW c \in Candidates, StartOn(x, c)
        PROVE  PlaceInv'
    BY <2>1, PlaceStart DEF StartOn
  <2>2. ASSUME NEW x \in Provisioners,
               ReadBase(x) \/ CutBranch(x) \/ TakeBranch(x) \/ RecordSetup(x)
        PROVE  PlaceInv'
    BY <2>2, PlaceAt DEF ReadBase, CutBranch, TakeBranch, RecordSetup
  <2>3. ASSUME NEW r \in Runs, StartOnMain(r) PROVE PlaceInv'
    BY <2>3, PlaceStart DEF StartOnMain
  <2>4. ASSUME NEW r \in Runs, CreateCatalog(r) \/ TakeCatalog(r) \/ RefuseCatalog(r)
                               \/ UndoBranch(r)
        PROVE  PlaceInv'
    BY <2>4, PlaceAt DEF CreateCatalog, TakeCatalog, RefuseCatalog, UndoBranch, mine
  <2> QED
    BY <1>2, <2>1, <2>2, <2>3, <2>4 DEF ProvisionStep
<1>3. CASE RunStep
  <2>1. ASSUME NEW r \in Runs, NEW m \in Models, Write(r, m) \/ Note(r, m)
        PROVE  PlaceInv'
    BY <1>1, <2>1 DEF Write, Note, process
  <2>2. ASSUME NEW r \in Runs, NEW selected, NEW reused, Begin(r, selected, reused)
        PROVE  PlaceInv'
    BY <2>2, PlaceAt DEF Begin
  <2>3. ASSUME NEW r \in Runs, NEW tests, Pass(r, tests) PROVE PlaceInv'
    BY <2>3, PlaceAt DEF Pass
  <2>4. ASSUME NEW r \in Runs, Fail(r) \/ ResolveRun(r) \/ BindRun(r) PROVE PlaceInv'
    BY <2>4, PlaceAt DEF Fail, ResolveRun, BindRun
  <2> QED
    BY <1>3, <2>1, <2>2, <2>3, <2>4 DEF RunStep
<1>4. CASE AuditStep
  <2>1. ASSUME NEW a \in Auditors, NEW c \in Candidates, StartAudit(a, c) PROVE PlaceInv'
    BY <2>1, PlaceStart DEF StartAudit
  <2>2. ASSUME NEW a \in Auditors, NEW verdict,
               ReadTarget(a) \/ ReadVersions(a) \/ Compare(a, verdict)
        PROVE  PlaceInv'
    BY <2>2, PlaceAt DEF ReadTarget, ReadVersions, Compare
  <2> QED
    BY <1>4, <2>1, <2>2 DEF AuditStep
<1>5. CASE PromoteStep
  <2>1. ASSUME NEW p \in Promoters, NEW c \in Candidates, StartPromote(p, c)
        PROVE  PlaceInv'
    BY <2>1, PlaceStart DEF StartPromote
  <2>2. ASSUME NEW p \in Promoters, NEW from, NEW ok, NEW to, NEW e,
               from \in Isolated, Evaluate(p, from, ok, to, e)
        PROVE  PlaceInv'
    BY <2>2, PlaceAt DEF Evaluate
  <2>3. ASSUME NEW p \in Promoters, NEW option,
               \/ EvalTarget(p) \/ EvalRun(p) \/ EvalEvidence(p) \/ Gates(p, option)
               \/ ReadAgain(p) \/ FailMerge(p)
        PROVE  PlaceInv'
    <3>1. {"target", "run", "evidence", "gates", "again", "merge"} \subseteq Isolated
      OBVIOUS
    <3>2. PICK from \in {"target", "run", "evidence", "gates", "again", "merge"} :
            \E ok, to, e : Evaluate(p, from, ok, to, e)
      BY <2>3 DEF EvalTarget, EvalRun, EvalEvidence, Gates, ReadAgain, FailMerge
    <3> QED
      BY <2>2, <3>1, <3>2
  <2>4. ASSUME NEW p \in Promoters, DoMerge(p) PROVE PlaceInv'
    BY <2>4, PlaceAt DEF DoMerge
  <2> QED
    BY <1>5, <2>1, <2>3, <2>4 DEF PromoteStep
<1>6. CASE CleanupStep
  <2>1. ASSUME NEW x \in Deleters, NEW c \in Candidates, StartDelete(x, c)
        PROVE  PlaceInv'
    BY <2>1, PlaceStart DEF StartDelete
  <2>2. ASSUME NEW x \in Cleaners,
               DropCatalog(x) \/ DeleteBranch(x) \/ FailCleanup(x) \/ Forget(x)
        PROVE  PlaceInv'
    BY <2>2, PlaceAt DEF DropCatalog, DeleteBranch, FailCleanup, Forget
  <2> QED
    BY <1>6, <2>1, <2>2 DEF CleanupStep
<1>7. CASE OtherStep
  BY <1>1, <1>7 DEF OtherStep, Rollback, ForeignBranch, ForeignCatalog, process
<1>8. CASE UNCHANGED vars
  BY <1>1, <1>8 DEF vars, process
<1> QED
  BY <1>2, <1>3, <1>4, <1>5, <1>6, <1>7, <1>8 DEF Next

\* A promotion is moved by its own steps.
LEMMA OwnSteps ==
    ASSUME TypeOK,
           ProvisionStep \/ RunStep \/ AuditStep \/ OtherStep \/ UNCHANGED vars,
           NEW p \in Promoters
    PROVE  at'[p] = at[p] /\ eval' = eval /\ merges' = merges
<1> USE Ranges
<1>1. p \notin Provisioners /\ p \notin Auditors /\ p \in Processes
  BY ProcessAssumption DEF Provisioners
<1>2. ASSUME NEW x \in Processes, x # p, NEW from, NEW to, At(x, from, to)
      PROVE  at'[p] = at[p]
  BY <1>1, <1>2 DEF At, TypeOK
<1>3. CASE ProvisionStep
  <2>1. ASSUME NEW x \in Provisioners, NEW c \in Candidates, StartOn(x, c)
        PROVE  at'[p] = at[p] /\ eval' = eval /\ merges' = merges
    BY <1>1, <1>2, <2>1 DEF StartOn, Starts, history
  <2>2. ASSUME NEW r \in Runs,
               \/ StartOnMain(r) \/ CreateCatalog(r) \/ TakeCatalog(r)
               \/ RefuseCatalog(r) \/ UndoBranch(r)
        PROVE  at'[p] = at[p] /\ eval' = eval /\ merges' = merges
    BY <1>1, <1>2, <2>2
       DEF StartOnMain, Starts, CreateCatalog, TakeCatalog, RefuseCatalog, UndoBranch,
           mine, history
  <2>3. ASSUME NEW x \in Provisioners,
               ReadBase(x) \/ CutBranch(x) \/ TakeBranch(x) \/ RecordSetup(x)
        PROVE  at'[p] = at[p] /\ eval' = eval /\ merges' = merges
    BY <1>1, <1>2, <2>3
       DEF ReadBase, CutBranch, TakeBranch, RecordSetup, history
  <2> QED
    BY <1>3, <2>1, <2>2, <2>3 DEF ProvisionStep
<1>4. CASE RunStep
  <2>1. ASSUME NEW r \in Runs, NEW m \in Models, Write(r, m) \/ Note(r, m)
        PROVE  at'[p] = at[p] /\ eval' = eval /\ merges' = merges
    BY <2>1 DEF Write, Note, process, mine, history
  <2>2. ASSUME NEW r \in Runs, NEW selected, NEW reused, Begin(r, selected, reused)
        PROVE  at'[p] = at[p] /\ eval' = eval /\ merges' = merges
    BY <1>1, <1>2, <2>2 DEF Begin, mine
  <2>3. ASSUME NEW r \in Runs, NEW tests, Pass(r, tests)
        PROVE  at'[p] = at[p] /\ eval' = eval /\ merges' = merges
    BY <1>1, <1>2, <2>3 DEF Pass, mine, history
  <2>4. ASSUME NEW r \in Runs, Fail(r) \/ ResolveRun(r) \/ BindRun(r)
        PROVE  at'[p] = at[p] /\ eval' = eval /\ merges' = merges
    BY <1>1, <1>2, <2>4 DEF Fail, ResolveRun, BindRun, mine, history
  <2> QED
    BY <1>4, <2>1, <2>2, <2>3, <2>4 DEF RunStep
<1>5. CASE AuditStep
  <2>1. ASSUME NEW a \in Auditors, NEW c, NEW verdict,
               StartAudit(a, c) \/ ReadTarget(a) \/ ReadVersions(a)
               \/ Compare(a, verdict)
        PROVE  at'[p] = at[p] /\ eval' = eval /\ merges' = merges
    BY <1>1, <1>2, <2>1
       DEF StartAudit, Starts, ReadTarget, ReadVersions, Compare, history
  <2> QED
    BY <1>5, <2>1 DEF AuditStep
<1>6. CASE OtherStep
  BY <1>6 DEF OtherStep, Rollback, ForeignBranch, ForeignCatalog, process, mine, history
<1>7. CASE UNCHANGED vars
  BY <1>7 DEF vars, process, mine, history
<1> QED
  BY <1>3, <1>4, <1>5, <1>6, <1>7

\* A run that is over stays what it is.
LEMMA Finished ==
    ASSUME TypeOK, [Next]_vars, NEW r \in Runs, at[r] = "done"
    PROVE  at'[r] = "done" /\ row'[r] = row[r]
<1> USE Ranges
<1> r \in Processes
  OBVIOUS
<1>1. ASSUME NEW x \in Processes, NEW from, NEW to, from # "done", At(x, from, to)
      PROVE  at'[r] = "done"
  BY <1>1 DEF At, TypeOK
<1>2. CASE ProvisionStep
  <2>1. ASSUME NEW x \in Provisioners, NEW c \in Candidates, StartOn(x, c)
        PROVE  at'[r] = "done" /\ row' = row
    BY <1>1, <2>1 DEF StartOn, Starts, store
  <2>2. ASSUME NEW x \in Provisioners,
               ReadBase(x) \/ CutBranch(x) \/ TakeBranch(x) \/ RecordSetup(x)
        PROVE  at'[r] = "done" /\ row' = row
    BY <1>1, <2>2 DEF ReadBase, CutBranch, TakeBranch, RecordSetup, store
  <2>3. ASSUME NEW q \in Runs,
               \/ StartOnMain(q) \/ CreateCatalog(q) \/ TakeCatalog(q)
               \/ RefuseCatalog(q) \/ UndoBranch(q)
        PROVE  at'[r] = "done" /\ row' = row
    BY <1>1, <2>3
       DEF StartOnMain, Starts, CreateCatalog, TakeCatalog, RefuseCatalog, UndoBranch,
           store
  <2> QED
    BY <1>2, <2>1, <2>2, <2>3 DEF ProvisionStep
<1>3. CASE RunStep
  <2> row \in [Runs -> Row]
    BY DEF TypeOK
  <2>1. ASSUME NEW q \in Runs, NEW m \in Models, Write(q, m) \/ Note(q, m)
        PROVE  at'[r] = "done" /\ row'[r] = row[r]
    <3>1. q # r /\ at' = at
      BY <2>1 DEF Write, Note, process
    <3> QED
      BY <2>1, <3>1 DEF Write, Note
  <2>2. ASSUME NEW q \in Runs, NEW selected, NEW reused, Begin(q, selected, reused)
        PROVE  at'[r] = "done" /\ row'[r] = row[r]
    <3>1. q # r /\ at'[r] = "done"
      BY <1>1, <2>2 DEF Begin, At
    <3> QED
      BY <2>2, <3>1 DEF Begin
  <2>3. ASSUME NEW q \in Runs, NEW tests, Pass(q, tests)
        PROVE  at'[r] = "done" /\ row'[r] = row[r]
    <3>1. q # r /\ at'[r] = "done"
      BY <1>1, <2>3 DEF Pass, At
    <3> QED
      BY <2>3, <3>1 DEF Pass
  <2>4. ASSUME NEW q \in Runs, Fail(q) \/ ResolveRun(q) \/ BindRun(q)
        PROVE  at'[r] = "done" /\ row'[r] = row[r]
    <3>1. q # r /\ at'[r] = "done"
      BY <1>1, <2>4 DEF Fail, ResolveRun, BindRun, At
    <3> QED
      BY <2>4, <3>1 DEF Fail, ResolveRun, BindRun, store
  <2> QED
    BY <1>3, <2>1, <2>2, <2>3, <2>4 DEF RunStep
<1>4. CASE AuditStep
  <2>1. ASSUME NEW a \in Auditors, NEW c, NEW verdict,
               StartAudit(a, c) \/ ReadTarget(a) \/ ReadVersions(a)
               \/ Compare(a, verdict)
        PROVE  at'[r] = "done" /\ row' = row
    BY <1>1, <2>1 DEF StartAudit, Starts, ReadTarget, ReadVersions, Compare, store
  <2> QED
    BY <1>4, <2>1 DEF AuditStep
<1>5. CASE PromoteStep
  <2>1. ASSUME NEW p \in Promoters, NEW c, StartPromote(p, c)
        PROVE  at'[r] = "done" /\ row' = row
    BY <1>1, <2>1 DEF StartPromote, Starts, store
  <2>2. ASSUME NEW p \in Promoters, NEW from, NEW ok, NEW to, NEW e,
               from # "done", Evaluate(p, from, ok, to, e)
        PROVE  at'[r] = "done" /\ row' = row
    BY <1>1, <2>2 DEF Evaluate, store
  <2>3. ASSUME NEW p \in Promoters, NEW option,
               \/ EvalTarget(p) \/ EvalRun(p) \/ EvalEvidence(p) \/ Gates(p, option)
               \/ ReadAgain(p) \/ FailMerge(p)
        PROVE  at'[r] = "done" /\ row' = row
    BY <2>2, <2>3 DEF EvalTarget, EvalRun, EvalEvidence, Gates, ReadAgain, FailMerge
  <2>4. ASSUME NEW p \in Promoters, DoMerge(p) PROVE at'[r] = "done" /\ row' = row
    BY <1>1, <2>4 DEF DoMerge, store
  <2> QED
    BY <1>5, <2>1, <2>3, <2>4 DEF PromoteStep
<1>6. CASE CleanupStep
  <2>1. ASSUME NEW x \in Deleters, NEW c, StartDelete(x, c)
        PROVE  at'[r] = "done" /\ row' = row
    BY <1>1, <2>1 DEF StartDelete, Starts, store
  <2>2. ASSUME NEW x \in Cleaners,
               DropCatalog(x) \/ DeleteBranch(x) \/ FailCleanup(x) \/ Forget(x)
        PROVE  at'[r] = "done" /\ row' = row
    BY <1>1, <2>2 DEF DropCatalog, DeleteBranch, FailCleanup, Forget, store
  <2> QED
    BY <1>6, <2>1, <2>2 DEF CleanupStep
<1>7. CASE OtherStep
  BY <1>7 DEF OtherStep, Rollback, ForeignBranch, ForeignCatalog, process, store
<1>8. CASE UNCHANGED vars
  BY <1>8 DEF vars, process, store
<1> QED
  BY <1>2, <1>3, <1>4, <1>5, <1>6, <1>7, <1>8 DEF Next

-----------------------------------------------------------------------------
(***************************************************************************)
(* Runs that are bound.                                                    *)
(***************************************************************************)
LEMMA BoundStep ==
    ASSUME TypeOK, BoundInv, [Next]_vars
    PROVE  BoundInv'
<1> USE Ranges
<1>1. ASSUME NEW r \in Runs, row'[r].bound = row[r].bound, row'[r].bound # None
      PROVE  at'[r] = "done"
  BY <1>1, Finished DEF BoundInv
<1>2. CASE row' = row
  BY <1>1, <1>2 DEF BoundInv
<1>3. CASE RunStep
  <2> row \in [Runs -> Row]
    BY DEF TypeOK
  <2> SUFFICES ASSUME NEW r \in Runs, row'[r].bound # None PROVE at'[r] = "done"
    BY DEF BoundInv
  <2>1. ASSUME NEW q \in Runs, NEW selected, NEW reused, Begin(q, selected, reused)
        PROVE  q = r => row'[r].bound = None
    BY <2>1 DEF Begin, NoRow
  <2>2. ASSUME NEW q \in Runs, NEW selected, NEW reused, Begin(q, selected, reused)
        PROVE  q # r => row'[r] = row[r]
    BY <2>2 DEF Begin
  <2>3. ASSUME NEW q \in Runs, NEW m \in Models, Write(q, m) \/ Note(q, m)
        PROVE  row'[r].bound = row[r].bound
    BY <2>3 DEF Write, Note, Row
  <2>4. ASSUME NEW q \in Runs, NEW tests, Pass(q, tests) \/ Fail(q)
        PROVE  row'[r].bound = row[r].bound
    <3>1. CASE Pass(q, tests)
      BY <3>1 DEF Pass, Row
    <3>2. CASE Fail(q)
      BY <3>2 DEF Fail, Row
    <3> QED
      BY <2>4, <3>1, <3>2
  <2>5. ASSUME NEW q \in Runs, ResolveRun(q) PROVE row' = row
    BY <2>5 DEF ResolveRun, store
  <2>6. ASSUME NEW q \in Runs, BindRun(q) PROVE q = r => at'[r] = "done"
    BY <2>6 DEF BindRun, At, TypeOK
  <2>7. ASSUME NEW q \in Runs, BindRun(q) PROVE q # r => row'[r] = row[r]
    BY <2>7 DEF BindRun
  <2> QED
    BY <1>1, <1>3, <2>1, <2>2, <2>3, <2>4, <2>5, <2>6, <2>7 DEF RunStep
<1>4. CASE ProvisionStep
  BY <1>2, <1>4
     DEF ProvisionStep, StartOn, ReadBase, CutBranch, TakeBranch, RecordSetup,
         StartOnMain, CreateCatalog, TakeCatalog, RefuseCatalog, UndoBranch, store
<1>5. CASE AuditStep
  BY <1>2, <1>5
     DEF AuditStep, StartAudit, ReadTarget, ReadVersions, Compare, store
<1>6. CASE PromoteStep
  BY <1>2, <1>6
     DEF PromoteStep, StartPromote, EvalTarget, EvalRun, EvalEvidence, Gates, ReadAgain,
         FailMerge, Evaluate, DoMerge, store
<1>7. CASE CleanupStep
  BY <1>2, <1>7
     DEF CleanupStep, StartDelete, DropCatalog, DeleteBranch, FailCleanup, Forget, store
<1>8. CASE OtherStep
  BY <1>2, <1>8 DEF OtherStep, Rollback, ForeignBranch, ForeignCatalog, store
<1>9. CASE UNCHANGED vars
  BY <1>2, <1>9 DEF vars, store
<1> QED
  BY <1>3, <1>4, <1>5, <1>6, <1>7, <1>8, <1>9 DEF Next

-----------------------------------------------------------------------------
(***************************************************************************)
(* Reports.                                                                *)
(***************************************************************************)
LEMMA OneStep ==
    ASSUME TypeOK, PlaceInv, OneInv, [Next]_vars
    PROVE  OneInv'
<1> USE Ranges
<1>1. CASE report' = report /\ eval' = eval
  BY <1>1 DEF OneInv
<1>2. CASE AuditStep
  <2>1. ASSUME NEW a \in Auditors, NEW verdict, Compare(a, verdict)
        PROVE  OneInv'
    <3>1. PICK d : report' = [report EXCEPT ![of[a]] = {d}]
      BY <2>1 DEF Compare
    <3>2. eval' = eval /\ report \in [Candidates -> SUBSET Report]
      BY <2>1 DEF Compare, TypeOK
    <3> QED
      BY <3>1, <3>2 DEF OneInv
  <2>2. ASSUME NEW a \in Auditors, NEW c,
               StartAudit(a, c) \/ ReadTarget(a) \/ ReadVersions(a)
        PROVE  OneInv'
    BY <1>1, <2>2 DEF StartAudit, ReadTarget, ReadVersions, store
  <2> QED
    BY <1>2, <2>1, <2>2 DEF AuditStep
<1>3. CASE PromoteStep
  <2>0. eval \in [Promoters -> Eval]
    BY DEF TypeOK
  <2>1. ASSUME NEW p \in Promoters, NEW e, \A d, f \in e.report : d = f,
               report' = report, eval' = [eval EXCEPT ![p] = e]
        PROVE  OneInv'
    BY <2>0, <2>1 DEF OneInv
  <2>2. NoEval.report = {}
    BY DEF NoEval
  <2>3. ASSUME NEW p \in Promoters, NEW e, \A d, f \in e.report : d = f,
               report' = report,
               \/ eval' = [eval EXCEPT ![p] = e]
               \/ eval' = [eval EXCEPT ![p] = NoEval]
        PROVE  OneInv'
    BY <2>1, <2>2, <2>3
  <2>4. ASSUME NEW p \in Promoters PROVE \A d, f \in eval[p].report : d = f
    BY DEF OneInv
  <2>5. ASSUME NEW p \in Promoters, NEW c, StartPromote(p, c) PROVE OneInv'
    <3>1. [eval[p] EXCEPT !.cand = head[c]].report = eval[p].report
      BY <2>0 DEF Eval
    <3>2. eval' = [eval EXCEPT ![p] = [eval[p] EXCEPT !.cand = head[c]]] /\ report' = report
      BY <2>0, <2>5 DEF StartPromote, store
    <3> QED
      BY <2>1, <2>4, <3>1, <3>2
  <2>6. ASSUME NEW p \in Promoters, EvalTarget(p) PROVE OneInv'
    <3> DEFINE e == [eval[p] EXCEPT !.target = head[Main]]
    <3>1. e.report = eval[p].report
      BY <2>0 DEF Eval
    <3>2. \/ eval' = [eval EXCEPT ![p] = e]
          \/ eval' = [eval EXCEPT ![p] = NoEval]
      BY <2>6 DEF EvalTarget, Evaluate
    <3>3. report' = report
      BY <2>6 DEF EvalTarget, Evaluate, store
    <3> HIDE DEF e
    <3>4. \A d, f \in e.report : d = f
      BY <2>4, <3>1
    <3> QED
      BY <2>3, <3>2, <3>3, <3>4
  <2>7. ASSUME NEW p \in Promoters, EvalRun(p) PROVE OneInv'
    <3> DEFINE e == [eval[p] EXCEPT !.run = LatestRun(of[p])]
    <3>1. e.report = eval[p].report
      BY <2>0 DEF Eval
    <3>2. \/ eval' = [eval EXCEPT ![p] = e]
          \/ eval' = [eval EXCEPT ![p] = NoEval]
      BY <2>7 DEF EvalRun, Evaluate
    <3>3. report' = report
      BY <2>7 DEF EvalRun, Evaluate, store
    <3> HIDE DEF e
    <3>4. \A d, f \in e.report : d = f
      BY <2>4, <3>1
    <3> QED
      BY <2>3, <3>2, <3>3, <3>4
  <2>8. ASSUME NEW p \in Promoters, EvalEvidence(p) PROVE OneInv'
    <3> DEFINE fresh == \E d \in report[of[p]] :
                            Fresh(d, of[p], eval[p].cand, eval[p].target)
               strict == \E m \in Models : recorded[Main][m] \in Stricter
               e == [eval[p] EXCEPT !.setup = setup[of[p]], !.report = report[of[p]],
                                    !.fresh = fresh, !.strict = strict]
    <3>1. eval' = [eval EXCEPT ![p] = e] /\ report' = report
      BY <2>8 DEF EvalEvidence, Evaluate, store
    <3> HIDE DEF fresh, strict
    <3>2. e.report = report[of[p]]
      BY <2>0 DEF Eval
    <3> HIDE DEF e
    <3>3. of[p] \in Candidates
      BY <2>8 DEF EvalEvidence, Evaluate, At, PlaceInv, Isolated
    <3>4. \A d, f \in e.report : d = f
      BY <3>2, <3>3 DEF OneInv
    <3> QED
      BY <2>1, <3>1, <3>4
  <2>9. ASSUME NEW p \in Promoters, NEW option, Gates(p, option) PROVE OneInv'
    <3> DEFINE e == [eval[p] EXCEPT !.option = option]
    <3>1. e.report = eval[p].report
      BY <2>0 DEF Eval
    <3>2. \/ eval' = [eval EXCEPT ![p] = e]
          \/ eval' = [eval EXCEPT ![p] = NoEval]
      <4> DEFINE ok == SchemaGate(e) /\ DataGate(e) /\ BaseGate(e) /\ MergeGate(of[p])
      <4>1. eval' = [eval EXCEPT ![p] = IF ok THEN e ELSE NoEval]
        BY <2>9 DEF Gates, Evaluate
      <4> HIDE DEF ok
      <4> QED
        BY <4>1
    <3>3. report' = report
      BY <2>9 DEF Gates, Evaluate, store
    <3> HIDE DEF e
    <3>4. \A d, f \in e.report : d = f
      BY <2>4, <3>1
    <3> QED
      BY <2>3, <3>2, <3>3, <3>4
  <2>10. ASSUME NEW p \in Promoters, ReadAgain(p) \/ FailMerge(p) PROVE OneInv'
    BY <2>2, <2>3, <2>4, <2>10 DEF ReadAgain, FailMerge, Evaluate, store
  <2>11. ASSUME NEW p \in Promoters, DoMerge(p) PROVE OneInv'
    BY <2>1, <2>2, <2>11 DEF DoMerge, store
  <2> QED
    BY <1>3, <2>5, <2>6, <2>7, <2>8, <2>9, <2>10, <2>11 DEF PromoteStep
<1>4. CASE ProvisionStep
  BY <1>1, <1>4
     DEF ProvisionStep, StartOn, ReadBase, CutBranch, TakeBranch, RecordSetup,
         StartOnMain, CreateCatalog, TakeCatalog, RefuseCatalog, UndoBranch, store, mine
<1>5. CASE RunStep
  BY ZenonT(40), <1>1, <1>5
     DEF RunStep, Begin, Write, Note, Pass, Fail, ResolveRun, BindRun, store, mine, process
<1>6. CASE CleanupStep
  BY <1>1, <1>6
     DEF CleanupStep, StartDelete, DropCatalog, DeleteBranch, FailCleanup, Forget, store,
         mine
<1>7. CASE OtherStep
  BY <1>1, <1>7
     DEF OtherStep, Rollback, ForeignBranch, ForeignCatalog, store, mine, process
<1>8. CASE UNCHANGED vars
  BY <1>1, <1>8 DEF vars, store, mine, process
<1> QED
  BY <1>2, <1>3, <1>4, <1>5, <1>6, <1>7, <1>8 DEF Next

-----------------------------------------------------------------------------
(***************************************************************************)
(* What a promotion rests on.                                              *)
(***************************************************************************)
LEMMA VetsStay ==
    ASSUME TypeOK, BoundInv, [Next]_vars, NEW n, NEW r, Vets(n, r)
    PROVE  Vets(n, r)'
<1>1. r \in Runs /\ at[r] = "done"
  BY DEF Vets, BoundInv
<1>2. row'[r] = row[r]
  BY <1>1, Finished
<1> QED
  BY <1>2 DEF Vets

LEMMA VetStep ==
    ASSUME TypeOK, PlaceInv, OneInv, BoundInv, VetInv, [Next]_vars
    PROVE  VetInv'
<1> USE Ranges
<1>1. ASSUME NEW p \in Promoters,
             at'[p] = at[p] \/ at'[p] \in {"drop", "find", "forget", "done"},
             eval'[p] = eval[p]
      PROVE  Knows(at[p], eval[p])'
  <2>1. CASE at'[p] = at[p]
    <3>1. Knows(at[p], eval[p])
      BY DEF VetInv
    <3>2. Vets(eval[p].cand, eval[p].run) => Vets(eval[p].cand, eval[p].run)'
      <4>1. ASSUME Vets(eval[p].cand, eval[p].run)
            PROVE  row'[eval[p].run] = row[eval[p].run]
        <5>1. eval[p].run \in Runs /\ at[eval[p].run] = "done"
          BY <4>1 DEF Vets, BoundInv
        <5> QED
          BY <5>1, Finished
      <4> QED
        BY <1>1, <4>1 DEF Vets
    <3> QED
      BY <1>1, <2>1, <3>1, <3>2 DEF Knows, DataGate, BaseGate, Expected
  <2>2. CASE at'[p] \in {"drop", "find", "forget", "done"}
    BY <2>2 DEF Knows
  <2> QED
    BY <1>1, <2>1, <2>2
<1>2. CASE ProvisionStep \/ RunStep \/ AuditStep \/ OtherStep \/ UNCHANGED vars
  BY <1>1, <1>2, OwnSteps DEF VetInv
<1>3. CASE CleanupStep
  <2> SUFFICES ASSUME NEW p \in Promoters PROVE Knows(at[p], eval[p])'
    BY DEF VetInv
  <2>1. ASSUME NEW x \in Deleters, NEW c, StartDelete(x, c)
        PROVE  at'[p] = at[p] /\ eval' = eval
    BY <2>1, ProcessAssumption DEF StartDelete, Starts, At, TypeOK, mine
  <2>2. ASSUME NEW x \in Cleaners,
               DropCatalog(x) \/ DeleteBranch(x) \/ FailCleanup(x) \/ Forget(x)
        PROVE  /\ at'[p] = at[p] \/ at'[p] \in {"find", "forget", "done"}
               /\ eval' = eval
    BY <2>2 DEF DropCatalog, DeleteBranch, FailCleanup, Forget, At, TypeOK, mine
  <2> QED
    BY <1>1, <1>3, <2>1, <2>2 DEF CleanupStep
<1>4. CASE PromoteStep
  <2>1. ASSUME NEW p \in Promoters,
               \A q \in Promoters : q # p => at'[q] = at[q] /\ eval'[q] = eval[q],
               Knows(at[p], eval[p])'
        PROVE  VetInv'
    BY <1>1, <2>1 DEF VetInv
  <2>2. at \in [Processes -> Place] /\ eval \in [Promoters -> Eval]
    BY DEF TypeOK
  <2>3. ASSUME NEW p \in Promoters, NEW to, at' = [at EXCEPT ![p] = to],
               \E e : eval' = [eval EXCEPT ![p] = e],
               Knows(at[p], eval[p])'
        PROVE  VetInv'
    BY <2>1, <2>2, <2>3
  <2>4. ASSUME NEW p \in Promoters, NEW c, StartPromote(p, c) PROVE VetInv'
    <3>1. at'[p] = "target" /\ eval'[p].cand # None
      BY <2>2, <2>4 DEF StartPromote, Starts, At, Eval
    <3>2. Knows(at[p], eval[p])'
      BY <3>1 DEF Knows
    <3> QED
      BY <2>2, <2>3, <2>4, <3>2 DEF StartPromote, Starts, At
  <2>5. ASSUME NEW p \in Promoters, EvalTarget(p) PROVE VetInv'
    <3>1. at[p] = "target" /\ at'[p] = "run" /\ eval'[p].cand = eval[p].cand
      BY <2>2, <2>5 DEF EvalTarget, Evaluate, At, Eval
    <3>2. eval[p].cand # None
      BY <3>1 DEF VetInv, Knows
    <3>3. Knows(at[p], eval[p])'
      BY <3>1, <3>2 DEF Knows
    <3> QED
      BY <2>2, <2>3, <2>5, <3>3 DEF EvalTarget, Evaluate, At
  <2>6. ASSUME NEW p \in Promoters, EvalRun(p) PROVE VetInv'
    <3> DEFINE r == LatestRun(of[p])
               ok == RunGate(r, eval[p].cand) /\ TestGates(r)
    <3>1. at[p] = "run" /\ eval[p].cand # None
      BY <2>6 DEF EvalRun, Evaluate, At, VetInv, Knows
    <3>2. row' = row
      BY <2>6 DEF EvalRun, Evaluate, store
    <3>3. /\ at' = [at EXCEPT ![p] = IF ok THEN "evidence" ELSE "done"]
          /\ eval' = [eval EXCEPT ![p] = IF ok THEN [eval[p] EXCEPT !.run = r] ELSE NoEval]
      BY <2>6 DEF EvalRun, Evaluate, At
    <3>4. ASSUME ok PROVE Vets(eval[p].cand, r)
      <4>1. r \in Runs
        BY <3>4 DEF RunGate, LatestRun
      <4> HIDE DEF r
      <4> QED
        BY <3>1, <3>4, <4>1 DEF RunGate, TestGates, Vets, TypeOK, Row
    <3>5. Knows(at[p], eval[p])'
      <4>1. CASE ok
        <5>1. at'[p] = "evidence" /\ eval'[p].cand = eval[p].cand /\ eval'[p].run = r
          BY <2>2, <3>3, <4>1 DEF Eval
        <5> HIDE DEF r
        <5> QED
          BY <3>2, <3>4, <4>1, <5>1 DEF Knows, Vets
      <4>2. CASE ~ok
        <5>1. at'[p] = "done"
          BY <2>2, <3>3, <4>2
        <5> QED
          BY <5>1 DEF Knows
      <4> QED
        BY <4>1, <4>2
    <3> HIDE DEF ok, r
    <3> QED
      BY <2>3, <3>3, <3>5
  <2>7. ASSUME NEW p \in Promoters, EvalEvidence(p) PROVE VetInv'
    <3> DEFINE fresh == \E d \in report[of[p]] :
                            Fresh(d, of[p], eval[p].cand, eval[p].target)
    <3>1. at[p] = "evidence" /\ at' = [at EXCEPT ![p] = "gates"] /\ row' = row
      BY <2>7 DEF EvalEvidence, Evaluate, At, store
    <3>2. \E e : eval' = [eval EXCEPT ![p] = e]
      BY <2>7 DEF EvalEvidence, Evaluate
    <3>3. /\ eval'[p].cand = eval[p].cand /\ eval'[p].run = eval[p].run
          /\ eval'[p].target = eval[p].target /\ eval'[p].report = report[of[p]]
          /\ eval'[p].fresh = fresh
      BY <2>2, <2>7 DEF EvalEvidence, Evaluate, Eval
    <3>4. Vets(eval[p].cand, eval[p].run)
      BY <3>1 DEF VetInv, Knows
    <3>5. eval'[p].fresh => \E d \in eval'[p].report :
                                d.cand = eval'[p].cand /\ d.base = eval'[p].target
      BY <3>3 DEF Fresh
    <3>6. at'[p] = "gates"
      BY <2>2, <3>1
    <3>7. Knows(at[p], eval[p])'
      <4> HIDE DEF fresh
      <4> QED
        BY <3>1, <3>3, <3>4, <3>5, <3>6 DEF Knows, Vets
    <3> QED
      BY <2>3, <3>1, <3>2, <3>7
  <2>8. ASSUME NEW p \in Promoters, NEW option, Gates(p, option) PROVE VetInv'
    <3> DEFINE e == [eval[p] EXCEPT !.option = option]
               ok == SchemaGate(e) /\ DataGate(e) /\ BaseGate(e) /\ MergeGate(of[p])
    <3>1. /\ at[p] = "gates" /\ row' = row
          /\ at' = [at EXCEPT ![p] = IF ok THEN "again" ELSE "done"]
          /\ eval' = [eval EXCEPT ![p] = IF ok THEN e ELSE NoEval]
      BY <2>8 DEF Gates, Evaluate, At, store
    <3>2. /\ e.cand = eval[p].cand /\ e.run = eval[p].run /\ e.fresh = eval[p].fresh
          /\ e.target = eval[p].target /\ e.report = eval[p].report
      BY <2>2 DEF Eval
    <3>3. /\ Vets(eval[p].cand, eval[p].run)
          /\ eval[p].fresh => \E d \in eval[p].report :
                                 d.cand = eval[p].cand /\ d.base = eval[p].target
      BY <3>1 DEF VetInv, Knows
    <3>4. ok => DataGate(e) /\ BaseGate(e)
      OBVIOUS
    <3> HIDE DEF ok, e
    <3>5. CASE ok
      <4>1. at'[p] = "again" /\ eval'[p] = e
        BY <2>2, <3>1, <3>5
      <4>2. Knows(at[p], eval[p])'
        BY ZenonT(40), <3>1, <3>2, <3>3, <3>4, <3>5, <4>1
           DEF Knows, Vets, DataGate, BaseGate, Expected
      <4> QED
        BY <2>3, <3>1, <4>2
    <3>6. CASE ~ok
      <4>1. at'[p] = "done"
        BY <2>2, <3>1, <3>6
      <4>2. Knows(at[p], eval[p])'
        BY <4>1 DEF Knows
      <4> QED
        BY <2>3, <3>1, <4>2
    <3> QED
      BY <3>5, <3>6
  <2>9. ASSUME NEW p \in Promoters, ReadAgain(p) PROVE VetInv'
    <3> DEFINE ok == head[of[p]] = eval[p].cand /\ head[Main] = Expected(eval[p])
    <3>1. /\ at[p] = "again" /\ row' = row
          /\ at' = [at EXCEPT ![p] = IF ok THEN "merge" ELSE "done"]
          /\ eval' = [eval EXCEPT ![p] = IF ok THEN eval[p] ELSE NoEval]
      BY <2>9 DEF ReadAgain, Evaluate, At, store
    <3>2. Knows("again", eval[p])
      BY <3>1 DEF VetInv
    <3> HIDE DEF ok
    <3>3. CASE ok
      <4>1. at'[p] = "merge" /\ eval'[p] = eval[p]
        BY <2>2, <3>1, <3>3
      <4>2. Knows(at[p], eval[p])'
        BY <3>1, <3>2, <4>1 DEF Knows, Vets, DataGate, BaseGate, Expected
      <4> QED
        BY <2>3, <3>1, <4>2
    <3>4. CASE ~ok
      <4>1. at'[p] = "done"
        BY <2>2, <3>1, <3>4
      <4>2. Knows(at[p], eval[p])'
        BY <4>1 DEF Knows
      <4> QED
        BY <2>3, <3>1, <4>2
    <3> QED
      BY <3>3, <3>4
  <2>10. ASSUME NEW p \in Promoters, DoMerge(p) \/ FailMerge(p) PROVE VetInv'
    <3>1. PICK to \in {"done", "drop", "find"} : at' = [at EXCEPT ![p] = to]
      BY <2>10 DEF DoMerge, FailMerge, Evaluate, At
    <3>2. eval' = [eval EXCEPT ![p] = NoEval]
      BY <2>10 DEF DoMerge, FailMerge, Evaluate
    <3>3. Knows(at[p], eval[p])'
      BY <2>2, <3>1 DEF Knows
    <3> QED
      BY <2>3, <3>1, <3>2, <3>3
  <2> QED
    BY <1>4, <2>4, <2>5, <2>6, <2>7, <2>8, <2>9, <2>10 DEF PromoteStep
<1> QED
  BY <1>2, <1>3, <1>4 DEF Next

LEMMA MergeStep ==
    ASSUME TypeOK, OneInv, BoundInv, VetInv, MergeInv, [Next]_vars
    PROVE  MergeInv'
<1> USE Ranges
<1>1. ASSUME NEW e, Vets(e.from, e.run), MergeIsVetted(e)
      PROVE  (Vets(e.from, e.run) /\ MergeIsVetted(e))'
  <2>1. e.run \in Runs /\ at[e.run] = "done"
    BY <1>1 DEF Vets, BoundInv
  <2>2. row'[e.run] = row[e.run]
    BY <2>1, Finished
  <2> QED
    BY <1>1, <2>2 DEF Vets, MergeIsVetted
<1>2. CASE merges' = merges
  BY <1>1, <1>2 DEF MergeInv
<1>3. ASSUME NEW p \in Promoters, DoMerge(p) PROVE MergeInv'
  <2> DEFINE e == eval[p]
             new == [by |-> p, run |-> e.run, from |-> e.cand, onto |-> Expected(e),
                     into |-> head'[Main], eval |-> e, resets |-> resets]
  <2>1. merges' = merges \cup {new}
    BY <1>3 DEF DoMerge
  <2>2. /\ Vets(e.cand, e.run) /\ DataGate(e) /\ BaseGate(e)
        /\ e.fresh => \E d \in e.report : d.cand = e.cand /\ d.base = e.target
    BY <1>3 DEF DoMerge, At, VetInv, Knows
  <2>3. e.option.require => \E d \in e.report :
            d.verdict = "passed" /\ d.cand = e.cand /\ d.base = Expected(e)
    BY <2>2 DEF DataGate, BaseGate, OneInv
  <2>4. Vets(new.from, new.run) /\ MergeIsVetted(new)
    BY <2>2, <2>3 DEF MergeIsVetted, Vets
  <2>5. PICK f : f = new
    OBVIOUS
  <2> HIDE DEF new
  <2>6. (Vets(f.from, f.run) /\ MergeIsVetted(f))'
    BY <1>1, <2>4, <2>5
  <2> QED
    BY <1>1, <2>1, <2>5, <2>6 DEF MergeInv
<1>4. CASE PromoteStep
  BY <1>2, <1>3, <1>4
     DEF PromoteStep, StartPromote, EvalTarget, EvalRun, EvalEvidence, Gates, ReadAgain,
         FailMerge, Evaluate, history
<1>5. CASE CleanupStep
  BY <1>2, <1>5
     DEF CleanupStep, StartDelete, DropCatalog, DeleteBranch, FailCleanup, Forget, history
<1>6. CASE ProvisionStep \/ RunStep \/ AuditStep
  BY ZenonT(40), <1>2, <1>6
     DEF ProvisionStep, StartOn, ReadBase, CutBranch, TakeBranch, RecordSetup,
         StartOnMain, CreateCatalog, TakeCatalog, RefuseCatalog, UndoBranch,
         RunStep, Begin, Write, Note, Pass, Fail, ResolveRun, BindRun,
         AuditStep, StartAudit, ReadTarget, ReadVersions, Compare, history
<1>7. CASE OtherStep \/ UNCHANGED vars
  BY <1>2, <1>7 DEF OtherStep, Rollback, ForeignBranch, ForeignCatalog, vars, history
<1> QED
  BY <1>4, <1>5, <1>6, <1>7 DEF Next

-----------------------------------------------------------------------------
(***************************************************************************)
(* Catalogs.                                                               *)
(***************************************************************************)
\* phlo's catalog goes away in a cleanup only.
LEMMA CatalogBefore ==
    ASSUME TypeOK, [Next]_vars, NEW c \in Candidates, catalog'[c] # "phlo",
           c \notin dropped'
    PROVE  catalog[c] # "phlo" /\ c \notin dropped
<1> USE Ranges
<1>1. CASE catalog' = catalog /\ dropped' = dropped
  BY <1>1
<1>2. CASE ProvisionStep
  <2>1. ASSUME NEW r \in Runs, CreateCatalog(r)
        PROVE  catalog[c] # "phlo" /\ c \notin dropped
    BY <2>1 DEF CreateCatalog, TypeOK, history
  <2> QED
    BY <1>1, <1>2, <2>1
       DEF ProvisionStep, StartOn, ReadBase, CutBranch, TakeBranch, RecordSetup,
           StartOnMain, TakeCatalog, RefuseCatalog, UndoBranch, world, history
<1>3. CASE RunStep
  BY ZenonT(40), <1>1, <1>3
     DEF RunStep, Begin, Write, Note, Pass, Fail, ResolveRun, BindRun, world, history
<1>4. CASE AuditStep
  BY <1>1, <1>4 DEF AuditStep, StartAudit, ReadTarget, ReadVersions, Compare, world, history
<1>5. CASE PromoteStep
  BY <1>1, <1>5
     DEF PromoteStep, StartPromote, EvalTarget, EvalRun, EvalEvidence, Gates, ReadAgain,
         FailMerge, Evaluate, DoMerge, world, history
<1>6. CASE CleanupStep
  <2>1. ASSUME NEW x \in Cleaners, DropCatalog(x)
        PROVE  catalog[c] # "phlo" /\ c \notin dropped
    <3>1. c # of[x] /\ c \notin dropped
      BY <2>1 DEF DropCatalog
    <3> QED
      BY <2>1, <3>1 DEF DropCatalog, TypeOK
  <2> QED
    BY <1>1, <1>6, <2>1
       DEF CleanupStep, StartDelete, DeleteBranch, FailCleanup, Forget, world, history
<1>7. CASE OtherStep
  <2>1. ASSUME NEW k \in Candidates, ForeignCatalog(k)
        PROVE  catalog[c] # "phlo" /\ c \notin dropped
    BY <2>1 DEF ForeignCatalog, TypeOK, history
  <2> QED
    BY <1>1, <1>7, <2>1 DEF OtherStep, Rollback, ForeignBranch
<1>8. CASE UNCHANGED vars
  BY <1>1, <1>8 DEF vars, world, history
<1> QED
  BY <1>2, <1>3, <1>4, <1>5, <1>6, <1>7, <1>8 DEF Next

\* Runs are moved by their own steps.
LEMMA RunsStand ==
    ASSUME TypeOK,
           AuditStep \/ PromoteStep \/ CleanupStep \/ OtherStep \/ UNCHANGED vars
    PROVE  /\ prov' = prov
           /\ \A r \in Runs : at'[r] = at[r] /\ of'[r] = of[r]
           /\ \A c \in Candidates : setup'[c] \subseteq setup[c]
<1> USE Ranges
<1>0. prov' = prov /\ \A c \in Candidates : setup'[c] \subseteq setup[c]
  <2>1. CASE AuditStep
    BY <2>1 DEF AuditStep, StartAudit, ReadTarget, ReadVersions, Compare, store
  <2>2. CASE PromoteStep
    BY <2>2
       DEF PromoteStep, StartPromote, EvalTarget, EvalRun, EvalEvidence, Gates, ReadAgain,
           FailMerge, Evaluate, DoMerge, store
  <2>3. CASE CleanupStep
    <3>1. ASSUME NEW x \in Cleaners, Forget(x)
          PROVE  prov' = prov /\ \A c \in Candidates : setup'[c] \subseteq setup[c]
      BY <3>1 DEF Forget, TypeOK
    <3> QED
      BY <2>3, <3>1
         DEF CleanupStep, StartDelete, DropCatalog, DeleteBranch, FailCleanup, store, mine
  <2>4. CASE OtherStep \/ UNCHANGED vars
    BY <2>4
       DEF OtherStep, Rollback, ForeignBranch, ForeignCatalog, vars, process, mine, store
  <2> QED
    BY <2>1, <2>2, <2>3, <2>4
<1> SUFFICES ASSUME NEW r \in Runs PROVE at'[r] = at[r] /\ of'[r] = of[r]
  BY <1>0
<1> r \in Processes /\ r \notin Auditors /\ r \notin Cleaners /\ r \notin Deleters
    /\ r \notin Promoters
  BY ProcessAssumption DEF Cleaners
<1>1. ASSUME NEW x \in Processes, x # r, NEW from, NEW to, At(x, from, to)
      PROVE  at'[r] = at[r]
  BY <1>1 DEF At, TypeOK
<1>2. CASE AuditStep
  <2>1. ASSUME NEW a \in Auditors, NEW c, StartAudit(a, c)
        PROVE  at'[r] = at[r] /\ of'[r] = of[r]
    BY <1>1, <2>1 DEF StartAudit, Starts, TypeOK, store
  <2>2. ASSUME NEW a \in Auditors, NEW verdict,
               ReadTarget(a) \/ ReadVersions(a) \/ Compare(a, verdict)
        PROVE  at'[r] = at[r] /\ of'[r] = of[r]
    BY <1>1, <2>2 DEF ReadTarget, ReadVersions, Compare, store
  <2> QED
    BY <1>2, <2>1, <2>2 DEF AuditStep
<1>3. CASE PromoteStep
  <2>1. ASSUME NEW p \in Promoters, NEW c, StartPromote(p, c)
        PROVE  at'[r] = at[r] /\ of'[r] = of[r]
    BY <1>1, <2>1 DEF StartPromote, Starts, TypeOK, store
  <2>2. ASSUME NEW p \in Promoters, NEW from, NEW ok, NEW to, NEW e,
               Evaluate(p, from, ok, to, e)
        PROVE  at'[r] = at[r] /\ of'[r] = of[r]
    BY <1>1, <2>2 DEF Evaluate, store
  <2>3. ASSUME NEW p \in Promoters, NEW option,
               \/ EvalTarget(p) \/ EvalRun(p) \/ EvalEvidence(p) \/ Gates(p, option)
               \/ ReadAgain(p) \/ FailMerge(p)
        PROVE  at'[r] = at[r] /\ of'[r] = of[r]
    BY <2>2, <2>3 DEF EvalTarget, EvalRun, EvalEvidence, Gates, ReadAgain, FailMerge
  <2>4. ASSUME NEW p \in Promoters, DoMerge(p)
        PROVE  at'[r] = at[r] /\ of'[r] = of[r]
    BY <1>1, <2>4 DEF DoMerge, store
  <2> QED
    BY <1>3, <2>1, <2>3, <2>4 DEF PromoteStep
<1>4. CASE CleanupStep
  <2>1. ASSUME NEW x \in Deleters, NEW c, StartDelete(x, c)
        PROVE  at'[r] = at[r] /\ of'[r] = of[r]
    BY <1>1, <2>1 DEF StartDelete, Starts, TypeOK, store, mine
  <2>2. ASSUME NEW x \in Cleaners,
               DropCatalog(x) \/ DeleteBranch(x) \/ FailCleanup(x) \/ Forget(x)
        PROVE  at'[r] = at[r] /\ of'[r] = of[r]
    BY <1>1, <2>2 DEF DropCatalog, DeleteBranch, FailCleanup, Forget
  <2> QED
    BY <1>4, <2>1, <2>2 DEF CleanupStep
<1>5. CASE OtherStep \/ UNCHANGED vars
  BY <1>5
     DEF OtherStep, Rollback, ForeignBranch, ForeignCatalog, vars, process, mine, store
<1> QED
  BY <1>2, <1>3, <1>4, <1>5

LEMMA CatalogStep ==
    ASSUME TypeOK, CatalogInv, NewInv, [Next]_vars
    PROVE  CatalogInv' /\ NewInv'
<1> USE Ranges
<1> DEFINE Plain(c) == \A s \in setup[c] : ~s.owned /\ ~s.binding
           Away(c, r) == of[r] = c =>
                /\ \A s \in prov[r].prior : ~s.owned /\ ~s.binding
                /\ ~prov[r].created
                /\ at[r] \notin {"record", "ready", "running", "bind", "binding"}
           Free(c) == catalog[c] # "phlo" /\ c \notin dropped
           New(r) == at[r] = "idle" => ~prov[r].created
<1>1. ASSUME NEW c \in Candidates, Free(c)'
      PROVE  Free(c) /\ Plain(c) /\ \A r \in Runs : Away(c, r)
  BY <1>1, CatalogBefore DEF CatalogInv
<1>2. \A r \in Runs : New(r)
  BY DEF NewInv
<1>3. ASSUME \A c \in Candidates : Free(c)' =>
                Plain(c)' /\ \A r \in Runs : Away(c, r)',
             \A r \in Runs : New(r)'
      PROVE  CatalogInv' /\ NewInv'
  BY <1>3 DEF CatalogInv, NewInv
<1>4. CASE AuditStep \/ PromoteStep \/ CleanupStep \/ OtherStep \/ UNCHANGED vars
  <2>1. /\ prov' = prov
        /\ \A r \in Runs : at'[r] = at[r] /\ of'[r] = of[r]
        /\ \A c \in Candidates : setup'[c] \subseteq setup[c]
    BY <1>4, RunsStand
  <2> QED
    BY <1>1, <1>2, <1>3, <2>1
\* A step of one run or creator x, that leaves the others and the records alone.
<1>5. ASSUME NEW x \in Provisioners, setup' = setup,
             \A r \in Runs : r # x =>
                at'[r] = at[r] /\ of'[r] = of[r] /\ prov'[r] = prov[r],
             x \in Runs => New(x)' /\ \A c \in Candidates : Free(c)' => Away(c, x)'
      PROVE  CatalogInv' /\ NewInv'
  <2>1. ASSUME NEW c \in Candidates, Free(c)', NEW r \in Runs PROVE Away(c, r)'
    <3>1. CASE r = x
      BY <1>5, <2>1, <3>1
    <3>2. CASE r # x
      BY <1>1, <1>5, <2>1, <3>2
    <3> QED
      BY <3>1, <3>2
  <2>2. \A r \in Runs : New(r)'
    BY <1>2, <1>5
  <2>3. \A c \in Candidates : Free(c)' => Plain(c)'
    BY <1>1, <1>5
  <2> QED
    BY <1>3, <2>1, <2>2, <2>3
<1>6. at \in [Processes -> Place] /\ of \in [Processes -> Refs]
      /\ prov \in [Provisioners -> Prov]
  BY DEF TypeOK
<1>7. CASE RunStep
  <2>1. ASSUME NEW r \in Runs, NEW from \in {"ready", "running", "bind", "binding"},
               NEW to, to # "idle", At(r, from, to), of' = of, prov' = prov, setup' = setup
        PROVE  CatalogInv' /\ NewInv'
    <3>1. at'[r] # "idle" /\ \A q \in Runs : q # r => at'[q] = at[q]
      BY <1>6, <2>1 DEF At
    <3>2. \A c \in Candidates : Free(c)' => Away(c, r)'
      BY <1>1, <2>1 DEF At
    <3> QED
      BY <1>5, <2>1, <3>1, <3>2
  <2>2. ASSUME NEW r \in Runs, NEW selected, NEW reused, Begin(r, selected, reused)
        PROVE  CatalogInv' /\ NewInv'
    BY <2>1, <2>2 DEF Begin, mine
  <2>3. ASSUME NEW r \in Runs, NEW tests, Pass(r, tests) PROVE CatalogInv' /\ NewInv'
    BY <2>1, <2>3 DEF Pass, mine
  <2>4. ASSUME NEW r \in Runs, Fail(r) PROVE CatalogInv' /\ NewInv'
    BY <2>1, <2>4 DEF Fail, mine
  <2>5. ASSUME NEW r \in Runs, ResolveRun(r) PROVE CatalogInv' /\ NewInv'
    <3>1. PICK to \in {"done", "binding"} : At(r, "bind", to)
      BY <2>5 DEF ResolveRun
    <3> QED
      BY <2>1, <2>5, <3>1 DEF ResolveRun, store
  <2>6. ASSUME NEW r \in Runs, BindRun(r) PROVE CatalogInv' /\ NewInv'
    BY <2>1, <2>6 DEF BindRun
  <2>7. ASSUME NEW r \in Runs, NEW m \in Models, Write(r, m) \/ Note(r, m)
        PROVE  CatalogInv' /\ NewInv'
    <3>1. at' = at /\ of' = of /\ prov' = prov /\ setup' = setup
      BY <2>7 DEF Write, Note, process, mine
    <3> QED
      BY <1>1, <1>2, <1>3, <3>1
  <2> QED
    BY <1>7, <2>2, <2>3, <2>4, <2>5, <2>6, <2>7 DEF RunStep
<1>8. CASE ProvisionStep
  <2>1. ASSUME NEW x \in Provisioners, NEW c \in Candidates, StartOn(x, c)
        PROVE  CatalogInv' /\ NewInv'
    <3>1. /\ setup' = setup /\ at' = [at EXCEPT ![x] = "base"]
          /\ of' = [of EXCEPT ![x] = c] /\ at[x] = "idle"
          /\ \A r \in Runs : r # x => prov'[r] = prov[r]
      BY <1>6, <2>1 DEF StartOn, Starts, At, store
    <3>2. ASSUME x \in Runs
          PROVE  New(x)' /\ \A k \in Candidates : Free(k)' => Away(k, x)'
      <4>1. at'[x] = "base" /\ of'[x] = c
        BY <1>6, <3>1
      <4>2. prov'[x].prior = setup[c] /\ prov'[x].created = prov[x].created
        BY <1>6, <2>1, <3>2 DEF StartOn, Prov
      <4> QED
        BY <1>1, <1>2, <3>1, <3>2, <4>1, <4>2
    <3> QED
      BY <1>5, <1>6, <3>1, <3>2
  <2>2. ASSUME NEW x \in Provisioners, NEW from, NEW to, from # "idle",
               to \notin {"idle", "record", "ready", "running", "bind", "binding"}
               \/ x \notin Runs,
               At(x, from, to), of' = of, setup' = setup,
               \A r \in Runs : r # x => prov'[r] = prov[r],
               x \in Runs => \/ prov'[x].prior = {} /\ ~prov'[x].created
                             \/ /\ prov'[x].prior = prov[x].prior
                                /\ prov'[x].created = prov[x].created
        PROVE  CatalogInv' /\ NewInv'
    <3>1. at[x] = from /\ at' = [at EXCEPT ![x] = to]
      BY <2>2 DEF At
    <3>2. ASSUME x \in Runs
          PROVE  New(x)' /\ \A k \in Candidates : Free(k)' => Away(k, x)'
      BY <1>1, <1>6, <2>2, <3>1, <3>2
    <3> QED
      BY <1>5, <1>6, <2>2, <3>1, <3>2
  <2>3. ASSUME NEW x \in Provisioners, ReadBase(x) PROVE CatalogInv' /\ NewInv'
    <3>1. /\ \A r \in Runs : r # x => prov'[r] = prov[r]
          /\ prov'[x].prior = prov[x].prior /\ prov'[x].created = prov[x].created
      BY <1>6, <2>3 DEF ReadBase, Prov
    <3> QED
      BY <2>2, <2>3, <3>1 DEF ReadBase, store
  <2>4. ASSUME NEW x \in Provisioners, CutBranch(x) PROVE CatalogInv' /\ NewInv'
    <3>1. /\ \A r \in Runs : r # x => prov'[r] = prov[r]
          /\ prov'[x].prior = prov[x].prior /\ prov'[x].created = prov[x].created
      BY <1>6, <2>4 DEF CutBranch, Prov
    <3>2. PICK to : At(x, "branch", to) /\ (to = "catalog" \/ x \notin Runs)
      BY <2>4 DEF CutBranch
    <3>3. to \notin {"idle", "record", "ready", "running", "bind", "binding"}
          \/ x \notin Runs
      BY <3>2
    <3> QED
      BY <2>2, <2>4, <3>1, <3>2, <3>3 DEF CutBranch, store
  <2>5. ASSUME NEW x \in Provisioners, TakeBranch(x) PROVE CatalogInv' /\ NewInv'
    <3>1. /\ \A r \in Runs : r # x => prov'[r] = prov[r]
          /\ x \in Runs => prov' = prov
      BY <1>6, <2>5 DEF TakeBranch
    <3>2. PICK to : At(x, "branch", to) /\ (to = "catalog" \/ x \notin Runs)
      BY <2>5 DEF TakeBranch
    <3>3. to \notin {"idle", "record", "ready", "running", "bind", "binding"}
          \/ x \notin Runs
      BY <3>2
    <3> QED
      BY <2>2, <2>5, <3>1, <3>2, <3>3 DEF TakeBranch, store
  <2>6. ASSUME NEW r \in Runs, RefuseCatalog(r) \/ UndoBranch(r)
        PROVE  CatalogInv' /\ NewInv'
    <3>1. /\ \A q \in Runs : q # r => prov'[q] = prov[q]
          /\ prov'[r] = prov[r] \/ prov'[r] = NoProv
      BY <1>6, <2>6 DEF RefuseCatalog, UndoBranch
    <3>2. NoProv.prior = {} /\ ~NoProv.created
      BY DEF NoProv
    <3>3. PICK from \in {"catalog", "undo"}, to \in {"undo", "done"} : At(r, from, to)
      BY <2>6 DEF RefuseCatalog, UndoBranch
    <3>4. of' = of /\ setup' = setup
      BY <2>6 DEF RefuseCatalog, UndoBranch, store
    <3> QED
      BY <2>2, <3>1, <3>2, <3>3, <3>4
  <2>7. ASSUME NEW r \in Runs, StartOnMain(r) PROVE CatalogInv' /\ NewInv'
    <3>1. /\ setup' = setup /\ prov' = prov /\ at' = [at EXCEPT ![r] = "ready"]
          /\ of' = [of EXCEPT ![r] = Main] /\ Main \notin Candidates
      BY <2>7, NameAssumption DEF StartOnMain, Starts, At, store, mine
    <3> QED
      BY <1>5, <1>6, <3>1
  <2>8. ASSUME NEW r \in Runs, CreateCatalog(r) PROVE CatalogInv' /\ NewInv'
    <3>1. /\ setup' = setup /\ at' = [at EXCEPT ![r] = "record"] /\ of' = of
          /\ catalog' = [catalog EXCEPT ![of[r]] = "phlo"]
          /\ \A q \in Runs : q # r => prov'[q] = prov[q]
      BY <1>6, <2>8 DEF CreateCatalog, At, store
    <3>2. \A c \in Candidates : Free(c)' => Away(c, r)'
      BY <3>1 DEF TypeOK
    <3> QED
      BY <1>5, <1>6, <3>1, <3>2
  <2>9. ASSUME NEW r \in Runs, TakeCatalog(r) PROVE CatalogInv' /\ NewInv'
    <3>1. /\ setup' = setup /\ at' = [at EXCEPT ![r] = "record"] /\ of' = of
          /\ prov' = prov
      BY <2>9 DEF TakeCatalog, At, store, mine
    <3>2. PICK s \in prov[r].prior : s.binding
      BY <2>9 DEF TakeCatalog, Vouched
    <3>3. \A c \in Candidates : Free(c)' => of[r] # c
      BY <1>1, <3>2
    <3> QED
      BY <1>5, <1>6, <3>1, <3>3
  <2>10. ASSUME NEW x \in Provisioners, RecordSetup(x) PROVE CatalogInv' /\ NewInv'
    <3>1. /\ at[x] = "record" /\ of' = of
          /\ at' = [at EXCEPT ![x] = IF x \in Runs THEN "ready" ELSE "done"]
          /\ setup' = [setup EXCEPT ![of[x]] = {Provisioned(x)}]
          /\ \A r \in Runs : r # x => prov'[r] = prov[r]
      BY <1>6, <2>10 DEF RecordSetup, At
    <3>2. ASSUME NEW c \in Candidates, Free(c)' PROVE Plain(c)'
      <4>1. CASE c # of[x]
        BY <1>1, <3>1, <3>2, <4>1 DEF TypeOK
      <4>2. CASE c = of[x]
        <5>1. x \notin Runs
          BY <1>1, <3>1, <3>2, <4>2
        <5>2. ~Provisioned(x).owned /\ ~Provisioned(x).binding
          BY <5>1 DEF Provisioned
        <5>3. setup'[c] = {Provisioned(x)}
          BY <3>1, <3>2, <4>2 DEF TypeOK
        <5> QED
          BY <5>2, <5>3
      <4> QED
        BY <4>1, <4>2
    <3>3. ASSUME NEW c \in Candidates, Free(c)', NEW r \in Runs PROVE Away(c, r)'
      <4>1. CASE r = x
        BY <1>1, <1>6, <3>1, <3>3, <4>1
      <4>2. CASE r # x
        BY <1>1, <1>6, <3>1, <3>3, <4>2
      <4> QED
        BY <4>1, <4>2
    <3>4. \A r \in Runs : New(r)'
      BY <1>2, <1>6, <3>1
    <3> QED
      BY <1>3, <3>2, <3>3, <3>4
  <2> QED
    BY <1>8, <2>1, <2>3, <2>4, <2>5, <2>6, <2>7, <2>8, <2>9, <2>10 DEF ProvisionStep
<1> QED
  BY <1>4, <1>7, <1>8 DEF Next

-----------------------------------------------------------------------------
(***************************************************************************)
(* What moves, and what was known of it: the second invariant.             *)
(***************************************************************************)
\* Commits contain themselves, and all their parts contain.
HistoryInv ==
    /\ \A n \in 1..Len(commits) :
        /\ n \in commits[n].contains
        /\ \A k \in commits[n].contains : commits[k].contains \subseteq commits[n].contains
    /\ head[Main] # None

\* Every hash that is held is that of a commit.
Hash(n) == n \in 0..Len(commits)
HashInv ==
    /\ \A r \in Runs : Hash(held[r]) /\ Hash(row[r].bound)
    /\ \A x \in Provisioners : Hash(prov[x].cut)
    /\ \A a \in Auditors : Hash(look[a].cand) /\ Hash(look[a].base)
    /\ \A c \in Candidates : \A d \in report[c] : Hash(d.cand) /\ Hash(d.base)
    /\ \A p \in Promoters :
        /\ Hash(eval[p].cand)
        /\ \A d \in eval[p].report : Hash(d.cand) /\ Hash(d.base)
    /\ \A e \in merges : Hash(e.from) /\ Hash(e.onto) /\ Hash(e.into)

\* Who has not begun knows nothing; who undoes a branch made it; who cleans up
\* after a promotion merged.
PhaseInv ==
    /\ \A x \in Provisioners : at[x] = "idle" => prov[x] = NoProv
    /\ \A x \in Provisioners : at[x] \in {"base", "branch"} => prov[x].cut = None
    /\ \A x \in Provisioners : at[x] = "undo" => prov[x].cut # None
    /\ \A p \in Promoters : at[p] = "idle" => eval[p].report = {} /\ eval[p].setup = {}
    /\ \A p \in Promoters : at[p] \in {"drop", "find"} => \E e \in merges : e.by = p
    /\ \A e \in merges : at[e.by] # "idle" /\ of[e.by] \in Candidates

\* Unless references were set back, Main keeps what it had, and what was merged.
Behind(n) == n = None \/ n \in Contains(head[Main])
MainInv == resets = 0 =>
    /\ \A x \in Provisioners : Behind(prov[x].base)
    /\ \A e \in merges : Contains(e.from) \subseteq Contains(head[Main])

\* What a candidate has that Main does not is younger than any branch of it.
CutInv == resets = 0 =>
    \A x \in Provisioners : prov[x].cut # None =>
        \A n \in Contains(head[of[x]]) : n <= prov[x].cut => Behind(n)

\* The commits records say the branch of a candidate was cut from, those on
\* their way into a record or out of one included.
On(c, processes) == {x \in processes : of[x] = c}
Records(c) == setup[c] \cup (UNION {prov[x].prior : x \in On(c, Provisioners)})
                       \cup (UNION {eval[p].setup : p \in On(c, Promoters)})
Claims(c) == {s.from : s \in Records(c)}
    \cup {prov[x].base : x \in {y \in On(c, Provisioners) : prov[y].cut # None}}
ClaimInv == resets = 0 =>
    \A c \in Candidates : \A n \in Claims(c) : n # None =>
        /\ made[c] # "never"
        /\ n \in Contains(head[Main])
        /\ made[c] = "afresh" /\ head[c] # None => n \in Contains(head[c])
MadeInv == resets = 0 =>
    \A c \in Candidates : made[c] = "never" => head[c] = None

\* A report that found no break is right of the commits it names, or they are
\* not where the references are, or there is nothing to merge.
Seen(c, d) ==
    \/ d.breaks \/ ~Breaks(TablesAt(d.cand), TablesAt(d.base))
    \/ head[Main] # d.base \/ head[c] # d.cand \/ Behind(d.cand)
SeenInv == resets = 0 => \A c \in Candidates :
    /\ \A d \in report[c] : Seen(c, d)
    /\ \A p \in Promoters : of[p] = c => \A d \in eval[p].report : Seen(c, d)

\* What a promotion that is about to merge knows for good.
NoBreak(e, onto) ==
    \/ e.option.waive \/ ~Breaks(TablesAt(e.cand), TablesAt(onto))
    \/ e.cand \in Contains(onto)
FromOrigin(c, e, onto) ==
    e.report = {} /\ made[c] # "behind" => onto \in Contains(e.cand)
EndInv ==
    /\ \A p \in Promoters : at[p] = "again" => SchemaGate(eval[p])
    /\ \A p \in Promoters : at[p] = "merge" /\ resets = 0 =>
        /\ Hash(Expected(eval[p]))
        /\ NoBreak(eval[p], Expected(eval[p]))
        /\ FromOrigin(of[p], eval[p], Expected(eval[p]))
    /\ NoUnseenBreak /\ ProvenanceHolds

\* A run that is alone on its reference finds there what it says it left.
Holds(n, w, tables) == \A m \in tables : TablesAt(n)[m] = w.stands[m]
AloneInv == \A r \in Runs : LET w == row[r] IN
    /\ at[r] = "running" => w.wrote \subseteq w.todo /\ \A m \in w.todo : w.stands[m] = r
    /\ at[r] = "bind" => w.todo = {} /\ w.wrote = {}
    /\ r \in alone =>
        /\ at[r] \in {"running", "bind"} =>
            Holds(head[of[r]], w, (w.selected \ w.todo) \cup w.wrote)
        /\ at[r] = "binding" => Holds(held[r], w, w.selected)
        /\ w.bound # None => Holds(w.bound, w, w.selected)

HInv == /\ HistoryInv /\ HashInv /\ PhaseInv /\ MainInv /\ CutInv
        /\ ClaimInv /\ MadeInv /\ SeenInv /\ EndInv /\ AloneInv

\* The steps that move a reference.
MoveStep ==
    \/ \E x \in Provisioners : CutBranch(x)
    \/ \E r \in Runs : UndoBranch(r)
    \/ \E r \in Runs, m \in Models : Write(r, m)
    \/ \E p \in Promoters : DoMerge(p)
    \/ \E x \in Cleaners : DeleteBranch(x)
    \/ \E ref \in Refs, n \in 1..Len(commits) : Rollback(ref, n)
    \/ \E c \in Candidates, n \in 1..Len(commits) : ForeignBranch(c, n)

LEMMA StillStep ==
    ASSUME [Next]_vars, ~MoveStep
    PROVE  commits' = commits /\ head' = head /\ made' = made /\ resets' = resets
           /\ merges' = merges
<1>1. CASE ProvisionStep
  BY <1>1
     DEF ProvisionStep, MoveStep, StartOn, ReadBase, TakeBranch, RecordSetup,
         StartOnMain, CreateCatalog, TakeCatalog, RefuseCatalog, world, history
<1>2. CASE RunStep
  BY ZenonT(40), <1>2
     DEF RunStep, MoveStep, Begin, Note, Pass, Fail, ResolveRun, BindRun, world, history
<1>3. CASE AuditStep
  BY <1>3 DEF AuditStep, StartAudit, ReadTarget, ReadVersions, Compare, world, history
<1>4. CASE PromoteStep
  BY <1>4
     DEF PromoteStep, MoveStep, StartPromote, EvalTarget, EvalRun, EvalEvidence, Gates,
         ReadAgain, FailMerge, Evaluate, world, history
<1>5. CASE CleanupStep
  BY <1>5
     DEF CleanupStep, MoveStep, StartDelete, DropCatalog, FailCleanup, Forget, world,
         history
<1>6. CASE OtherStep
  BY <1>6 DEF OtherStep, MoveStep, ForeignCatalog, world, history
<1>7. CASE UNCHANGED vars
  BY <1>7 DEF vars, world, history
<1> QED
  BY <1>1, <1>2, <1>3, <1>4, <1>5, <1>6, <1>7 DEF Next

\* A new commit is added after the others.
LEMMA PutAppends ==
    ASSUME TypeOK, NEW ref \in Refs, NEW tables, NEW contained, Put(ref, tables, contained)
    PROVE  LET n == Len(commits) + 1
           IN  /\ Len(commits') = n
               /\ \A k \in 1..Len(commits) : commits'[k] = commits[k]
               /\ commits'[n].tables = tables /\ commits'[n].contains = contained \cup {n}
               /\ head' = [head EXCEPT ![ref] = n] /\ head'[ref] = n
<1> DEFINE n == Len(commits) + 1
           c == [tables |-> tables, contains |-> contained \cup {n}]
<1>1. c.tables = tables /\ c.contains = contained \cup {n}
  OBVIOUS
<1>2. commits' = Append(commits, c) /\ head' = [head EXCEPT ![ref] = n]
  BY DEF Put
<1> HIDE DEF c
<1>3. commits \in Seq(Commit)
  BY DEF TypeOK
<1>4. commits \in Seq(Commit \cup {c}) /\ c \in Commit \cup {c}
  BY <1>3
<1>5. /\ Len(commits') = n /\ commits'[n] = c
      /\ \A k \in 1..Len(commits) : commits'[k] = commits[k]
  BY <1>2, <1>4, AppendProperties
<1>6. head'[ref] = n
  BY <1>2 DEF TypeOK
<1> QED
  BY <1>1, <1>2, <1>5, <1>6

LEMMA CommitsStay ==
    ASSUME TypeOK, [Next]_vars
    PROVE  /\ Len(commits) \in Nat /\ Len(commits') \in Nat
           /\ Len(commits) <= Len(commits')
           /\ \A n \in 0..Len(commits) :
                Contains(n)' = Contains(n) /\ TablesAt(n)' = TablesAt(n)
<1> USE Ranges
<1>1. CASE commits' = commits
  BY <1>1 DEF Contains, TablesAt
<1>2. ASSUME NEW ref \in Refs, NEW tables, NEW contained, Put(ref, tables, contained)
      PROVE  /\ Len(commits') \in Nat /\ Len(commits) <= Len(commits')
             /\ \A n \in 0..Len(commits) :
                Contains(n)' = Contains(n) /\ TablesAt(n)' = TablesAt(n)
  <2>1. Len(commits') = Len(commits) + 1
        /\ \A k \in 1..Len(commits) : commits'[k] = commits[k]
    BY <1>2, PutAppends
  <2>2. ASSUME NEW n \in 0..Len(commits)
        PROVE  Contains(n)' = Contains(n) /\ TablesAt(n)' = TablesAt(n)
    <3>1. n = None \/ n \in 1..Len(commits)
      BY DEF None
    <3> QED
      BY <2>1, <3>1 DEF Contains, TablesAt
  <2> QED
    BY <2>1, <2>2
<1>3. CASE \E r \in Runs, m \in Models : Write(r, m)
  <2>1. PICK r \in Runs, m \in Models : Write(r, m)
    BY <1>3
  <2>2. of[r] \in Refs
    BY DEF TypeOK
  <2> QED
    BY <1>2, <2>1, <2>2 DEF Write
<1>4. CASE \E p \in Promoters : DoMerge(p)
  BY <1>1, <1>2, <1>4 DEF DoMerge
<1>5. CASE ~(\E r \in Runs, m \in Models : Write(r, m)) /\ ~(\E p \in Promoters : DoMerge(p))
  <2>1. commits' = commits
    BY <1>5, StillStep
       DEF MoveStep, CutBranch, UndoBranch, DeleteBranch, Rollback, ForeignBranch
  <2> QED
    BY <1>1, <2>1
<1> QED
  BY <1>3, <1>4, <1>5

\* Where a merge or a build puts a reference, nothing it had is missing.
LEMMA PutHistory ==
    ASSUME TypeOK, HistoryInv, NEW ref \in Refs, NEW tables,
           NEW contained \in SUBSET (1..Len(commits)), Put(ref, tables, contained),
           \A k \in contained : commits[k].contains \subseteq contained
    PROVE  HistoryInv'
<1> USE Ranges
<1> DEFINE n == Len(commits) + 1
<1>1. /\ Len(commits') = n /\ \A k \in 1..Len(commits) : commits'[k] = commits[k]
      /\ commits'[n].contains = contained \cup {n}
      /\ head' = [head EXCEPT ![ref] = n]
  BY PutAppends
<1>2. ASSUME NEW j \in 1..n
      PROVE  /\ j \in commits'[j].contains
             /\ \A k \in commits'[j].contains : commits'[k].contains \subseteq commits'[j].contains
  <2>1. CASE j = n
    <3>1. \A k \in contained : k \in 1..Len(commits) /\ commits'[k] = commits[k]
      BY <1>1
    <3> QED
      BY <1>1, <2>1, <3>1
  <2>2. CASE j # n
    <3>1. j \in 1..Len(commits) /\ commits'[j] = commits[j]
      BY <1>1, <2>2
    <3>2. commits[j].contains \subseteq 1..j
      BY <3>1 DEF TypeOK
    <3>3. \A k \in 1..j : k \in 1..Len(commits) /\ commits'[k] = commits[k]
      BY <1>1, <3>1
    <3> QED
      BY <3>1, <3>2, <3>3 DEF HistoryInv
  <2> QED
    BY <2>1, <2>2
<1>3. head'[Main] # None
  BY <1>1 DEF TypeOK, HistoryInv, None
<1> QED
  BY <1>1, <1>2, <1>3 DEF HistoryInv

\* What a commit contains contains no more.
LEMMA Within ==
    ASSUME TypeOK, HistoryInv, NEW n \in 0..Len(commits), NEW k \in Contains(n)
    PROVE  /\ k \in 1..Len(commits) /\ n \in 1..Len(commits)
           /\ Contains(k) \subseteq Contains(n) /\ k \in Contains(k)
<1> USE Ranges
<1>1. n # None /\ n \in 1..Len(commits) /\ k \in commits[n].contains
  BY DEF Contains, None
<1>2. k \in 1..Len(commits)
  BY <1>1, CommitTypes
<1>3. k # None
  BY <1>2 DEF None
<1> QED
  BY <1>1, <1>2, <1>3 DEF Contains, HistoryInv

LEMMA HistoryStep ==
    ASSUME TypeOK, PlaceInv, HistoryInv, [Next]_vars
    PROVE  HistoryInv'
<1> USE Ranges
<1>1. ASSUME commits' = commits, head'[Main] # None PROVE HistoryInv'
  BY <1>1 DEF HistoryInv
<1>2. ASSUME NEW c \in Candidates, NEW n, head' = [head EXCEPT ![c] = n]
      PROVE  head'[Main] # None
  BY <1>2, NameAssumption DEF TypeOK, HistoryInv
<1>3. ASSUME NEW x \in Provisioners, CutBranch(x) PROVE HistoryInv'
  <2>1. of[x] \in Candidates /\ commits' = commits
    BY <1>3 DEF CutBranch, At, PlaceInv, Isolated
  <2> QED
    BY <1>1, <1>2, <1>3, <2>1 DEF CutBranch
<1>4. ASSUME NEW r \in Runs, UndoBranch(r) PROVE HistoryInv'
  <2>1. of[r] \in Candidates /\ commits' = commits
    BY <1>4 DEF UndoBranch, At, PlaceInv, Isolated
  <2> QED
    BY <1>1, <1>2, <1>4, <2>1 DEF UndoBranch
<1>5. ASSUME NEW r \in Runs, NEW m \in Models, Write(r, m) PROVE HistoryInv'
  <2> DEFINE contained == Contains(head[of[r]])
  <2>1. of[r] \in Refs /\ head[of[r]] \in 0..Len(commits)
    BY DEF TypeOK
  <2>2. contained \in SUBSET (1..Len(commits))
    BY <2>1, CommitTypes
  <2>3. \A k \in contained : commits[k].contains \subseteq contained
    <3> SUFFICES ASSUME NEW k \in contained PROVE commits[k].contains \subseteq contained
      OBVIOUS
    <3>1. Contains(k) \subseteq contained /\ k \in 1..Len(commits)
      BY <2>1, Within
    <3> QED
      BY <3>1 DEF Contains, None
  <2> HIDE DEF contained
  <2>4. Put(of[r], [TablesAt(head[of[r]]) EXCEPT ![m] = r], contained)
    BY <1>5 DEF Write, contained
  <2> QED
    BY <2>1, <2>2, <2>3, <2>4, PutHistory
<1>6. ASSUME NEW p \in Promoters, DoMerge(p) PROVE HistoryInv'
  <2> DEFINE e == eval[p]
             onto == Expected(e)
             contained == Contains(onto) \cup Contains(e.cand)
  <2>1. CASE e.cand \in Contains(onto)
    BY <1>1, <1>6, <2>1 DEF DoMerge, HistoryInv
  <2>2. CASE e.cand \notin Contains(onto)
    <3>1. onto \in 0..Len(commits) /\ e.cand \in Contains(head[of[p]])
          /\ head[of[p]] \in 0..Len(commits)
      BY <1>6 DEF DoMerge, TypeOK
    <3>2. e.cand \in 0..Len(commits)
      BY <3>1, Within
    <3>3. contained \in SUBSET (1..Len(commits))
      BY <3>1, <3>2, CommitTypes
    <3>4. \A k \in contained : commits[k].contains \subseteq contained
      <4> SUFFICES ASSUME NEW k \in contained PROVE commits[k].contains \subseteq contained
        OBVIOUS
      <4>1. Contains(k) \subseteq contained /\ k \in 1..Len(commits)
        BY <3>1, <3>2, Within
      <4> QED
        BY <4>1 DEF Contains, None
    <3> HIDE DEF contained
    <3>5. Put(Main, MergedTables(e.cand, onto), contained)
      BY <1>6, <2>2 DEF DoMerge, contained
    <3> QED
      BY <3>3, <3>4, <3>5, PutHistory
  <2> QED
    BY <2>1, <2>2
<1>7. ASSUME NEW x \in Cleaners, DeleteBranch(x) PROVE HistoryInv'
  <2>1. of[x] \in Candidates /\ commits' = commits
    BY <1>7 DEF DeleteBranch, At, PlaceInv, Isolated
  <2> QED
    BY <1>1, <1>2, <1>7, <2>1 DEF DeleteBranch
<1>8. ASSUME NEW ref \in Refs, NEW n \in 1..Len(commits), Rollback(ref, n) PROVE HistoryInv'
  <2>1. head'[Main] # None /\ commits' = commits
    BY <1>8 DEF Rollback, TypeOK, HistoryInv, None
  <2> QED
    BY <1>1, <2>1
<1>9. ASSUME NEW c \in Candidates, NEW n \in 1..Len(commits), ForeignBranch(c, n)
      PROVE  HistoryInv'
  BY <1>1, <1>2, <1>9 DEF ForeignBranch
<1>10. CASE ~MoveStep
  BY <1>1, <1>10, StillStep DEF HistoryInv
<1> QED
  BY <1>3, <1>4, <1>5, <1>6, <1>7, <1>8, <1>9, <1>10 DEF MoveStep

\* Main stays, or moves to a new commit that has all it had.
LEMMA MainStep ==
    ASSUME TypeOK, PlaceInv, HistoryInv, [Next]_vars, resets' = 0
    PROVE  /\ resets = 0
           /\ \/ head'[Main] = head[Main]
              \/ head'[Main] = Len(commits) + 1
           /\ Contains(head[Main]) \subseteq Contains(head[Main])'
           /\ \A n \in 0..Len(commits) : Behind(n) => Behind(n)'
<1> USE Ranges
<1>1. ASSUME /\ resets' = 0 => resets = 0
             /\ head'[Main] = head[Main] \/ head'[Main] = Len(commits) + 1
             /\ resets' = 0 => Contains(head[Main]) \subseteq Contains(head[Main])'
      PROVE  /\ resets = 0
             /\ head'[Main] = head[Main] \/ head'[Main] = Len(commits) + 1
             /\ Contains(head[Main]) \subseteq Contains(head[Main])'
             /\ \A n \in 0..Len(commits) : Behind(n) => Behind(n)'
  BY <1>1 DEF Behind
<1>2. head[Main] \in 0..Len(commits)
  BY DEF TypeOK
<1>3. ASSUME head'[Main] = head[Main]
      PROVE  Contains(head[Main])' = Contains(head[Main])
  <2>1. Contains(head[Main])' = IF head'[Main] = None THEN {} ELSE commits'[head'[Main]].contains
    BY DEF Contains
  <2>2. \A n \in 0..Len(commits) : Contains(n)' = Contains(n)
    BY CommitsStay
  <2> QED
    BY <1>2, <1>3, <2>1, <2>2 DEF Contains
<1>4. ASSUME NEW c \in Candidates, NEW n, head' = [head EXCEPT ![c] = n]
      PROVE  head'[Main] = head[Main]
  BY <1>4, NameAssumption DEF TypeOK
<1>5. ASSUME NEW x \in Provisioners, CutBranch(x)
      PROVE  head'[Main] = head[Main] /\ resets' = resets
  <2>1. of[x] \in Candidates
    BY <1>5 DEF CutBranch, At, PlaceInv, Isolated
  <2> QED
    BY <1>4, <1>5, <2>1 DEF CutBranch
<1>6. ASSUME NEW r \in Runs, UndoBranch(r)
      PROVE  head'[Main] = head[Main] /\ resets' = resets
  <2>1. of[r] \in Candidates
    BY <1>6 DEF UndoBranch, At, PlaceInv, Isolated
  <2> QED
    BY <1>4, <1>6, <2>1 DEF UndoBranch
<1>7. ASSUME NEW x \in Cleaners, DeleteBranch(x)
      PROVE  head'[Main] = head[Main] /\ resets' = resets
  <2>1. of[x] \in Candidates
    BY <1>7 DEF DeleteBranch, At, PlaceInv, Isolated
  <2> QED
    BY <1>4, <1>7, <2>1 DEF DeleteBranch
<1>8. ASSUME NEW c \in Candidates, NEW n \in 1..Len(commits), ForeignBranch(c, n)
      PROVE  head'[Main] = head[Main] /\ resets' = resets
  BY <1>4, <1>8 DEF ForeignBranch
<1>9. ASSUME NEW ref \in Refs, NEW n \in 1..Len(commits), Rollback(ref, n) PROVE FALSE
  BY <1>9 DEF Rollback, TypeOK
<1>10. ASSUME NEW ref \in Refs, NEW tables, NEW contained, Put(ref, tables, contained),
              Contains(head[ref]) \subseteq contained
       PROVE  /\ head'[Main] = head[Main] \/ head'[Main] = Len(commits) + 1
              /\ Contains(head[Main]) \subseteq Contains(head[Main])'
  <2> DEFINE k == Len(commits) + 1
  <2>1. head' = [head EXCEPT ![ref] = k] /\ commits'[k].contains = contained \cup {k}
    BY <1>10, PutAppends
  <2>2. CASE ref = Main
    <3>1. head'[Main] = k /\ k # None
      BY <2>1, <2>2 DEF TypeOK, None
    <3>2. Contains(head[Main])' = contained \cup {k}
      BY <2>1, <3>1 DEF Contains
    <3> QED
      BY <1>10, <2>2, <3>1, <3>2
  <2>3. CASE ref # Main
    <3>1. head'[Main] = head[Main]
      BY <2>1, <2>3 DEF TypeOK
    <3> QED
      BY <1>3, <3>1
  <2> QED
    BY <2>2, <2>3
<1>11. ASSUME NEW r \in Runs, NEW m \in Models, Write(r, m)
       PROVE  /\ resets' = resets
              /\ head'[Main] = head[Main] \/ head'[Main] = Len(commits) + 1
              /\ Contains(head[Main]) \subseteq Contains(head[Main])'
  <2>1. of[r] \in Refs
    BY DEF TypeOK
  <2> QED
    BY <1>10, <1>11, <2>1 DEF Write
<1>12. ASSUME NEW p \in Promoters, DoMerge(p)
       PROVE  /\ resets' = resets
              /\ head'[Main] = head[Main] \/ head'[Main] = Len(commits) + 1
              /\ Contains(head[Main]) \subseteq Contains(head[Main])'
  <2>1. resets' = resets /\ head[Main] = Expected(eval[p])
    BY <1>12 DEF DoMerge
  <2>2. CASE eval[p].cand \in Contains(Expected(eval[p]))
    <3>1. head'[Main] = head[Main]
      BY <1>12, <2>2 DEF DoMerge
    <3> QED
      BY <1>3, <2>1, <3>1
  <2>3. CASE eval[p].cand \notin Contains(Expected(eval[p]))
    BY <1>10, <1>12, <2>1, <2>3 DEF DoMerge
  <2> QED
    BY <2>2, <2>3
<1>13. CASE ~MoveStep
  <2>1. head' = head /\ resets' = resets
    BY <1>13, StillStep
  <2> QED
    BY <1>1, <1>3, <2>1
<1> QED
  BY <1>1, <1>3, <1>5, <1>6, <1>7, <1>8, <1>9, <1>11, <1>12, <1>13 DEF MoveStep

\* The branch of a candidate stays, is removed, is written to by a run, or is made at
\* a commit that Main has.
Removed(c) == head'[c] = None /\ made'[c] = made[c]
Written(c) == /\ head'[c] = Len(commits) + 1 /\ made'[c] = made[c] /\ head[c] # None
              /\ Contains(head[c])' = Contains(head[c]) \cup {Len(commits) + 1}
MadeAt(c) == /\ head[c] = None /\ Behind(head'[c])
             /\ commits' = commits /\ head'[Main] = head[Main]
             /\ made'[c] = IF \/ made[c] = "never"
                              \/ made[c] = "afresh" /\ head'[c] = head[Main]
                           THEN "afresh" ELSE "behind"

LEMMA BranchStep ==
    ASSUME TypeOK, PlaceInv, HistoryInv, MainInv, [Next]_vars, resets' = 0,
           NEW c \in Candidates
    PROVE  \/ head'[c] = head[c] /\ made'[c] = made[c]
           \/ Removed(c) \/ Written(c) \/ MadeAt(c)
<1> USE Ranges
<1>0. resets = 0 /\ Main # c
  BY MainStep, NameAssumption
<1> DEFINE Goal == \/ head'[c] = head[c] /\ made'[c] = made[c]
                   \/ Removed(c) \/ Written(c) \/ MadeAt(c)
<1>1. ASSUME NEW k \in Candidates, head' = [head EXCEPT ![k] = None], made' = made
      PROVE  Goal
  BY <1>1 DEF TypeOK, Removed
<1>2. ASSUME NEW k \in Candidates, NEW n, head[k] = None, Behind(n), commits' = commits,
             head' = [head EXCEPT ![k] = n], Made(k, n)
      PROVE  Goal
  <2>1. CASE k = c
    <3>1. head'[c] = n /\ head'[Main] = head[Main]
      BY <1>0, <1>2, <2>1 DEF TypeOK
    <3>2. made'[c] = IF made[c] = "never" \/ (made[c] = "afresh" /\ n = head[Main])
                     THEN "afresh" ELSE "behind"
      BY <1>2, <2>1 DEF TypeOK, Made
    <3> QED
      BY <1>2, <2>1, <3>1, <3>2 DEF MadeAt
  <2>2. CASE k # c
    BY <1>2, <2>2 DEF TypeOK, Made
  <2> QED
    BY <2>1, <2>2
<1>3. ASSUME NEW x \in Provisioners, CutBranch(x) PROVE Goal
  <2>1. of[x] \in Candidates
    BY <1>3 DEF CutBranch, At, PlaceInv, Isolated
  <2>2. Behind(prov[x].base)
    BY <1>0 DEF MainInv
  <2> QED
    BY <1>2, <1>3, <2>1, <2>2 DEF CutBranch
<1>4. ASSUME NEW r \in Runs, UndoBranch(r) PROVE Goal
  <2>1. of[r] \in Candidates
    BY <1>4 DEF UndoBranch, At, PlaceInv, Isolated
  <2> QED
    BY <1>1, <1>4, <2>1 DEF UndoBranch
<1>5. ASSUME NEW x \in Cleaners, DeleteBranch(x) PROVE Goal
  <2>1. of[x] \in Candidates
    BY <1>5 DEF DeleteBranch, At, PlaceInv, Isolated
  <2> QED
    BY <1>1, <1>5, <2>1 DEF DeleteBranch
<1>6. ASSUME NEW k \in Candidates, NEW n \in 1..Len(commits), ForeignBranch(k, n) PROVE Goal
  BY <1>2, <1>6 DEF ForeignBranch, Behind
<1>7. ASSUME NEW ref \in Refs, NEW n \in 1..Len(commits), Rollback(ref, n) PROVE Goal
  BY <1>7 DEF Rollback, TypeOK
<1>8. ASSUME NEW r \in Runs, NEW m \in Models, Write(r, m) PROVE Goal
  <2> DEFINE k == Len(commits) + 1
             contained == Contains(head[of[r]])
  <2>1. of[r] \in Refs /\ Put(of[r], [TablesAt(head[of[r]]) EXCEPT ![m] = r], contained)
    BY <1>8 DEF Write, TypeOK
  <2>2. head' = [head EXCEPT ![of[r]] = k] /\ commits'[k].contains = contained \cup {k}
    BY <2>1, PutAppends
  <2>3. made' = made /\ head[of[r]] # None
    BY <1>8 DEF Write
  <2>4. CASE of[r] = c
    <3>1. head'[c] = k /\ k # None
      BY <2>2, <2>4 DEF TypeOK, None
    <3>2. Contains(head[c])' = contained \cup {k}
      BY <2>2, <3>1 DEF Contains
    <3> QED
      BY <2>3, <2>4, <3>1, <3>2 DEF Written
  <2>5. CASE of[r] # c
    BY <2>2, <2>3, <2>5 DEF TypeOK
  <2> QED
    BY <2>4, <2>5
<1>9. ASSUME NEW p \in Promoters, DoMerge(p) PROVE Goal
  <2>1. made' = made
    BY <1>9 DEF DoMerge
  <2>2. CASE eval[p].cand \in Contains(Expected(eval[p]))
    BY <1>9, <2>1, <2>2 DEF DoMerge
  <2>3. CASE eval[p].cand \notin Contains(Expected(eval[p]))
    <3>1. head' = [head EXCEPT ![Main] = Len(commits) + 1]
      BY <1>9, <2>3 DEF DoMerge, Put
    <3> QED
      BY <1>0, <2>1, <3>1 DEF TypeOK
  <2> QED
    BY <2>2, <2>3
<1>10. CASE ~MoveStep
  BY <1>10, StillStep
<1> QED
  BY <1>3, <1>4, <1>5, <1>6, <1>7, <1>8, <1>9, <1>10 DEF MoveStep

\* Each process is moved by its own steps.
Acts(x) ==
    \/ /\ x \in Provisioners
       /\ \/ \E c \in Candidates : StartOn(x, c)
          \/ ReadBase(x) \/ CutBranch(x) \/ TakeBranch(x) \/ RecordSetup(x)
    \/ /\ x \in Runs
       /\ \/ StartOnMain(x) \/ CreateCatalog(x) \/ TakeCatalog(x) \/ RefuseCatalog(x)
          \/ UndoBranch(x)
          \/ \E selected \in Selects[x] : \E reused \in SUBSET selected :
                Begin(x, selected, reused)
          \/ \E m \in Models : Write(x, m) \/ Note(x, m)
          \/ \E tests \in {"passed", "cancelled"} : Pass(x, tests)
          \/ Fail(x) \/ ResolveRun(x) \/ BindRun(x)
    \/ /\ x \in Auditors
       /\ \/ \E c \in Candidates : StartAudit(x, c)
          \/ ReadTarget(x) \/ ReadVersions(x)
          \/ \E verdict \in Verdicts : Compare(x, verdict)
    \/ /\ x \in Promoters
       /\ \/ \E c \in Candidates : StartPromote(x, c)
          \/ EvalTarget(x) \/ EvalRun(x) \/ EvalEvidence(x)
          \/ \E option \in Options : Gates(x, option)
          \/ ReadAgain(x) \/ DoMerge(x) \/ FailMerge(x)
    \/ x \in Deleters /\ \E c \in Candidates : StartDelete(x, c)
    \/ /\ x \in Cleaners
       /\ DropCatalog(x) \/ DeleteBranch(x) \/ FailCleanup(x) \/ Forget(x)

Stays(x) ==
    /\ at'[x] = at[x] /\ of'[x] = of[x]
    /\ x \in Provisioners => prov'[x] = prov[x]
    /\ x \in Auditors => look'[x] = look[x]
    /\ x \in Promoters => eval'[x] = eval[x]
    /\ x \in Runs => row'[x] = row[x] /\ held'[x] = held[x]

LEMMA ProcessMoves ==
    ASSUME TypeOK, [Next]_vars, NEW x \in Processes, ~Acts(x)
    PROVE  Stays(x)
<1> USE Ranges
<1>1. /\ at \in [Processes -> Place] /\ of \in [Processes -> Refs]
      /\ prov \in [Provisioners -> Prov] /\ look \in [Auditors -> Look]
      /\ eval \in [Promoters -> Eval] /\ row \in [Runs -> Row] /\ held \in [Runs -> Nat]
  BY DEF TypeOK
<1>2. ASSUME NEW y \in Processes, NEW from, NEW to, At(y, from, to), x # y
      PROVE  at'[x] = at[x]
  BY <1>1, <1>2 DEF At
<1>3. CASE ProvisionStep
  <2>1. ASSUME NEW y \in Provisioners, NEW c \in Candidates, StartOn(y, c) PROVE Stays(x)
    <3>1. x # y
      BY <2>1 DEF Acts
    <3> QED
      BY <1>1, <1>2, <2>1, <3>1 DEF StartOn, Starts, Stays, store
  <2>2. ASSUME NEW y \in Provisioners,
               ReadBase(y) \/ CutBranch(y) \/ TakeBranch(y) \/ RecordSetup(y)
        PROVE  Stays(x)
    <3>1. x # y
      BY <2>2 DEF Acts
    <3> QED
      BY <1>1, <1>2, <2>2, <3>1
         DEF ReadBase, CutBranch, TakeBranch, RecordSetup, Stays, store
  <2>3. ASSUME NEW y \in Runs,
               \/ StartOnMain(y) \/ CreateCatalog(y) \/ TakeCatalog(y)
               \/ RefuseCatalog(y) \/ UndoBranch(y)
        PROVE  Stays(x)
    <3>1. x # y
      BY <2>3 DEF Acts
    <3> QED
      BY <1>1, <1>2, <2>3, <3>1
         DEF StartOnMain, Starts, CreateCatalog, TakeCatalog, RefuseCatalog, UndoBranch,
             Stays, store, mine
  <2> QED
    BY <1>3, <2>1, <2>2, <2>3 DEF ProvisionStep
<1>4. CASE RunStep
  <2>1. ASSUME NEW y \in Runs, NEW selected \in Selects[y], NEW reused \in SUBSET selected,
               Begin(y, selected, reused)
        PROVE  Stays(x)
    <3>1. x # y
      BY <2>1 DEF Acts
    <3> QED
      BY <1>1, <1>2, <2>1, <3>1 DEF Begin, Stays, mine
  <2>2. ASSUME NEW y \in Runs, NEW m \in Models, Write(y, m) \/ Note(y, m) PROVE Stays(x)
    <3>1. x # y
      BY <2>2 DEF Acts
    <3> QED
      BY <1>1, <2>2, <3>1 DEF Write, Note, Stays, process, mine
  <2>3. ASSUME NEW y \in Runs, NEW tests \in {"passed", "cancelled"}, Pass(y, tests)
        PROVE  Stays(x)
    <3>1. x # y
      BY <2>3 DEF Acts
    <3> QED
      BY <1>1, <1>2, <2>3, <3>1 DEF Pass, Stays, mine
  <2>4. ASSUME NEW y \in Runs, Fail(y) \/ ResolveRun(y) \/ BindRun(y) PROVE Stays(x)
    <3>1. x # y
      BY <2>4 DEF Acts
    <3> QED
      BY <1>1, <1>2, <2>4, <3>1 DEF Fail, ResolveRun, BindRun, Stays, mine, store
  <2> QED
    BY <1>4, <2>1, <2>2, <2>3, <2>4 DEF RunStep
<1>5. CASE AuditStep
  <2>1. ASSUME NEW y \in Auditors, NEW c \in Candidates, StartAudit(y, c) PROVE Stays(x)
    <3>1. x # y
      BY <2>1 DEF Acts
    <3> QED
      BY <1>1, <1>2, <2>1, <3>1 DEF StartAudit, Starts, Stays, store
  <2>2. ASSUME NEW y \in Auditors, ReadTarget(y) \/ ReadVersions(y) PROVE Stays(x)
    <3>1. x # y
      BY <2>2 DEF Acts
    <3> QED
      BY <1>1, <1>2, <2>2, <3>1 DEF ReadTarget, ReadVersions, Stays, store
  <2>3. ASSUME NEW y \in Auditors, NEW verdict \in Verdicts, Compare(y, verdict)
        PROVE  Stays(x)
    <3>1. x # y
      BY <2>3 DEF Acts
    <3> QED
      BY <1>1, <1>2, <2>3, <3>1 DEF Compare, Stays, store
  <2> QED
    BY <1>5, <2>1, <2>2, <2>3 DEF AuditStep
<1>6. CASE PromoteStep
  <2>1. ASSUME NEW y \in Promoters, NEW c \in Candidates, StartPromote(y, c) PROVE Stays(x)
    <3>1. x # y
      BY <2>1 DEF Acts
    <3> QED
      BY <1>1, <1>2, <2>1, <3>1 DEF StartPromote, Starts, Stays, store
  <2>2. ASSUME NEW y \in Promoters, x # y, NEW from, NEW ok, NEW to, NEW e,
               Evaluate(y, from, ok, to, e)
        PROVE  Stays(x)
    BY <1>1, <1>2, <2>2 DEF Evaluate, Stays, store
  <2>3. ASSUME NEW y \in Promoters, NEW option \in Options,
               \/ EvalTarget(y) \/ EvalRun(y) \/ EvalEvidence(y) \/ Gates(y, option)
               \/ ReadAgain(y) \/ FailMerge(y)
        PROVE  Stays(x)
    <3>1. x # y
      BY <2>3 DEF Acts
    <3> QED
      BY <2>2, <2>3, <3>1 DEF EvalTarget, EvalRun, EvalEvidence, Gates, ReadAgain, FailMerge
  <2>4. ASSUME NEW y \in Promoters,
               EvalTarget(y) \/ EvalRun(y) \/ EvalEvidence(y) \/ ReadAgain(y) \/ FailMerge(y)
        PROVE  Stays(x)
    <3>1. x # y
      BY <2>4 DEF Acts
    <3> QED
      BY <2>2, <2>4, <3>1 DEF EvalTarget, EvalRun, EvalEvidence, ReadAgain, FailMerge
  <2>5. ASSUME NEW y \in Promoters, DoMerge(y) PROVE Stays(x)
    <3>1. x # y
      BY <2>5 DEF Acts
    <3> QED
      BY <1>1, <1>2, <2>5, <3>1 DEF DoMerge, Stays, store
  <2> QED
    BY <1>6, <2>1, <2>3, <2>4, <2>5 DEF PromoteStep
<1>7. CASE CleanupStep
  <2>1. ASSUME NEW y \in Deleters, NEW c \in Candidates, StartDelete(y, c) PROVE Stays(x)
    <3>1. x # y
      BY <2>1 DEF Acts
    <3> QED
      BY <1>1, <1>2, <2>1, <3>1 DEF StartDelete, Starts, Stays, store, mine
  <2>2. ASSUME NEW y \in Cleaners,
               DropCatalog(y) \/ DeleteBranch(y) \/ FailCleanup(y) \/ Forget(y)
        PROVE  Stays(x)
    <3>1. x # y
      BY <2>2 DEF Acts
    <3> QED
      BY <1>1, <1>2, <2>2, <3>1
         DEF DropCatalog, DeleteBranch, FailCleanup, Forget, Stays, store, mine
  <2> QED
    BY <1>7, <2>1, <2>2 DEF CleanupStep
<1>8. CASE OtherStep \/ UNCHANGED vars
  BY <1>8
     DEF OtherStep, Rollback, ForeignBranch, ForeignCatalog, Stays, vars, process, store,
         mine
<1> QED
  BY <1>3, <1>4, <1>5, <1>6, <1>7, <1>8 DEF Next

\* What is recorded changes in one way each.
LEMMA RecordMoves ==
    ASSUME TypeOK, PlaceInv, [Next]_vars
    PROVE  /\ \A c \in Candidates :
                \/ setup'[c] \subseteq setup[c]
                \/ \E x \in Provisioners : RecordSetup(x) /\ of[x] = c
           /\ \A c \in Candidates :
                \/ report'[c] = report[c]
                \/ \E a \in Auditors, v \in Verdicts : Compare(a, v) /\ of[a] = c
           /\ merges' = merges \/ \E p \in Promoters : DoMerge(p)
<1>1. CASE ProvisionStep
  <2>1. ASSUME NEW x \in Provisioners, RecordSetup(x), NEW c \in Candidates
        PROVE  setup'[c] \subseteq setup[c] \/ of[x] = c
    BY <2>1 DEF RecordSetup, TypeOK
  <2>2. CASE setup' = setup
    BY <1>1, <2>2
       DEF ProvisionStep, StartOn, ReadBase, CutBranch, TakeBranch, RecordSetup,
           StartOnMain, CreateCatalog, TakeCatalog, RefuseCatalog, UndoBranch, store, history
  <2>3. CASE setup' # setup
    <3>1. PICK x \in Provisioners : RecordSetup(x)
      BY <1>1, <2>3
         DEF ProvisionStep, StartOn, ReadBase, CutBranch, TakeBranch,
             StartOnMain, CreateCatalog, TakeCatalog, RefuseCatalog, UndoBranch, store
    <3>2. report' = report /\ merges' = merges
      BY <3>1 DEF RecordSetup, history
    <3> QED
      BY <2>1, <3>1, <3>2
  <2> QED
    BY <2>2, <2>3
<1>2. CASE RunStep
  BY ZenonT(40), <1>2
     DEF RunStep, Begin, Write, Note, Pass, Fail, ResolveRun, BindRun, store, history
<1>3. CASE AuditStep
  <2>1. ASSUME NEW a \in Auditors, NEW v \in Verdicts, Compare(a, v), NEW c \in Candidates
        PROVE  report'[c] = report[c] \/ of[a] = c
    BY <2>1 DEF Compare, TypeOK
  <2>2. setup' = setup /\ merges' = merges
    BY <1>3 DEF AuditStep, StartAudit, ReadTarget, ReadVersions, Compare, store, history
  <2>3. report' = report \/ \E a \in Auditors, v \in Verdicts : Compare(a, v)
    BY <1>3 DEF AuditStep, StartAudit, ReadTarget, ReadVersions, store
  <2> QED
    BY <2>1, <2>2, <2>3
<1>4. CASE PromoteStep
  BY <1>4
     DEF PromoteStep, StartPromote, EvalTarget, EvalRun, EvalEvidence, Gates, ReadAgain,
         FailMerge, Evaluate, DoMerge, store, history
<1>5. CASE CleanupStep
  <2>1. ASSUME NEW x \in Cleaners, Forget(x), NEW c \in Candidates
        PROVE  setup'[c] \subseteq setup[c]
    BY <2>1 DEF Forget, TypeOK
  <2> QED
    BY <1>5, <2>1
       DEF CleanupStep, StartDelete, DropCatalog, DeleteBranch, FailCleanup, Forget, store,
           history
<1>6. CASE OtherStep \/ UNCHANGED vars
  BY <1>6
     DEF OtherStep, Rollback, ForeignBranch, ForeignCatalog, vars, store, history
<1> QED
  BY <1>1, <1>2, <1>3, <1>4, <1>5, <1>6 DEF Next

-----------------------------------------------------------------------------
(***************************************************************************)
(* Phases and hashes.                                                      *)
(***************************************************************************)
\* The processes that make, look, promote and clean up are apart.
LEMMA Apart ==
    ASSUME TypeOK
    PROVE  /\ \A x \in Provisioners :
                x \notin Auditors /\ x \notin Promoters /\ x \notin Deleters
                /\ x \notin Cleaners
           /\ \A a \in Auditors : a \notin Promoters /\ a \notin Deleters /\ a \notin Cleaners
           /\ \A p \in Promoters : p \notin Deleters /\ p \notin Provisioners
                /\ p \notin Auditors /\ p \notin Runs
  BY ProcessAssumption DEF Provisioners, Cleaners

\* The reference is chosen at the start.
LEMMA OfStays ==
    ASSUME TypeOK, [Next]_vars, NEW x \in Processes, at[x] # "idle"
    PROVE  of'[x] = of[x]
<1>1. CASE ~Acts(x)
  BY <1>1, ProcessMoves DEF Stays
<1>2. CASE Acts(x)
  BY <1>2
     DEF Acts, StartOn, Starts, At, ReadBase, CutBranch, TakeBranch, RecordSetup, StartOnMain,
         CreateCatalog, TakeCatalog, RefuseCatalog, UndoBranch, Begin, Write, Note, Pass,
         Fail, ResolveRun, BindRun, StartAudit, ReadTarget, ReadVersions, Compare,
         StartPromote, EvalTarget, EvalRun, EvalEvidence, Gates, ReadAgain, FailMerge,
         Evaluate, DoMerge, StartDelete, DropCatalog, DeleteBranch, FailCleanup, Forget,
         process
<1> QED
  BY <1>1, <1>2

LEMMA PhaseStep ==
    ASSUME TypeOK, PlaceInv, PhaseInv, [Next]_vars
    PROVE  PhaseInv'
<1> USE Ranges, Apart
<1>0. /\ at \in [Processes -> Place] /\ of \in [Processes -> Refs]
      /\ prov \in [Provisioners -> Prov] /\ eval \in [Promoters -> Eval]
  BY DEF TypeOK
<1>1. ASSUME NEW x \in Provisioners
      PROVE  /\ at'[x] = "idle" => prov'[x] = NoProv
             /\ at'[x] \in {"base", "branch"} => prov'[x].cut = None
             /\ at'[x] = "undo" => prov'[x].cut # None
  <2>1. CASE ~Acts(x)
    BY <2>1, ProcessMoves DEF Stays, PhaseInv
  <2>2. CASE \E c \in Candidates : StartOn(x, c)
    BY <1>0, <2>2 DEF StartOn, Starts, At, PhaseInv, NoProv, Prov
  <2>3. CASE ReadBase(x) \/ CutBranch(x) \/ TakeBranch(x) \/ RecordSetup(x)
    BY <1>0, <2>3 DEF ReadBase, CutBranch, TakeBranch, RecordSetup, At, PhaseInv, Prov
  <2>4. CASE x \in Runs /\ (\/ StartOnMain(x) \/ CreateCatalog(x) \/ TakeCatalog(x)
                            \/ UndoBranch(x))
    BY <1>0, <2>4 DEF StartOnMain, Starts, CreateCatalog, TakeCatalog, UndoBranch, At, mine
  <2>5. CASE x \in Runs /\ RefuseCatalog(x)
    BY <1>0, <2>5 DEF RefuseCatalog, At
  <2>6. CASE x \in Runs /\ \E selected \in Selects[x] : \E reused \in SUBSET selected :
                Begin(x, selected, reused)
    BY <1>0, <2>6 DEF Begin, At
  <2>7. CASE x \in Runs /\ \E m \in Models : Write(x, m) \/ Note(x, m)
    BY <1>0, <2>7 DEF Write, Note, process
  <2>8. CASE x \in Runs /\ (\/ \E tests \in {"passed", "cancelled"} : Pass(x, tests)
                            \/ Fail(x) \/ ResolveRun(x) \/ BindRun(x))
    BY <1>0, <2>8 DEF Pass, Fail, ResolveRun, BindRun, At
  <2> QED
    BY <2>1, <2>2, <2>3, <2>4, <2>5, <2>6, <2>7, <2>8 DEF Acts
<1>2. ASSUME NEW p \in Promoters
      PROVE  /\ at'[p] = "idle" => eval'[p].report = {} /\ eval'[p].setup = {}
             /\ at[p] # "idle" => at'[p] # "idle"
             /\ at'[p] \in {"drop", "find"} => at[p] \in {"drop", "find"} \/ DoMerge(p)
  <2>1. CASE ~Acts(p)
    BY <2>1, ProcessMoves DEF Stays, PhaseInv
  <2>2. CASE \E c \in Candidates : StartPromote(p, c)
    BY <1>0, <2>2 DEF StartPromote, Starts, At
  <2>3. CASE DropCatalog(p) \/ DeleteBranch(p) \/ FailCleanup(p) \/ Forget(p)
    BY <1>0, <2>3 DEF DropCatalog, DeleteBranch, FailCleanup, Forget, At
  <2>4. CASE DoMerge(p)
    BY <1>0, <2>4 DEF DoMerge, At
  <2>5. ASSUME NEW from, NEW ok, NEW to \in {"run", "evidence", "gates", "again", "merge"},
               NEW e, Evaluate(p, from, ok, to, e)
        PROVE  at'[p] \in {"run", "evidence", "gates", "again", "merge", "done"}
    BY <1>0, <2>5 DEF Evaluate, At
  <2>6. CASE \/ EvalTarget(p) \/ EvalRun(p) \/ EvalEvidence(p)
             \/ \E option \in Options : Gates(p, option)
             \/ ReadAgain(p)
    BY <2>5, <2>6 DEF EvalTarget, EvalRun, EvalEvidence, Gates, ReadAgain
  <2>7. CASE FailMerge(p)
    BY <1>0, <2>7 DEF FailMerge, Evaluate, At
  <2> QED
    BY <2>1, <2>2, <2>3, <2>4, <2>6, <2>7 DEF Acts
<1>3. ASSUME NEW p \in Promoters, DoMerge(p)
      PROVE  /\ \E e \in merges' : e.by = p
             /\ merges \subseteq merges' /\ at[p] # "idle"
             /\ \A e \in merges' : e \in merges \/ e.by = p
  <2> DEFINE new == [by |-> p, run |-> eval[p].run, from |-> eval[p].cand,
                     onto |-> Expected(eval[p]), into |-> head'[Main],
                     eval |-> eval[p], resets |-> resets]
  <2>1. merges' = merges \cup {new} /\ new.by = p
    BY <1>3 DEF DoMerge
  <2>2. at[p] = "merge"
    BY <1>3 DEF DoMerge, At
  <2> HIDE DEF new
  <2> QED
    BY <2>1, <2>2
<1>4. merges \subseteq merges'
  BY <1>3, RecordMoves
<1>5. ASSUME NEW p \in Promoters, at'[p] \in {"drop", "find"}
      PROVE  \E e \in merges' : e.by = p
  BY <1>2, <1>3, <1>4, <1>5 DEF PhaseInv
<1>6. ASSUME NEW e \in merges' PROVE at'[e.by] # "idle" /\ of'[e.by] \in Candidates
  <2>1. CASE e \in merges
    <3>1. e.by \in Promoters
      BY <2>1 DEF TypeOK, Merge
    <3> QED
      BY <1>2, <2>1, <3>1, OfStays DEF PhaseInv
  <2>2. CASE e \notin merges
    <3>1. PICK p \in Promoters : DoMerge(p)
      BY <1>6, <2>2, RecordMoves
    <3>2. e.by = p /\ at[p] # "idle"
      BY <1>3, <1>6, <2>2, <3>1
    <3>3. of[p] \in Candidates
      BY <3>1 DEF DoMerge, At, PlaceInv, Isolated
    <3> QED
      BY <1>2, <3>2, <3>3, OfStays
  <2> QED
    BY <2>1, <2>2
<1> QED
  BY <1>1, <1>2, <1>5, <1>6 DEF PhaseInv

\* What a promotion knows of its candidate is read once.
LEMMA EvalMoves ==
    ASSUME TypeOK, PlaceInv, [Next]_vars, NEW p \in Promoters
    PROVE  \/ /\ of'[p] = of[p]
              /\ eval'[p] = NoEval
           \/ /\ of'[p] = of[p] /\ eval'[p].cand = eval[p].cand
              /\ eval'[p].report = eval[p].report /\ eval'[p].setup = eval[p].setup
           \/ /\ of'[p] = of[p] /\ of[p] \in Candidates /\ eval'[p].cand = eval[p].cand
              /\ eval'[p].report = report[of[p]] /\ eval'[p].setup = setup[of[p]]
           \/ /\ at[p] = "idle" /\ of'[p] \in Candidates /\ eval'[p].cand = head[of'[p]]
              /\ eval'[p].report = eval[p].report /\ eval'[p].setup = eval[p].setup
<1> USE Ranges, Apart
<1>0. /\ at \in [Processes -> Place] /\ of \in [Processes -> Refs]
      /\ eval \in [Promoters -> Eval]
  BY DEF TypeOK
<1> DEFINE Goal ==
           \/ /\ of'[p] = of[p]
              /\ eval'[p] = NoEval
           \/ /\ of'[p] = of[p] /\ eval'[p].cand = eval[p].cand
              /\ eval'[p].report = eval[p].report /\ eval'[p].setup = eval[p].setup
           \/ /\ of'[p] = of[p] /\ of[p] \in Candidates /\ eval'[p].cand = eval[p].cand
              /\ eval'[p].report = report[of[p]] /\ eval'[p].setup = setup[of[p]]
           \/ /\ at[p] = "idle" /\ of'[p] \in Candidates /\ eval'[p].cand = head[of'[p]]
              /\ eval'[p].report = eval[p].report /\ eval'[p].setup = eval[p].setup
<1>1. CASE ~Acts(p)
  BY <1>1, ProcessMoves DEF Stays
<1>2. CASE \E c \in Candidates : StartPromote(p, c)
  <2>1. PICK c \in Candidates : StartPromote(p, c)
    BY <1>2
  <2>2. of'[p] = c /\ at[p] = "idle"
    BY <1>0, <2>1 DEF StartPromote, Starts, At
  <2>3. /\ eval'[p].cand = head[c] /\ eval'[p].report = eval[p].report
        /\ eval'[p].setup = eval[p].setup
    BY <1>0, <2>1 DEF StartPromote, Eval
  <2> QED
    BY <2>2, <2>3
<1>3. CASE EvalTarget(p)
  BY <1>0, <1>3 DEF EvalTarget, Evaluate, Eval
<1>4. CASE EvalRun(p)
  <2> DEFINE r == LatestRun(of[p])
             ok == RunGate(r, eval[p].cand) /\ TestGates(r)
  <2>1. eval' = [eval EXCEPT ![p] = IF ok THEN [eval[p] EXCEPT !.run = r] ELSE NoEval]
        /\ of' = of
    BY <1>4 DEF EvalRun, Evaluate
  <2> HIDE DEF r, ok
  <2> QED
    BY <1>0, <2>1 DEF Eval
<1>5. CASE EvalEvidence(p)
  <2> DEFINE fresh == \E d \in report[of[p]] : Fresh(d, of[p], eval[p].cand, eval[p].target)
             strict == \E m \in Models : recorded[Main][m] \in Stricter
             q == [eval[p] EXCEPT !.setup = setup[of[p]], !.report = report[of[p]],
                                  !.fresh = fresh, !.strict = strict]
  <2>1. eval' = [eval EXCEPT ![p] = q] /\ of' = of /\ at[p] = "evidence"
    BY <1>5 DEF EvalEvidence, Evaluate, At
  <2>2. of[p] \in Candidates
    BY <2>1 DEF PlaceInv, Isolated
  <2> HIDE DEF fresh, strict
  <2>3. q.cand = eval[p].cand /\ q.setup = setup[of[p]] /\ q.report = report[of[p]]
    BY <1>0 DEF Eval
  <2> HIDE DEF q
  <2>4. eval'[p] = q
    BY <1>0, <2>1
  <2> QED
    BY <2>1, <2>2, <2>3, <2>4
<1>6. CASE \E option \in Options : Gates(p, option)
  <2>1. PICK option \in Options : Gates(p, option)
    BY <1>6
  <2> DEFINE e == [eval[p] EXCEPT !.option = option]
             ok == SchemaGate(e) /\ DataGate(e) /\ BaseGate(e) /\ MergeGate(of[p])
  <2>2. eval' = [eval EXCEPT ![p] = IF ok THEN e ELSE NoEval] /\ of' = of
    BY <2>1 DEF Gates, Evaluate
  <2> HIDE DEF ok
  <2> QED
    BY <1>0, <2>2 DEF Eval
<1>7. CASE ReadAgain(p)
  <2> DEFINE ok == head[of[p]] = eval[p].cand /\ head[Main] = Expected(eval[p])
  <2>1. eval' = [eval EXCEPT ![p] = IF ok THEN eval[p] ELSE NoEval] /\ of' = of
    BY <1>7 DEF ReadAgain, Evaluate
  <2> HIDE DEF ok
  <2> QED
    BY <1>0, <2>1
<1>8. CASE DoMerge(p) \/ FailMerge(p)
  BY <1>0, <1>8 DEF DoMerge, FailMerge, Evaluate
<1>9. CASE DropCatalog(p) \/ DeleteBranch(p) \/ FailCleanup(p) \/ Forget(p)
  BY <1>9 DEF DropCatalog, DeleteBranch, FailCleanup, Forget, mine
<1> QED
  BY <1>1, <1>2, <1>3, <1>4, <1>5, <1>6, <1>7, <1>8, <1>9 DEF Acts

LEMMA HashStep ==
    ASSUME TypeOK, TypeOK', PlaceInv, HashInv, [Next]_vars
    PROVE  HashInv'
<1> USE Ranges, Apart
<1> DEFINE New(n) == n \in 0..Len(commits')
<1>0. /\ at \in [Processes -> Place] /\ of \in [Processes -> Refs]
      /\ prov \in [Provisioners -> Prov] /\ look \in [Auditors -> Look]
      /\ eval \in [Promoters -> Eval] /\ row \in [Runs -> Row] /\ held \in [Runs -> Nat]
  BY DEF TypeOK
<1>1. /\ Hash(None) /\ Hash(Len(commits)) /\ \A f \in Refs : Hash(head[f]) /\ New(head'[f])
      /\ \A n : Hash(n) => New(n)
  <2>1. Hash(None) /\ Hash(Len(commits)) /\ \A f \in Refs : Hash(head[f])
    BY DEF Hash, None
  <2>2. \A f \in Refs : New(head'[f])
    BY DEF TypeOK, Hash
  <2>3. \A n : Hash(n) => New(n)
    BY CommitsStay DEF Hash
  <2> HIDE DEF New
  <2> QED
    BY <2>1, <2>2, <2>3
<1> HIDE DEF New
<1>2. ASSUME NEW r \in Runs PROVE New(held'[r]) /\ New(row'[r].bound)
  <2> SUFFICES Hash(held'[r]) /\ Hash(row'[r].bound)
    BY <1>1
  <2>0. Hash(held[r]) /\ Hash(row[r].bound)
    BY DEF HashInv
  <2>1. CASE ~Acts(r)
    BY <2>0, <2>1, ProcessMoves DEF Stays
  <2>2. CASE \E c \in Candidates : StartOn(r, c)
    BY <2>0, <2>2 DEF StartOn, store
  <2>3. CASE ReadBase(r) \/ CutBranch(r) \/ TakeBranch(r) \/ RecordSetup(r)
    BY <2>0, <2>3 DEF ReadBase, CutBranch, TakeBranch, RecordSetup, store
  <2>4. CASE \/ StartOnMain(r) \/ CreateCatalog(r) \/ TakeCatalog(r) \/ RefuseCatalog(r)
             \/ UndoBranch(r)
    BY <2>0, <2>4
       DEF StartOnMain, CreateCatalog, TakeCatalog, RefuseCatalog, UndoBranch, store, mine
  <2>5. CASE \E selected \in Selects[r] : \E reused \in SUBSET selected :
                Begin(r, selected, reused)
    <3>1. row'[r].bound = None /\ held' = held
      BY <1>0, <2>5 DEF Begin, NoRow, mine
    <3> QED
      BY <1>1, <2>0, <3>1
  <2>6. CASE \E m \in Models : Write(r, m) \/ Note(r, m)
    <3>1. row'[r].bound = row[r].bound /\ held' = held
      BY <1>0, <2>6 DEF Write, Note, process, mine, Row
    <3> QED
      BY <2>0, <3>1
  <2>7. CASE (\E tests \in {"passed", "cancelled"} : Pass(r, tests)) \/ Fail(r)
    <3>1. row'[r].bound = row[r].bound /\ held' = held
      BY <1>0, <2>7 DEF Pass, Fail, mine, Row
    <3> QED
      BY <2>0, <3>1
  <2>8. CASE ResolveRun(r)
    <3>1. row' = row /\ held'[r] = head[of[r]] /\ of[r] \in Refs
      BY <1>0, <2>8 DEF ResolveRun, store
    <3> QED
      BY <1>1, <2>0, <3>1
  <2>9. CASE BindRun(r)
    <3>1. held'[r] = None /\ row'[r].bound = held[r]
      BY <1>0, <2>9 DEF BindRun, Row
    <3> QED
      BY <1>1, <2>0, <3>1
  <2> QED
    BY <2>1, <2>2, <2>3, <2>4, <2>5, <2>6, <2>7, <2>8, <2>9 DEF Acts
<1>3. ASSUME NEW x \in Provisioners PROVE New(prov'[x].cut)
  <2> SUFFICES Hash(prov'[x].cut)
    BY <1>1
  <2>0. Hash(prov[x].cut) /\ NoProv.cut = None
    BY DEF HashInv, NoProv
  <2>1. CASE prov'[x] = prov[x] \/ prov'[x] = NoProv
    BY <1>1, <2>0, <2>1
  <2>2. CASE ~Acts(x)
    BY <2>1, <2>2, ProcessMoves DEF Stays
  <2>3. CASE \E c \in Candidates : StartOn(x, c)
    <3>1. prov'[x].cut = prov[x].cut
      BY <1>0, <2>3 DEF StartOn, Prov
    <3> QED
      BY <2>0, <3>1
  <2>4. CASE ReadBase(x)
    <3>1. prov'[x].cut = prov[x].cut
      BY <1>0, <2>4 DEF ReadBase, Prov
    <3> QED
      BY <2>0, <3>1
  <2>5. CASE CutBranch(x)
    <3>1. prov'[x].cut = Len(commits)
      BY <1>0, <2>5 DEF CutBranch, Prov
    <3> QED
      BY <1>1, <3>1
  <2>6. CASE CreateCatalog(x)
    <3>1. prov'[x].cut = prov[x].cut
      BY <1>0, <2>6 DEF CreateCatalog, Prov
    <3> QED
      BY <2>0, <3>1
  <2>7. CASE TakeBranch(x) \/ RecordSetup(x)
    BY <1>0, <2>1, <2>7 DEF TakeBranch, RecordSetup
  <2>8. CASE x \in Runs /\ (StartOnMain(x) \/ TakeCatalog(x) \/ RefuseCatalog(x) \/ UndoBranch(x))
    BY <1>0, <2>1, <2>8 DEF StartOnMain, TakeCatalog, RefuseCatalog, UndoBranch, mine
  <2>9. CASE x \in Runs /\ (\/ \E selected \in Selects[x] : \E reused \in SUBSET selected :
                                 Begin(x, selected, reused)
                            \/ \E m \in Models : Write(x, m) \/ Note(x, m)
                            \/ \E tests \in {"passed", "cancelled"} : Pass(x, tests)
                            \/ Fail(x) \/ ResolveRun(x) \/ BindRun(x))
    BY <1>0, <2>1, <2>9
       DEF Begin, Write, Note, Pass, Fail, ResolveRun, BindRun, process, mine
  <2> QED
    BY <2>2, <2>3, <2>4, <2>5, <2>6, <2>7, <2>8, <2>9 DEF Acts
<1>4. ASSUME NEW a \in Auditors PROVE New(look'[a].cand) /\ New(look'[a].base)
  <2> SUFFICES Hash(look'[a].cand) /\ Hash(look'[a].base)
    BY <1>1
  <2>0. Hash(look[a].cand) /\ Hash(look[a].base) /\ NoLook.cand = None /\ NoLook.base = None
    BY DEF HashInv, NoLook
  <2>1. CASE ~Acts(a)
    BY <2>0, <2>1, ProcessMoves DEF Stays
  <2>2. CASE \E c \in Candidates : StartAudit(a, c)
    <3>1. PICK c \in Candidates : look'[a].cand = head[c] /\ look'[a].base = look[a].base
      BY <1>0, <2>2 DEF StartAudit, Look
    <3> QED
      BY <1>1, <2>0, <3>1
  <2>3. CASE ReadTarget(a)
    <3>1. look'[a].cand = look[a].cand /\ look'[a].base = head[Main]
      BY <1>0, <2>3 DEF ReadTarget, Look
    <3> QED
      BY <1>1, <2>0, <3>1
  <2>4. CASE ReadVersions(a)
    <3>1. look'[a].cand = look[a].cand /\ look'[a].base = look[a].base
      BY <1>0, <2>4 DEF ReadVersions, Look
    <3> QED
      BY <2>0, <3>1
  <2>5. CASE \E verdict \in Verdicts : Compare(a, verdict)
    <3>1. look'[a] = NoLook
      BY <1>0, <2>5 DEF Compare
    <3> QED
      BY <1>1, <2>0, <3>1
  <2> QED
    BY <2>1, <2>2, <2>3, <2>4, <2>5 DEF Acts
<1>5. ASSUME NEW c \in Candidates, NEW d \in report'[c] PROVE New(d.cand) /\ New(d.base)
  <2> SUFFICES Hash(d.cand) /\ Hash(d.base)
    BY <1>1
  <2>1. CASE report'[c] = report[c]
    BY <1>5, <2>1 DEF HashInv
  <2>2. CASE \E a \in Auditors, v \in Verdicts : Compare(a, v) /\ of[a] = c
    <3>1. PICK a \in Auditors : d.cand = look[a].cand /\ d.base = look[a].base
      BY <1>5, <2>2 DEF Compare, TypeOK
    <3> QED
      BY <3>1 DEF HashInv
  <2> QED
    BY <2>1, <2>2, RecordMoves
<1>6. ASSUME NEW p \in Promoters
      PROVE  /\ New(eval'[p].cand)
             /\ \A d \in eval'[p].report : New(d.cand) /\ New(d.base)
  <2>1. NoEval.cand = None /\ NoEval.report = {}
    BY DEF NoEval
  <2>2. Hash(eval'[p].cand)
    <3>1. Hash(eval[p].cand)
      BY DEF HashInv
    <3>2. \A c \in Candidates : Hash(head[c])
      BY <1>1
    <3> QED
      BY <1>1, <2>1, <3>1, <3>2, EvalMoves
  <2>3. ASSUME NEW d \in eval'[p].report PROVE Hash(d.cand) /\ Hash(d.base)
    BY <2>1, <2>3, EvalMoves DEF HashInv
  <2> QED
    BY <1>1, <2>2, <2>3
<1>7. ASSUME NEW e \in merges' PROVE New(e.from) /\ New(e.onto) /\ New(e.into)
  <2>1. CASE e \in merges
    BY <1>1, <2>1 DEF HashInv
  <2>2. CASE e \notin merges
    <3>1. PICK p \in Promoters : DoMerge(p)
      BY <1>7, <2>2, RecordMoves
    <3> DEFINE new == [by |-> p, run |-> eval[p].run, from |-> eval[p].cand,
                       onto |-> Expected(eval[p]), into |-> head'[Main],
                       eval |-> eval[p], resets |-> resets]
    <3>2. merges' = merges \cup {new} /\ head[Main] = Expected(eval[p])
      BY <3>1 DEF DoMerge
    <3>3. Hash(new.from) /\ Hash(new.onto) /\ New(new.into)
      BY <1>1, <3>2 DEF HashInv
    <3>4. e = new
      BY <1>7, <2>2, <3>2
    <3> HIDE DEF new
    <3> QED
      BY <1>1, <3>3, <3>4
  <2> QED
    BY <2>1, <2>2
<1> QED
  BY <1>2, <1>3, <1>4, <1>5, <1>6, <1>7 DEF HashInv, Hash, New

-----------------------------------------------------------------------------
(***************************************************************************)
(* What is known of Main, of branches, and of where they were cut.         *)
(***************************************************************************)
\* A provisioning reads the record, then the base, then cuts.
LEMMA ProvMoves ==
    ASSUME TypeOK, PlaceInv, PhaseInv, [Next]_vars, NEW x \in Provisioners
    PROVE  \/ prov'[x] = NoProv
           \/ /\ of'[x] = of[x] /\ prov'[x].prior = prov[x].prior
              /\ prov'[x].base = prov[x].base /\ prov'[x].cut = prov[x].cut
           \/ /\ of'[x] = of[x] /\ prov'[x].prior = prov[x].prior
              /\ prov'[x].base = head[Main] /\ prov'[x].cut = None
           \/ /\ of'[x] = of[x] /\ prov'[x].prior = prov[x].prior
              /\ prov'[x].base = prov[x].base /\ prov'[x].cut = Len(commits)
              /\ CutBranch(x) /\ of[x] \in Candidates
           \/ /\ of'[x] \in Candidates /\ prov'[x].prior = setup[of'[x]]
              /\ prov'[x].base = None /\ prov'[x].cut = None
<1> USE Ranges, Apart
<1>0. /\ at \in [Processes -> Place] /\ of \in [Processes -> Refs]
      /\ prov \in [Provisioners -> Prov]
  BY DEF TypeOK
<1>1. CASE ~Acts(x)
  BY <1>1, ProcessMoves DEF Stays
<1>2. CASE \E c \in Candidates : StartOn(x, c)
  <2>1. PICK c \in Candidates : StartOn(x, c)
    BY <1>2
  <2>2. of'[x] = c /\ prov[x] = NoProv
    BY <1>0, <2>1 DEF StartOn, Starts, At, PhaseInv
  <2>3. prov' = prov \/ prov' = [prov EXCEPT ![x].prior = setup[c]]
    BY <2>1 DEF StartOn
  <2>4. /\ prov'[x].prior = prov[x].prior \/ prov'[x].prior = setup[c]
        /\ prov'[x].base = prov[x].base /\ prov'[x].cut = prov[x].cut
        /\ prov'[x].created = prov[x].created
    BY <1>0, <2>3 DEF Prov
  <2>5. prov[x].base = None /\ prov[x].cut = None
    BY <2>2 DEF NoProv
  <2>6. CASE prov' = prov
    BY <2>2, <2>6
  <2>7. CASE prov' = [prov EXCEPT ![x].prior = setup[c]]
    <3>1. prov'[x].prior = setup[c]
      BY <1>0, <2>7 DEF Prov
    <3> QED
      BY <2>2, <2>4, <2>5, <3>1
  <2> QED
    BY <2>3, <2>6, <2>7
<1>3. CASE ReadBase(x)
  <2>1. prov[x].cut = None
    BY <1>3 DEF ReadBase, At, PhaseInv
  <2> QED
    BY <1>0, <1>3, <2>1 DEF ReadBase, Prov
<1>4. CASE CutBranch(x)
  <2>1. of[x] \in Candidates
    BY <1>4 DEF CutBranch, At, PlaceInv, Isolated
  <2> QED
    BY <1>0, <1>4, <2>1 DEF CutBranch, Prov
<1>5. CASE TakeBranch(x) \/ RecordSetup(x)
  BY <1>0, <1>5 DEF TakeBranch, RecordSetup
<1>6. CASE x \in Runs /\ StartOnMain(x)
  <2>1. prov'[x] = prov[x] /\ prov[x] = NoProv
    BY <1>0, <1>6 DEF StartOnMain, Starts, At, PhaseInv, mine
  <2> QED
    BY <2>1
<1>7. CASE x \in Runs /\ (CreateCatalog(x) \/ TakeCatalog(x) \/ RefuseCatalog(x) \/ UndoBranch(x))
  BY <1>0, <1>7 DEF CreateCatalog, TakeCatalog, RefuseCatalog, UndoBranch, mine, Prov
<1>8. CASE x \in Runs /\ (\/ \E selected \in Selects[x] : \E reused \in SUBSET selected :
                               Begin(x, selected, reused)
                          \/ \E m \in Models : Write(x, m) \/ Note(x, m)
                          \/ \E tests \in {"passed", "cancelled"} : Pass(x, tests)
                          \/ Fail(x) \/ ResolveRun(x) \/ BindRun(x))
  BY <1>0, <1>8
     DEF Begin, Write, Note, Pass, Fail, ResolveRun, BindRun, process, mine
<1> QED
  BY <1>1, <1>2, <1>3, <1>4, <1>5, <1>6, <1>7, <1>8 DEF Acts

\* Main has all that a commit it has contains.
LEMMA BehindWithin ==
    ASSUME TypeOK, HistoryInv, NEW k \in 0..Len(commits), Behind(k), NEW n \in Contains(k)
    PROVE  Behind(n)
<1> USE Ranges
<1>1. k # None
  BY DEF Contains
<1>2. k \in Contains(head[Main]) /\ head[Main] \in 0..Len(commits)
  BY <1>1 DEF Behind
<1>3. Contains(k) \subseteq Contains(head[Main])
  BY <1>2, Within
<1> QED
  BY <1>3 DEF Behind

LEMMA MainInvStep ==
    ASSUME TypeOK, PlaceInv, HistoryInv, HashInv, PhaseInv, MainInv, [Next]_vars
    PROVE  MainInv'
<1> USE Ranges
<1> SUFFICES ASSUME resets' = 0
             PROVE  /\ \A x \in Provisioners : \A n : n = prov'[x].base => Behind(n)'
                    /\ \A e \in merges' : Contains(e.from)' \subseteq Contains(head[Main])'
  BY DEF MainInv, Behind
<1>0. resets = 0 /\ Contains(head[Main]) \subseteq Contains(head[Main])'
      /\ \A n \in 0..Len(commits) : Behind(n) => Behind(n)'
  BY MainStep
<1>1. ASSUME NEW x \in Provisioners, NEW n, n = prov'[x].base PROVE Behind(n)'
  <2>1. prov[x].base \in 0..Len(commits) /\ Behind(prov[x].base)
    BY <1>0 DEF TypeOK, MainInv
  <2>2. head[Main] \in 0..Len(commits) /\ Behind(head[Main])
    BY DEF HistoryInv, Behind, Contains, None
  <2>3. None \in 0..Len(commits) /\ Behind(None)
    BY DEF Behind, None
  <2>4. prov'[x].base \in {prov[x].base, head[Main], None}
    BY ProvMoves DEF NoProv
  <2>5. n \in 0..Len(commits) /\ Behind(n)
    BY <1>1, <2>1, <2>2, <2>3, <2>4
  <2> QED
    BY <1>0, <2>5
<1>2. ASSUME NEW e \in merges' PROVE Contains(e.from)' \subseteq Contains(head[Main])'
  <2>1. CASE e \in merges
    <3>1. e.from \in 0..Len(commits) /\ Contains(e.from) \subseteq Contains(head[Main])
      BY <1>0, <2>1 DEF HashInv, Hash, MainInv
    <3>2. Contains(e.from)' = Contains(e.from)
      BY <3>1, CommitsStay
    <3> QED
      BY <1>0, <3>1, <3>2
  <2>2. CASE e \notin merges
    <3>1. PICK p \in Promoters : DoMerge(p)
      BY <1>2, <2>2, RecordMoves
    <3> DEFINE cand == eval[p].cand
               onto == Expected(eval[p])
               new == [by |-> p, run |-> eval[p].run, from |-> cand,
                       onto |-> onto, into |-> head'[Main],
                       eval |-> eval[p], resets |-> resets]
    <3>2. merges' = merges \cup {new} /\ head[Main] = onto /\ new.from = cand
      BY <3>1 DEF DoMerge
    <3> HIDE DEF new
    <3>3. e.from = cand
      BY <1>2, <2>2, <3>2
    <3>4. cand \in 0..Len(commits) /\ onto \in 0..Len(commits)
      BY <3>2 DEF HashInv, Hash
    <3>5. Contains(e.from)' = Contains(cand)
      <4>1. Contains(e.from)' = Contains(e.from)
        BY <3>3, <3>4, CommitsStay
      <4> QED
        BY <3>3, <4>1
    <3>6. CASE cand \in Contains(onto)
      <4>1. Contains(cand) \subseteq Contains(onto)
        BY <3>4, <3>6, Within
      <4> QED
        BY <1>0, <3>2, <3>5, <4>1
    <3>7. CASE cand \notin Contains(onto)
      <4> DEFINE k == Len(commits) + 1
                 contained == Contains(onto) \cup Contains(cand)
      <4>1. Put(Main, MergedTables(cand, onto), contained)
        BY <3>1, <3>7 DEF DoMerge
      <4>2. head'[Main] = k /\ commits'[k].contains = contained \cup {k} /\ k # None
        BY <4>1, PutAppends DEF None
      <4>3. Contains(head[Main])' = contained \cup {k}
        BY <4>2 DEF Contains
      <4> QED
        BY <3>5, <4>3
    <3> QED
      BY <3>6, <3>7
  <2> QED
    BY <2>1, <2>2
<1> QED
  BY <1>1, <1>2

LEMMA CutInvStep ==
    ASSUME TypeOK, PlaceInv, HistoryInv, HashInv, PhaseInv, MainInv, CutInv, [Next]_vars
    PROVE  CutInv'
<1> USE Ranges
<1> SUFFICES ASSUME resets' = 0, NEW x \in Provisioners, prov'[x].cut # None,
                    NEW n \in Contains(head[of[x]])', n <= prov'[x].cut
             PROVE  Behind(n)'
  BY DEF CutInv, Behind
<1>0. resets = 0 /\ \A k \in 0..Len(commits) : Behind(k) => Behind(k)'
  BY MainStep
<1>1. of'[x] = of[x] /\ \/ prov'[x].cut = prov[x].cut
                        \/ CutBranch(x) /\ of[x] \in Candidates
  BY ProvMoves DEF NoProv
<1> DEFINE c == of[x]
<1>2. n \in (IF head'[c] = None THEN {} ELSE commits'[head'[c]].contains)
  BY <1>1 DEF Contains
<1>3. CASE c \notin Candidates
  <2>1. c = Main
    BY <1>3 DEF TypeOK, Refs
  <2> QED
    BY <1>1, <2>1 DEF Behind
<1>4. ASSUME c \in Candidates, Behind(head'[c]), head'[c] \in 0..Len(commits), commits' = commits
      PROVE  Behind(n)'
  <2>1. n \in Contains(head'[c])
    BY <1>2, <1>4 DEF Contains
  <2>2. Behind(n) /\ n \in 0..Len(commits)
    BY <1>4, <2>1, BehindWithin, CommitTypes
  <2> QED
    BY <1>0, <2>2
<1>5. CASE c \in Candidates /\ CutBranch(x)
  <2>1. head'[c] = prov[x].base /\ commits' = commits
    BY <1>5 DEF CutBranch, TypeOK
  <2>2. Behind(prov[x].base) /\ prov[x].base \in 0..Len(commits)
    BY <1>0 DEF MainInv, TypeOK
  <2> QED
    BY <1>4, <1>5, <2>1, <2>2
<1>6. CASE c \in Candidates /\ prov'[x].cut = prov[x].cut
  <2>1. prov[x].cut \in 0..Len(commits)
    BY DEF HashInv, Hash
  <2>2. head[c] \in 0..Len(commits)
    BY <1>6
  <2>3. ASSUME n \in Contains(head[c]) PROVE Behind(n)'
    <3>1. Behind(n)
      BY <1>0, <1>6, <2>3 DEF CutInv
    <3>2. n \in 0..Len(commits)
      BY <2>2, <2>3, CommitTypes
    <3> QED
      BY <1>0, <3>1, <3>2
  <2>4. CASE head'[c] = head[c]
    <3>1. \A k \in 0..Len(commits) :
            Contains(k) = IF k = None THEN {} ELSE commits'[k].contains
      BY CommitsStay DEF Contains
    <3>2. n \in Contains(head[c])
      BY <1>2, <2>2, <2>4, <3>1
    <3> QED
      BY <2>3, <3>2
  <2>5. CASE Removed(c)
    BY <1>2, <2>5 DEF Removed
  <2>6. CASE Written(c)
    <3>1. Contains(head[c])' = Contains(head[c]) \cup {Len(commits) + 1}
      BY <2>6 DEF Written
    <3>2. n \in Contains(head[c])'
      BY <1>2 DEF Contains
    <3>3. n # Len(commits) + 1
      BY <1>6, <2>1
    <3> QED
      BY <2>3, <3>1, <3>2, <3>3
  <2>7. CASE MadeAt(c)
    <3>1. head'[c] \in 0..Len(commits)
      <4>1. Contains(head[Main]) \subseteq 1..Len(commits)
        BY CommitTypes
      <4> QED
        BY <2>7, <4>1 DEF MadeAt, Behind, None
    <3> QED
      BY <1>4, <1>6, <2>7, <3>1 DEF MadeAt
  <2> QED
    BY <1>0, <1>6, <2>4, <2>5, <2>6, <2>7, BranchStep
<1> QED
  BY <1>1, <1>3, <1>5, <1>6

LEMMA MadeInvStep ==
    ASSUME TypeOK, PlaceInv, HistoryInv, MainInv, MadeInv, [Next]_vars
    PROVE  MadeInv'
<1> USE Ranges
<1> SUFFICES ASSUME resets' = 0, NEW c \in Candidates, made'[c] = "never"
             PROVE  head'[c] = None
  BY DEF MadeInv
<1>1. resets = 0
  BY MainStep
<1>2. ~MadeAt(c)
  BY DEF MadeAt
<1> QED
  BY <1>1, <1>2, BranchStep DEF MadeInv, Removed, Written

\* A claim is handed on, but for that of a branch being cut.
LEMMA ClaimMoves ==
    ASSUME TypeOK, PlaceInv, PhaseInv, [Next]_vars, NEW c \in Candidates, NEW n \in Claims(c)'
    PROVE  \/ n = None \/ n \in Claims(c)
           \/ \E x \in Provisioners : CutBranch(x) /\ of[x] = c /\ n = prov[x].base
<1> USE Ranges, Apart
<1> DEFINE Goal == \/ n = None \/ n \in Claims(c)
                   \/ \E x \in Provisioners : CutBranch(x) /\ of[x] = c /\ n = prov[x].base
<1>0. NoProv.prior = {} /\ NoProv.cut = None /\ NoEval.setup = {}
  BY DEF NoProv, NoEval
<1>1. ASSUME NEW s \in setup'[c], n = s.from PROVE Goal
  <2>1. CASE setup'[c] \subseteq setup[c]
    BY <1>1, <2>1 DEF Claims, Records, On
  <2>2. CASE \E x \in Provisioners : RecordSetup(x) /\ of[x] = c
    <3>1. PICK x \in Provisioners : RecordSetup(x) /\ of[x] = c
      BY <2>2
    <3>2. s = Provisioned(x)
      BY <1>1, <3>1 DEF RecordSetup, TypeOK
    <3>3. CASE prov[x].cut # None
      <4>1. n = prov[x].base
        BY <1>1, <3>2, <3>3 DEF Provisioned
      <4> QED
        BY <3>1, <3>3, <4>1 DEF Claims, On
    <3>4. CASE prov[x].cut = None /\ prov[x].prior = {}
      BY <1>1, <3>2, <3>4 DEF Provisioned
    <3>5. CASE prov[x].cut = None /\ prov[x].prior # {}
      <4>1. n = (CHOOSE q \in prov[x].prior : TRUE).from
        BY <1>1, <3>2, <3>5 DEF Provisioned
      <4>2. n \in {q.from : q \in prov[x].prior}
        BY <3>5, <4>1
      <4> QED
        BY <3>1, <4>2 DEF Claims, Records, On
    <3> QED
      BY <3>3, <3>4, <3>5
  <2> QED
    BY <2>1, <2>2, RecordMoves
<1>2. ASSUME NEW x \in Provisioners, of'[x] = c, NEW s \in prov'[x].prior, n = s.from
      PROVE  Goal
  <2>1. (of[x] = c /\ s \in prov[x].prior) \/ s \in setup[c]
    BY <1>0, <1>2, ProvMoves
  <2> QED
    BY <1>2, <2>1 DEF Claims, Records, On
<1>3. ASSUME NEW x \in Provisioners, of'[x] = c, prov'[x].cut # None, n = prov'[x].base
      PROVE  Goal
  <2>1. /\ of[x] = c /\ n = prov[x].base
        /\ prov[x].cut # None \/ CutBranch(x)
    BY <1>0, <1>3, ProvMoves
  <2> QED
    BY <1>3, <2>1 DEF Claims, Records, On
<1>4. ASSUME NEW p \in Promoters, of'[p] = c, NEW s \in eval'[p].setup, n = s.from
      PROVE  Goal
  <2>1. (of[p] = c /\ s \in eval[p].setup) \/ s \in setup[c]
    BY <1>0, <1>4, EvalMoves DEF PhaseInv
  <2> QED
    BY <1>4, <2>1 DEF Claims, Records, On
<1>5. \/ \E s \in setup'[c] : n = s.from
      \/ \E x \in Provisioners : of'[x] = c /\ \E s \in prov'[x].prior : n = s.from
      \/ \E x \in Provisioners : of'[x] = c /\ prov'[x].cut # None /\ n = prov'[x].base
      \/ \E p \in Promoters : of'[p] = c /\ \E s \in eval'[p].setup : n = s.from
  BY DEF Claims, Records, On
<1> QED
  BY <1>1, <1>2, <1>3, <1>4, <1>5

LEMMA ClaimInvStep ==
    ASSUME TypeOK, PlaceInv, HistoryInv, PhaseInv, MainInv, ClaimInv, [Next]_vars
    PROVE  ClaimInv'
<1> USE Ranges
<1> SUFFICES ASSUME resets' = 0, NEW c \in Candidates, NEW n \in Claims(c)', n # None
             PROVE  /\ made'[c] # "never"
                    /\ n \in Contains(head[Main])'
                    /\ made'[c] = "afresh" /\ head'[c] # None => n \in Contains(head[c])'
  BY DEF ClaimInv
<1>0. /\ resets = 0 /\ Contains(head[Main]) \subseteq Contains(head[Main])'
      /\ \A k \in 0..Len(commits) : Contains(k) = IF k = None THEN {} ELSE commits'[k].contains
  BY MainStep, CommitsStay DEF Contains
<1>1. CASE n \in Claims(c)
  <2>1. /\ made[c] # "never" /\ n \in Contains(head[Main])
        /\ made[c] = "afresh" /\ head[c] # None => n \in Contains(head[c])
    BY <1>0, <1>1 DEF ClaimInv
  <2>2. head[c] \in 0..Len(commits) /\ head[Main] \in 0..Len(commits)
    OBVIOUS
  <2>3. CASE head'[c] = head[c] /\ made'[c] = made[c]
    <3>1. Contains(head[c])' = Contains(head[c])
      <4>1. Contains(head[c])' = IF head'[c] = None THEN {} ELSE commits'[head'[c]].contains
        BY DEF Contains
      <4> QED
        BY <1>0, <2>2, <2>3, <4>1
    <3> QED
      BY <1>0, <2>1, <2>3, <3>1
  <2>4. CASE Removed(c) \/ Written(c)
    BY <1>0, <2>1, <2>4 DEF Removed, Written
  <2>5. CASE MadeAt(c)
    <3>1. made'[c] # "never"
      BY <2>5 DEF MadeAt
    <3>2. ASSUME made'[c] = "afresh" PROVE n \in Contains(head[c])'
      <4>1. head'[c] = head'[Main]
        BY <2>1, <2>5, <3>2 DEF MadeAt
      <4>2. n \in Contains(head[Main])'
        BY <1>0, <2>1
      <4> QED
        BY <4>1, <4>2 DEF Contains
    <3> QED
      BY <1>0, <2>1, <3>1, <3>2
  <2> QED
    BY <1>0, <2>3, <2>4, <2>5, BranchStep
<1>2. CASE \E x \in Provisioners : CutBranch(x) /\ of[x] = c /\ n = prov[x].base
  <2>1. PICK x \in Provisioners : CutBranch(x) /\ of[x] = c /\ n = prov[x].base
    BY <1>2
  <2>2. n \in Contains(head[Main]) /\ n \in 0..Len(commits)
    BY <1>0, <2>1 DEF MainInv, Behind, TypeOK
  <2>3. made'[c] # "never"
    BY <2>1 DEF CutBranch, Made, TypeOK
  <2>4. head'[c] = n
    BY <2>1 DEF CutBranch, TypeOK
  <2>5. n \in Contains(n)
    BY <2>2, Within
  <2>6. Contains(head[c])' = IF n = None THEN {} ELSE commits'[n].contains
    BY <2>4 DEF Contains
  <2> QED
    BY <1>0, <2>2, <2>3, <2>5, <2>6
<1> QED
  BY <1>1, <1>2, ClaimMoves

\* What a report shows stays shown: references do not come back to a commit they
\* left, but for branches made at one that Main has.
LEMMA SeenStays ==
    ASSUME TypeOK, PlaceInv, HistoryInv, MainInv, [Next]_vars, resets' = 0,
           NEW c \in Candidates, NEW d, Hash(d.cand), Hash(d.base), Seen(c, d)
    PROVE  Seen(c, d)'
<1> USE Ranges
<1>0. /\ d.cand \in 0..Len(commits) /\ d.base \in 0..Len(commits)
      /\ TablesAt(d.cand)' = TablesAt(d.cand) /\ TablesAt(d.base)' = TablesAt(d.base)
      /\ Behind(d.cand) => Behind(d.cand)'
  BY CommitsStay, MainStep DEF Hash
<1>1. CASE d.breaks
  BY <1>1 DEF Seen
<1>2. CASE ~Breaks(TablesAt(d.cand), TablesAt(d.base))
  BY <1>0, <1>2 DEF Seen, Breaks
<1>3. CASE head[Main] # d.base
  <2>1. head'[Main] # d.base
    BY <1>0, <1>3, MainStep
  <2> QED
    BY <2>1 DEF Seen
<1>4. CASE Behind(d.cand)
  BY <1>0, <1>4 DEF Seen
<1>5. CASE head[c] # d.cand
  <2>1. CASE head'[c] # d.cand
    BY <2>1 DEF Seen
  <2>2. CASE head'[c] = d.cand
    <3>1. Removed(c) \/ MadeAt(c)
      BY <1>0, <1>5, <2>2, BranchStep DEF Written
    <3>2. Behind(d.cand)
      BY <2>2, <3>1 DEF Removed, MadeAt, Behind
    <3> QED
      BY <1>0, <3>2 DEF Seen
  <2> QED
    BY <2>1, <2>2
<1> QED
  BY <1>1, <1>2, <1>3, <1>4, <1>5 DEF Seen

LEMMA SeenInvStep ==
    ASSUME TypeOK, PlaceInv, HistoryInv, HashInv, PhaseInv, MainInv, SeenInv, [Next]_vars
    PROVE  SeenInv'
<1> USE Ranges, Apart
<1> SUFFICES ASSUME resets' = 0, NEW c \in Candidates
             PROVE  /\ \A d \in report'[c] : Seen(c, d)'
                    /\ \A p \in Promoters : of'[p] = c => \A d \in eval'[p].report : Seen(c, d)'
  BY DEF SeenInv
<1>0. resets = 0
  BY MainStep
<1>1. ASSUME NEW d \in report[c] PROVE Seen(c, d)'
  <2>1. Seen(c, d) /\ Hash(d.cand) /\ Hash(d.base)
    BY <1>0, <1>1 DEF SeenInv, HashInv
  <2> QED
    BY <2>1, SeenStays
<1>2. ASSUME NEW d \in report'[c] PROVE Seen(c, d)'
  <2>1. CASE report'[c] = report[c]
    BY <1>1, <1>2, <2>1
  <2>2. CASE \E a \in Auditors, v \in Verdicts : Compare(a, v) /\ of[a] = c
    <3>0. PICK a \in Auditors, v \in Verdicts : Compare(a, v) /\ of[a] = c
      BY <2>2
    <3> DEFINE new == [cand |-> look[a].cand, base |-> look[a].base,
                       candTables |-> look[a].candTables, baseTables |-> look[a].baseTables,
                       breaks |-> \/ head[of[a]] = None
                                  \/ Breaks(TablesAt(head[of[a]]), TablesAt(head[Main])),
                       verdict |-> v]
    <3>1. /\ new.cand = look[a].cand /\ new.base = look[a].base
          /\ new.breaks = (\/ head[c] = None
                           \/ Breaks(TablesAt(head[c]), TablesAt(head[Main])))
      BY <3>0
    <3>4. report'[c] = {new}
      BY <3>0 DEF Compare, TypeOK
    <3>5. d = new
      BY <1>2, <3>4
    <3> HIDE DEF new
    <3>2. Hash(d.cand) /\ Hash(d.base)
      BY <3>1, <3>5 DEF HashInv
    <3>3. Seen(c, d)
      BY <3>1, <3>5 DEF Seen
    <3> QED
      BY <3>2, <3>3, SeenStays
  <2> QED
    BY <2>1, <2>2, RecordMoves
<1>3. ASSUME NEW p \in Promoters, of'[p] = c, NEW d \in eval'[p].report PROVE Seen(c, d)'
  <2>1. NoEval.report = {}
    BY DEF NoEval
  <2>2. \/ of[p] = c /\ d \in eval[p].report
        \/ d \in report[c]
    BY <1>3, <2>1, EvalMoves DEF PhaseInv
  <2>3. CASE of[p] = c /\ d \in eval[p].report
    <3>1. Seen(c, d) /\ Hash(d.cand) /\ Hash(d.base)
      BY <1>0, <2>3 DEF SeenInv, HashInv
    <3> QED
      BY <3>1, SeenStays
  <2> QED
    BY <1>1, <2>2, <2>3
<1> QED
  BY <1>2, <1>3

-----------------------------------------------------------------------------
(***************************************************************************)
(* What a promotion knows when it merges.                                  *)
(***************************************************************************)
LEMMA EndMoves ==
    ASSUME TypeOK, [Next]_vars, NEW p \in Promoters
    PROVE  /\ at'[p] = "again" =>
                \/ at[p] = "again" /\ eval'[p] = eval[p]
                \/ SchemaGate(eval'[p])
           /\ at'[p] = "merge" =>
                /\ eval'[p] = eval[p] /\ of'[p] = of[p]
                /\ \/ at[p] = "merge"
                   \/ /\ at[p] = "again" /\ head[of[p]] = eval[p].cand
                      /\ head[Main] = Expected(eval[p]) /\ head' = head /\ commits' = commits
<1> USE Ranges, Apart
<1>0. at \in [Processes -> Place] /\ eval \in [Promoters -> Eval]
  BY DEF TypeOK
<1>1. CASE ~Acts(p)
  BY <1>1, ProcessMoves DEF Stays
<1>2. CASE (\E c \in Candidates : StartPromote(p, c)) \/ EvalTarget(p) \/ EvalRun(p)
           \/ EvalEvidence(p)
  <2>1. at'[p] \in {"target", "run", "evidence", "gates", "done"}
    BY <1>0, <1>2 DEF StartPromote, Starts, EvalTarget, EvalRun, EvalEvidence, Evaluate, At
  <2> QED
    BY <2>1
<1>3. ASSUME NEW option \in Options, Gates(p, option)
      PROVE  at'[p] # "merge" /\ (at'[p] = "again" => SchemaGate(eval'[p]))
  <2> DEFINE e == [eval[p] EXCEPT !.option = option]
             ok == SchemaGate(e) /\ DataGate(e) /\ BaseGate(e) /\ MergeGate(of[p])
  <2>1. /\ at' = [at EXCEPT ![p] = IF ok THEN "again" ELSE "done"]
        /\ eval' = [eval EXCEPT ![p] = IF ok THEN e ELSE NoEval]
    BY <1>3 DEF Gates, Evaluate, At
  <2>2. ok => SchemaGate(e)
    OBVIOUS
  <2> HIDE DEF ok, e
  <2> QED
    BY <1>0, <2>1, <2>2
<1>4. CASE ReadAgain(p)
  <2> DEFINE ok == head[of[p]] = eval[p].cand /\ head[Main] = Expected(eval[p])
  <2>1. /\ at[p] = "again" /\ at' = [at EXCEPT ![p] = IF ok THEN "merge" ELSE "done"]
        /\ eval' = [eval EXCEPT ![p] = IF ok THEN eval[p] ELSE NoEval]
        /\ of' = of /\ head' = head /\ commits' = commits
    BY <1>4 DEF ReadAgain, Evaluate, At, world
  <2> QED
    BY <1>0, <2>1
<1>5. CASE DoMerge(p) \/ FailMerge(p) \/ DropCatalog(p) \/ DeleteBranch(p) \/ FailCleanup(p)
           \/ Forget(p)
  <2>1. at'[p] \in {"done", "drop", "find", "forget"}
    BY <1>0, <1>5
       DEF DoMerge, FailMerge, Evaluate, DropCatalog, DeleteBranch, FailCleanup, Forget, At
  <2> QED
    BY <2>1
<1> QED
  BY <1>1, <1>2, <1>3, <1>4, <1>5 DEF Acts

LEMMA Unbroken ==
    ASSUME NEW tables
    PROVE  ~Breaks(TablesAt(None), tables)
  BY NameAssumption DEF Breaks, TablesAt, NoTables, None

\* promote reads both references again, and they are where the evidence says.
LEMMA AgainKnows ==
    ASSUME TypeOK, PlaceInv, OneInv, VetInv, HistoryInv, ClaimInv, SeenInv, EndInv,
           resets = 0, NEW p \in Promoters, at[p] = "again", head[of[p]] = eval[p].cand,
           head[Main] = Expected(eval[p])
    PROVE  NoBreak(eval[p], Expected(eval[p])) /\ FromOrigin(of[p], eval[p], Expected(eval[p]))
<1> USE Ranges
<1> DEFINE e == eval[p]
           c == of[p]
           onto == Expected(e)
<1>1. c \in Candidates
  BY DEF PlaceInv, Isolated
<1>2. /\ Vets(e.cand, e.run) /\ BaseGate(e) /\ SchemaGate(e)
      /\ e.fresh => \E d \in e.report : d.cand = e.cand /\ d.base = e.target
  BY DEF VetInv, Knows, EndInv
<1>3. e.cand # None /\ onto # None /\ onto = e.target
  BY <1>2 DEF Vets, BaseGate
<1>4. NoBreak(e, onto)
  <2>1. CASE e.option.waive
    BY <2>1 DEF NoBreak
  <2>2. CASE ~e.option.waive
    <3>1. e.fresh /\ \A d \in e.report : ~d.breaks
      BY <1>2, <2>2 DEF SchemaGate
    <3>2. PICK d \in e.report : d.cand = e.cand /\ d.base = e.target
      BY <1>2, <3>1
    <3>3. Seen(c, d)
      BY <1>1, <3>2 DEF SeenInv
    <3>4. ~Breaks(TablesAt(e.cand), TablesAt(onto)) \/ e.cand \in Contains(onto)
      BY <1>3, <3>1, <3>2, <3>3 DEF Seen, Behind
    <3> QED
      BY <3>4 DEF NoBreak
  <2> QED
    BY <2>1, <2>2
<1>5. ASSUME e.report = {}, made[c] # "behind" PROVE onto \in Contains(e.cand)
  <2>1. e.setup # {} /\ onto = (CHOOSE s \in e.setup : TRUE).from
    BY <1>3, <1>5 DEF Expected
  <2>2. PICK s \in e.setup : onto = s.from
    BY <2>1
  <2>3. onto \in Claims(c)
    BY <2>2 DEF Claims, Records, On
  <2>4. made[c] # "never" /\ (made[c] = "afresh" /\ head[c] # None => onto \in Contains(head[c]))
    BY <1>1, <1>3, <2>3 DEF ClaimInv
  <2>5. made[c] = "afresh"
    BY <1>1, <1>5, <2>4 DEF TypeOK
  <2> QED
    BY <1>3, <2>4, <2>5
<1> QED
  BY <1>4, <1>5 DEF FromOrigin

\* A branch made behind Main stays one.
LEMMA MadeWorsens ==
    ASSUME TypeOK, PlaceInv, [Next]_vars, NEW c \in Candidates, made[c] = "behind"
    PROVE  made'[c] = "behind"
<1> USE Ranges
<1>1. ASSUME NEW k, NEW n, Made(k, n) PROVE made'[c] = "behind"
  BY <1>1 DEF Made, TypeOK
<1>2. CASE (\E x \in Provisioners : CutBranch(x))
           \/ (\E k \in Candidates, n \in 1..Len(commits) : ForeignBranch(k, n))
  BY <1>1, <1>2 DEF CutBranch, ForeignBranch
<1>3. CASE made' = made
  BY <1>3
<1>4. CASE MoveStep
  BY <1>2, <1>3, <1>4 DEF MoveStep, UndoBranch, Write, DoMerge, DeleteBranch, Rollback
<1> QED
  BY <1>3, <1>4, StillStep

LEMMA EndInvStep ==
    ASSUME TypeOK, PlaceInv, OneInv, VetInv, HistoryInv, HashInv, PhaseInv, MainInv,
           ClaimInv, SeenInv, EndInv, [Next]_vars
    PROVE  EndInv'
<1> USE Ranges, Apart
<1>1. ASSUME NEW p \in Promoters, at'[p] = "again" PROVE SchemaGate(eval'[p])
  BY <1>1, EndMoves DEF EndInv
<1>2. ASSUME NEW p \in Promoters, NEW e, e = eval'[p], NEW onto, onto = Expected(e),
             NEW c, c = of'[p], at'[p] = "merge", resets' = 0
      PROVE  Hash(onto)' /\ NoBreak(e, onto)' /\ FromOrigin(c, e, onto)'
  <2>0. resets = 0
    BY <1>2, MainStep
  <2>1. e = eval[p] /\ c = of[p]
    BY <1>2, EndMoves
  <2>2. Hash(onto) /\ NoBreak(e, onto) /\ FromOrigin(c, e, onto)
    <3>1. CASE at[p] = "merge"
      BY <1>2, <2>0, <2>1, <3>1 DEF EndInv
    <3>2. CASE at[p] # "merge"
      <4>1. at[p] = "again" /\ head[of[p]] = eval[p].cand /\ head[Main] = Expected(eval[p])
        BY <1>2, <3>2, EndMoves
      <4>2. NoBreak(eval[p], Expected(eval[p])) /\ FromOrigin(of[p], eval[p], Expected(eval[p]))
        BY <2>0, <4>1, AgainKnows
      <4>3. Hash(head[Main])
        BY DEF Hash
      <4> QED
        BY <1>2, <2>1, <4>1, <4>2, <4>3
    <3> QED
      BY <3>1, <3>2
  <2>3. c \in Candidates
    <3>1. at[p] = "merge" \/ at[p] = "again"
      BY <1>2, EndMoves
    <3> QED
      BY <2>1, <3>1 DEF PlaceInv, Isolated
  <2>4. e.cand \in 0..Len(commits) /\ onto \in 0..Len(commits)
    BY <2>1, <2>2 DEF HashInv, Hash
  <2>5. /\ Contains(onto)' = Contains(onto) /\ Contains(e.cand)' = Contains(e.cand)
        /\ TablesAt(onto)' = TablesAt(onto) /\ TablesAt(e.cand)' = TablesAt(e.cand)
    BY <2>4, CommitsStay
  <2>6. Hash(onto)'
    BY <2>4, CommitsStay DEF Hash
  <2>7. NoBreak(e, onto)'
    BY <2>2, <2>5 DEF NoBreak, Breaks
  <2>8. FromOrigin(c, e, onto)'
    BY <2>2, <2>3, <2>5, MadeWorsens DEF FromOrigin
  <2> QED
    BY <2>6, <2>7, <2>8
<1>3. ASSUME NEW e \in merges'
      PROVE  /\ Breaks(TablesAt(e.into)', TablesAt(e.onto)') => e.eval.option.waive \/ e.resets # 0
             /\ e.eval.report = {} /\ e.resets = 0 /\ made'[of'[e.by]] # "behind" =>
                    e.onto \in Contains(e.from)'
  <2>1. CASE e \in merges
    <3>1. /\ e.by \in Promoters /\ at[e.by] # "idle" /\ of[e.by] \in Candidates
          /\ e.from \in 0..Len(commits) /\ e.onto \in 0..Len(commits)
          /\ e.into \in 0..Len(commits)
      BY <2>1 DEF TypeOK, Merge, PhaseInv, HashInv, Hash
    <3>2. /\ TablesAt(e.into)' = TablesAt(e.into) /\ TablesAt(e.onto)' = TablesAt(e.onto)
          /\ Contains(e.from)' = Contains(e.from)
      BY <3>1, CommitsStay
    <3>3. of'[e.by] = of[e.by]
      BY <3>1, OfStays
    <3>4. /\ Breaks(TablesAt(e.into), TablesAt(e.onto)) => e.eval.option.waive \/ e.resets # 0
          /\ e.eval.report = {} /\ e.resets = 0 /\ made[of[e.by]] # "behind" =>
                    e.onto \in Contains(e.from)
      BY <2>1 DEF EndInv, NoUnseenBreak, ProvenanceHolds
    <3> QED
      BY <3>1, <3>2, <3>3, <3>4, MadeWorsens
  <2>2. CASE e \notin merges
    <3>1. PICK p \in Promoters : DoMerge(p)
      BY <1>3, <2>2, RecordMoves
    <3> DEFINE f == eval[p]
               onto == Expected(f)
               new == [by |-> p, run |-> f.run, from |-> f.cand, onto |-> onto,
                       into |-> head'[Main], eval |-> f, resets |-> resets]
    <3>2. /\ merges' = merges \cup {new}
          /\ new.by = p /\ new.from = f.cand /\ new.onto = onto /\ new.into = head'[Main]
          /\ new.eval = f /\ new.resets = resets
      BY <3>1 DEF DoMerge
    <3>3. e = new
      BY <1>3, <2>2, <3>2
    <3> HIDE DEF new
    <3>4. /\ at[p] = "merge" /\ of[p] \in Candidates /\ head[Main] = onto
          /\ of'[p] = of[p] /\ made' = made
      BY <3>1 DEF DoMerge, At, PlaceInv, Isolated
    <3>5. f.cand \in 0..Len(commits) /\ onto \in 0..Len(commits)
      BY <3>4 DEF HashInv, Hash
    <3>6. /\ TablesAt(e.onto)' = TablesAt(e.onto) /\ TablesAt(e.from)' = TablesAt(e.from)
          /\ Contains(e.from)' = Contains(e.from)
      BY <3>2, <3>3, <3>5, CommitsStay
    <3>7. resets = 0 => NoBreak(f, onto) /\ FromOrigin(of[p], f, onto)
      BY <3>4 DEF EndInv
    <3>8. ASSUME resets = 0, Breaks(TablesAt(e.into)', TablesAt(e.onto)') PROVE f.option.waive
      <4>1. CASE f.cand \in Contains(onto)
        <5>1. e.into = e.onto
          BY <3>1, <3>2, <3>3, <3>4, <4>1 DEF DoMerge
        <5> QED
          BY <3>8, <5>1 DEF Breaks
      <4>2. CASE f.cand \notin Contains(onto)
        <5> DEFINE k == Len(commits) + 1
        <5>1. Put(Main, MergedTables(f.cand, onto), Contains(onto) \cup Contains(f.cand))
          BY <3>1, <4>2 DEF DoMerge
        <5>2. head'[Main] = k /\ commits'[k].tables = MergedTables(f.cand, onto) /\ k # None
          BY <5>1, PutAppends DEF None
        <5>3. TablesAt(e.into)' = MergedTables(f.cand, onto)
          BY <3>2, <3>3, <5>2 DEF TablesAt
        <5>4. PICK m \in Models : /\ MergedTables(f.cand, onto)[m] \in Narrow
                                  /\ TablesAt(onto)[m] \notin Narrow
          BY <3>2, <3>3, <3>6, <3>8, <5>3 DEF Breaks
        <5>5. MergedTables(f.cand, onto)[m] \in {TablesAt(f.cand)[m], TablesAt(onto)[m]}
          BY DEF MergedTables
        <5>6. Breaks(TablesAt(f.cand), TablesAt(onto))
          BY <5>4, <5>5 DEF Breaks
        <5> QED
          BY <3>7, <3>8, <4>2, <5>6 DEF NoBreak
      <4> QED
        BY <4>1, <4>2
    <3>9. ASSUME f.report = {}, resets = 0, made[of[p]] # "behind"
          PROVE  e.onto \in Contains(e.from)'
      BY <3>2, <3>3, <3>6, <3>7, <3>9 DEF FromOrigin
    <3> QED
      BY <3>2, <3>3, <3>4, <3>8, <3>9
  <2> QED
    BY <2>1, <2>2
<1>4. NoUnseenBreak' /\ ProvenanceHolds'
  BY <1>3 DEF NoUnseenBreak, ProvenanceHolds
<1> QED
  BY <1>1, <1>2, <1>4 DEF EndInv

-----------------------------------------------------------------------------
(***************************************************************************)
(* What a run finds where it wrote.                                        *)
(***************************************************************************)
LEMMA AloneMoves ==
    ASSUME TypeOK, PlaceInv, [Next]_vars, NEW r \in Runs, r \in alone'
    PROVE  /\ \/ r \in alone
              \/ \E selected \in Selects[r] : \E reused \in SUBSET selected :
                    Begin(r, selected, reused)
           /\ at[r] \in {"running", "bind"} =>
                head'[of[r]] = head[of[r]] \/ \E m \in Models : Write(r, m)
<1> USE Ranges
<1>0. head \in [Refs -> 0..Len(commits)] /\ of[r] \in Refs
  BY DEF TypeOK
<1>1. ASSUME NEW ref, NEW but, but # r \/ at[r] \notin {"running", "bind"}, Moved(ref, but),
             NEW n, head' = [head EXCEPT ![ref] = n] \/ head' = head
      PROVE  /\ r \in alone
             /\ at[r] \in {"running", "bind"} => head'[of[r]] = head[of[r]]
  BY <1>0, <1>1 DEF Moved
<1>2. ASSUME NEW x \in Provisioners, CutBranch(x)
      PROVE  r \in alone /\ (at[r] \in {"running", "bind"} => head'[of[r]] = head[of[r]])
  <2>1. x # r \/ at[r] \notin {"running", "bind"}
    BY <1>2 DEF CutBranch, At
  <2> QED
    BY <1>1, <1>2, <2>1 DEF CutBranch
<1>3. ASSUME NEW x \in Runs, UndoBranch(x)
      PROVE  r \in alone /\ (at[r] \in {"running", "bind"} => head'[of[r]] = head[of[r]])
  <2>1. x # r \/ at[r] \notin {"running", "bind"}
    BY <1>3 DEF UndoBranch, At
  <2> QED
    BY <1>1, <1>3, <2>1 DEF UndoBranch
<1>4. ASSUME NEW x \in Runs, NEW m \in Models, Write(x, m)
      PROVE  /\ r \in alone
             /\ at[r] \in {"running", "bind"} =>
                    head'[of[r]] = head[of[r]] \/ \E k \in Models : Write(r, k)
  <2>1. CASE x = r
    BY <1>4, <2>1 DEF Write, Moved
  <2>2. CASE x # r
    BY <1>1, <1>4, <2>2 DEF Write, Put
  <2> QED
    BY <2>1, <2>2
<1>5. NoRun # r
  BY NameAssumption
<1>6. ASSUME NEW p \in Promoters, DoMerge(p)
      PROVE  r \in alone /\ (at[r] \in {"running", "bind"} => head'[of[r]] = head[of[r]])
  <2>1. CASE eval[p].cand \in Contains(Expected(eval[p]))
    BY <1>6, <2>1 DEF DoMerge
  <2>2. CASE eval[p].cand \notin Contains(Expected(eval[p]))
    BY <1>1, <1>5, <1>6, <2>2 DEF DoMerge, Put
  <2> QED
    BY <2>1, <2>2
<1>7. ASSUME NEW x \in Cleaners, DeleteBranch(x)
      PROVE  r \in alone /\ (at[r] \in {"running", "bind"} => head'[of[r]] = head[of[r]])
  BY <1>1, <1>5, <1>7 DEF DeleteBranch
<1>8. ASSUME NEW ref \in Refs, NEW n \in 1..Len(commits), Rollback(ref, n)
      PROVE  r \in alone /\ (at[r] \in {"running", "bind"} => head'[of[r]] = head[of[r]])
  BY <1>1, <1>5, <1>8 DEF Rollback
<1>9. ASSUME NEW c \in Candidates, NEW n \in 1..Len(commits), ForeignBranch(c, n)
      PROVE  r \in alone /\ (at[r] \in {"running", "bind"} => head'[of[r]] = head[of[r]])
  BY <1>1, <1>5, <1>9 DEF ForeignBranch
<1>10. CASE ~MoveStep
  <2>1. head' = head
    BY <1>10, StillStep
  <2>2. CASE RunStep
    <3>1. ASSUME NEW x \in Runs, NEW selected \in Selects[x], NEW reused \in SUBSET selected,
                 Begin(x, selected, reused), r \notin alone
          PROVE  \E s \in Selects[r] : \E u \in SUBSET s : Begin(r, s, u)
      <4>1. x = r
        BY <3>1 DEF Begin
      <4> QED
        BY <3>1, <4>1
    <3>2. \/ r \in alone
          \/ \E x \in Runs : \E selected \in Selects[x] : \E reused \in SUBSET selected :
                Begin(x, selected, reused)
      BY <1>10, <2>2
         DEF RunStep, MoveStep, Note, Pass, Fail, ResolveRun, BindRun, history
    <3> QED
      BY <2>1, <3>1, <3>2
  <2>3. CASE ProvisionStep
    BY <1>10, <2>1, <2>3
       DEF ProvisionStep, MoveStep, StartOn, ReadBase, TakeBranch, RecordSetup,
           StartOnMain, CreateCatalog, TakeCatalog, RefuseCatalog, history
  <2>4. CASE AuditStep
    BY <2>1, <2>4 DEF AuditStep, StartAudit, ReadTarget, ReadVersions, Compare, history
  <2>5. CASE PromoteStep
    BY <1>10, <2>1, <2>5
       DEF PromoteStep, MoveStep, StartPromote, EvalTarget, EvalRun, EvalEvidence, Gates,
           ReadAgain, FailMerge, Evaluate, history
  <2>6. CASE CleanupStep
    BY <1>10, <2>1, <2>6
       DEF CleanupStep, MoveStep, StartDelete, DropCatalog, FailCleanup, Forget, history
  <2>7. CASE OtherStep \/ UNCHANGED vars
    BY <1>10, <2>1, <2>7 DEF OtherStep, MoveStep, ForeignCatalog, vars, history
  <2> QED
    BY <2>2, <2>3, <2>4, <2>5, <2>6, <2>7 DEF Next
<1> QED
  BY <1>2, <1>3, <1>4, <1>6, <1>7, <1>8, <1>9, <1>10 DEF MoveStep

LEMMA HoldsStays ==
    ASSUME TypeOK, [Next]_vars, NEW n \in 0..Len(commits), NEW w, NEW tables, Holds(n, w, tables)
    PROVE  Holds(n, w, tables)'
  BY CommitsStay DEF Holds

LEMMA AloneInvStep ==
    ASSUME TypeOK, PlaceInv, BoundInv, HashInv, AloneInv, [Next]_vars
    PROVE  AloneInv'
<1> USE Ranges, Apart
<1> SUFFICES ASSUME NEW r \in Runs, NEW w, w = row'[r], NEW h, h = head'[of'[r]],
                    NEW k, k = held'[r]
             PROVE  /\ at'[r] = "running" =>
                        w.wrote \subseteq w.todo /\ \A m \in w.todo : w.stands[m] = r
                    /\ at'[r] = "bind" => w.todo = {} /\ w.wrote = {}
                    /\ r \in alone' =>
                        /\ at'[r] \in {"running", "bind"} =>
                            Holds(h, w, (w.selected \ w.todo) \cup w.wrote)'
                        /\ at'[r] = "binding" => Holds(k, w, w.selected)'
                        /\ w.bound # None => Holds(w.bound, w, w.selected)'
  BY DEF AloneInv
<1> DEFINE v == row[r]
           Goal == /\ at'[r] = "running" =>
                        w.wrote \subseteq w.todo /\ \A m \in w.todo : w.stands[m] = r
                   /\ at'[r] = "bind" => w.todo = {} /\ w.wrote = {}
                   /\ r \in alone' =>
                        /\ at'[r] \in {"running", "bind"} =>
                            Holds(h, w, (w.selected \ w.todo) \cup w.wrote)'
                        /\ at'[r] = "binding" => Holds(k, w, w.selected)'
                        /\ w.bound # None => Holds(w.bound, w, w.selected)'
<1>0. /\ at \in [Processes -> Place] /\ of \in [Processes -> Refs]
      /\ row \in [Runs -> Row] /\ held \in [Runs -> Nat]
  BY DEF TypeOK
<1>1. /\ at[r] = "running" => v.wrote \subseteq v.todo /\ \A m \in v.todo : v.stands[m] = r
      /\ at[r] = "bind" => v.todo = {} /\ v.wrote = {}
      /\ r \in alone =>
          /\ at[r] \in {"running", "bind"} =>
                Holds(head[of[r]], v, (v.selected \ v.todo) \cup v.wrote)
          /\ at[r] = "binding" => Holds(held[r], v, v.selected)
          /\ v.bound # None => Holds(v.bound, v, v.selected)
  BY DEF AloneInv
<1>2. /\ held[r] \in 0..Len(commits) /\ v.bound \in 0..Len(commits)
      /\ head[of[r]] \in 0..Len(commits)
  BY <1>0 DEF HashInv, Hash
<1>3. v.bound # None => at[r] = "done"
  BY DEF BoundInv
<1>4. CASE ~Acts(r)
  <2>1. at'[r] = at[r] /\ of'[r] = of[r] /\ w = v /\ k = held[r]
    BY <1>4, ProcessMoves DEF Stays
  <2>2. ASSUME r \in alone'
        PROVE  r \in alone /\ (at[r] \in {"running", "bind"} => h = head[of[r]])
    BY <1>4, <2>1, <2>2, AloneMoves DEF Acts
  <2>3. ASSUME r \in alone'
        PROVE  /\ at'[r] \in {"running", "bind"} =>
                    Holds(h, w, (w.selected \ w.todo) \cup w.wrote)'
               /\ at'[r] = "binding" => Holds(k, w, w.selected)'
               /\ w.bound # None => Holds(w.bound, w, w.selected)'
    <3>1. at'[r] \in {"running", "bind"} => Holds(h, w, (w.selected \ w.todo) \cup w.wrote)'
      BY <1>1, <1>2, <2>1, <2>2, <2>3, HoldsStays
    <3>2. at'[r] = "binding" => Holds(k, w, w.selected)'
      BY <1>1, <1>2, <2>1, <2>2, <2>3, HoldsStays
    <3>3. w.bound # None => Holds(w.bound, w, w.selected)'
      BY <1>1, <1>2, <2>1, <2>2, <2>3, HoldsStays
    <3> QED
      BY <3>1, <3>2, <3>3
  <2> QED
    BY <1>1, <2>1, <2>3
<1>5. CASE /\ at[r] # "done" /\ w.bound = v.bound
           /\ at'[r] \notin {"running", "bind", "binding"}
  BY <1>3, <1>5
<1>6. CASE \E c \in Candidates : StartOn(r, c)
  BY <1>0, <1>5, <1>6 DEF StartOn, Starts, At, store
<1>7. CASE \/ ReadBase(r) \/ CutBranch(r) \/ TakeBranch(r) \/ RecordSetup(r)
           \/ StartOnMain(r) \/ CreateCatalog(r) \/ TakeCatalog(r) \/ RefuseCatalog(r)
           \/ UndoBranch(r)
  BY <1>0, <1>5, <1>7
     DEF ReadBase, CutBranch, TakeBranch, RecordSetup, StartOnMain, Starts, CreateCatalog,
         TakeCatalog, RefuseCatalog, UndoBranch, At, store
<1>8. CASE Fail(r)
  <2>1. at'[r] = "done" /\ at[r] = "running" /\ w.bound = v.bound
    BY <1>0, <1>8 DEF Fail, At, Row
  <2> QED
    BY <1>5, <2>1
<1>9. ASSUME NEW selected \in Selects[r], NEW reused \in SUBSET selected,
             Begin(r, selected, reused)
      PROVE  Goal
  <2> DEFINE stands == [m \in Models |-> IF m \in reused THEN recorded[of[r]][m] ELSE r]
             new == [NoRow EXCEPT !.status = "running", !.selected = selected,
                                  !.todo = selected \ reused, !.stands = stands]
  <2>1. selected \subseteq Models
    BY NameAssumption
  <2>2. /\ new.selected = selected /\ new.todo = selected \ reused /\ new.wrote = {}
        /\ new.bound = None /\ new.stands = stands
    BY DEF NoRow
  <2>3. row' = [row EXCEPT ![r] = new] /\ at'[r] = "running" /\ of' = of /\ head' = head
    BY <1>0, <1>9 DEF Begin, At, world
  <2> HIDE DEF new
  <2>4. w = new /\ h = head[of[r]]
    BY <1>0, <2>3
  <2>5. \A m \in selected \ reused : stands[m] = r
    BY <2>1
  <2>6. ASSUME NEW m \in reused PROVE TablesAt(h)[m] = stands[m]
    BY <1>9, <2>1, <2>4, <2>6 DEF Begin, Standing
  <2>7. Holds(h, w, (w.selected \ w.todo) \cup w.wrote)
    BY <2>2, <2>4, <2>6 DEF Holds
  <2>8. Holds(h, w, (w.selected \ w.todo) \cup w.wrote)'
    BY <1>2, <2>4, <2>7, HoldsStays
  <2> QED
    BY <2>2, <2>3, <2>4, <2>5, <2>8
<1>10. ASSUME NEW m \in Models, Write(r, m) PROVE Goal
  <2> DEFINE tables == [TablesAt(head[of[r]]) EXCEPT ![m] = r]
             n == Len(commits) + 1
  <2>1. /\ at[r] = "running" /\ at'[r] = "running" /\ of' = of /\ m \in v.todo
        /\ Put(of[r], tables, Contains(head[of[r]])) /\ of[r] \in Refs
    BY <1>0, <1>10 DEF Write, process
  <2>2. /\ w.wrote = v.wrote \cup {m} /\ w.todo = v.todo /\ w.selected = v.selected
        /\ w.stands = v.stands /\ w.bound = v.bound
    BY <1>0, <1>10 DEF Write, Row
  <2>3. h = n /\ commits'[n].tables = tables /\ n # None
    BY <2>1, PutAppends DEF None
  <2>4. TablesAt(h)' = tables
    BY <2>3 DEF TablesAt
  <2>5. TablesAt(head[of[r]]) \in Tables
    BY <1>2, CommitTypes
  <2>6. ASSUME r \in alone', NEW j \in (w.selected \ w.todo) \cup w.wrote
        PROVE  tables[j] = w.stands[j]
    <3>1. r \in alone
      BY <1>10, <2>6 DEF Write, Moved
    <3>2. CASE j = m
      BY <1>1, <2>1, <2>2, <2>5, <3>2 DEF Tables
    <3>3. CASE j # m
      <4>1. j \in (v.selected \ v.todo) \cup v.wrote
        BY <2>2, <2>6, <3>3
      <4>2. TablesAt(head[of[r]])[j] = v.stands[j]
        BY <1>1, <2>1, <3>1, <4>1 DEF Holds
      <4>3. j \in Models
        BY <1>0, <4>1 DEF Row
      <4> QED
        BY <2>2, <2>5, <3>3, <4>2, <4>3 DEF Tables
    <3> QED
      BY <3>2, <3>3
  <2>7. r \in alone' => Holds(h, w, (w.selected \ w.todo) \cup w.wrote)'
    BY <2>4, <2>6 DEF Holds
  <2> QED
    BY <1>1, <1>3, <2>1, <2>2, <2>7
<1>11. ASSUME NEW m \in Models, Note(r, m) PROVE Goal
  <2>1. /\ at[r] = "running" /\ at'[r] = "running" /\ of' = of /\ m \in v.wrote
        /\ alone' = alone /\ head' = head
    BY <1>0, <1>11 DEF Note, process, history, world
  <2>2. /\ w.wrote = v.wrote \ {m} /\ w.todo = v.todo \ {m} /\ w.selected = v.selected
        /\ w.stands = v.stands /\ w.bound = v.bound
    BY <1>0, <1>11 DEF Note, Row
  <2>3. h = head[of[r]]
    BY <2>1
  <2>4. r \in alone => Holds(h, w, (w.selected \ w.todo) \cup w.wrote)
    BY <1>1, <2>1, <2>2, <2>3 DEF Holds
  <2>5. r \in alone => Holds(h, w, (w.selected \ w.todo) \cup w.wrote)'
    BY <1>2, <2>3, <2>4, HoldsStays
  <2> QED
    BY <1>1, <1>3, <2>1, <2>2, <2>5
<1>12. ASSUME NEW tests, Pass(r, tests) PROVE Goal
  <2>1. /\ at[r] = "running" /\ at'[r] = "bind" /\ of' = of /\ v.todo = {}
        /\ alone' = alone /\ head' = head
    BY <1>0, <1>12 DEF Pass, At, history, world
  <2>2. /\ w.wrote = v.wrote /\ w.todo = v.todo /\ w.selected = v.selected
        /\ w.stands = v.stands /\ w.bound = v.bound
    BY <1>0, <1>12 DEF Pass, Row
  <2>3. h = head[of[r]]
    BY <2>1
  <2>4. r \in alone => Holds(h, w, (w.selected \ w.todo) \cup w.wrote)
    BY <1>1, <2>1, <2>2, <2>3 DEF Holds
  <2>5. r \in alone => Holds(h, w, (w.selected \ w.todo) \cup w.wrote)'
    BY <1>2, <2>3, <2>4, HoldsStays
  <2> QED
    BY <1>1, <1>3, <2>1, <2>2, <2>5
<1>13. CASE ResolveRun(r)
  <2>1. /\ at[r] = "bind" /\ at'[r] \in {"done", "binding"} /\ w = v /\ k = head[of[r]]
        /\ alone' = alone
    BY <1>0, <1>13 DEF ResolveRun, At, store, history
  <2>2. r \in alone => Holds(k, w, w.selected)
    BY <1>1, <2>1 DEF Holds
  <2>3. r \in alone => Holds(k, w, w.selected)'
    BY <1>2, <2>1, <2>2, HoldsStays
  <2> QED
    BY <1>3, <2>1, <2>3
<1>14. CASE BindRun(r)
  <2>1. /\ at[r] = "binding" /\ at'[r] = "done" /\ alone' = alone
        /\ w.bound = held[r] /\ w.selected = v.selected /\ w.stands = v.stands
    BY <1>0, <1>14 DEF BindRun, At, history, Row
  <2>2. r \in alone => Holds(held[r], w, w.selected)
    BY <1>1, <2>1 DEF Holds
  <2>3. r \in alone => Holds(w.bound, w, w.selected)'
    BY <1>2, <2>1, <2>2, HoldsStays
  <2> QED
    BY <2>1, <2>3
<1>15. CASE Acts(r)
  BY <1>6, <1>7, <1>8, <1>9, <1>10, <1>11, <1>12, <1>13, <1>14, <1>15 DEF Acts
<1> QED
  BY <1>4, <1>15

LEMMA HInit == Init => HInv
<1> SUFFICES ASSUME Init PROVE HInv
  OBVIOUS
<1> USE DEF Init
<1>1. TypeOK
  BY Start_ DEF IInv
<1> USE <1>1, Ranges, Apart
<1>2. Len(commits) = 1 /\ commits[1].contains = {1} /\ head[Main] = 1
  OBVIOUS
<1>3. \A c \in Candidates : head[c] = None
  BY NameAssumption
<1>4. HistoryInv
  BY <1>2 DEF HistoryInv, None
<1>5. HashInv
  BY <1>2 DEF HashInv, Hash, NoRow, NoProv, NoLook, NoEval, None
<1>6. PhaseInv
  BY DEF PhaseInv, NoProv, NoEval
<1>7. MainInv /\ CutInv
  BY DEF MainInv, CutInv, Behind, NoProv
<1>8. ClaimInv
  BY DEF ClaimInv, Claims, Records, On, NoProv, NoEval
<1>9. MadeInv
  BY <1>3 DEF MadeInv
<1>10. SeenInv
  BY DEF SeenInv, NoEval
<1>11. EndInv
  BY DEF EndInv, NoUnseenBreak, ProvenanceHolds
<1>12. AloneInv
  BY DEF AloneInv
<1> QED
  BY <1>4, <1>5, <1>6, <1>7, <1>8, <1>9, <1>10, <1>11, <1>12 DEF HInv

-----------------------------------------------------------------------------
(***************************************************************************)
(* What follows.                                                           *)
(***************************************************************************)
LEMMA Invariance == Spec => []IInv
<1>1. IInv /\ [Next]_vars => IInv'
  BY TypeStep, PlaceStep, OneStep, BoundStep, VetStep, MergeStep, CatalogStep DEF IInv
<1> QED
  BY Start_, <1>1, PTL DEF Spec

\* The references, the store and every process keep their types, for any number of
\* candidates, processes and commits.
THEOREM TypeCorrect == Spec => []TypeOK
<1>1. IInv => TypeOK
  BY DEF IInv
<1> QED
  BY Invariance, <1>1, PTL

\* promotion.rs and gates.rs: whatever is interleaved with the evaluation, every
\* merge rests on a run that passed and is bound to the commit merged, and on the
\* diff that was required of those two commits.
THEOREM MergesAreVettedHolds == Spec => []MergesAreVetted
<1>1. IInv => MergesAreVetted
  BY DEF IInv, MergeInv, MergesAreVetted
<1> QED
  BY Invariance, <1>1, PTL

\* environment.rs, prior_records_binding: a run never goes on in a catalog of
\* somebody else's.
THEOREM NobodyElsesCatalogHolds == Spec => []NobodyElsesCatalog
<1>1. IInv => NobodyElsesCatalog
  BY DEF IInv, CatalogInv, NobodyElsesCatalog
<1> QED
  BY Invariance, <1>1, PTL
\* The second invariant rests on the first.
LEMMA HInvariance == Spec => [](IInv /\ HInv)
<1>1. IInv /\ HInv /\ [Next]_vars => (IInv /\ HInv)'
  <2> SUFFICES ASSUME IInv, HInv, [Next]_vars PROVE (IInv /\ HInv)'
    OBVIOUS
  <2>1. IInv'
    BY TypeStep, PlaceStep, OneStep, BoundStep, VetStep, MergeStep, CatalogStep DEF IInv
  <2>2. HInv'
    BY <2>1, HistoryStep, HashStep, PhaseStep, MainInvStep, CutInvStep, ClaimInvStep,
       MadeInvStep, SeenInvStep, EndInvStep, AloneInvStep
       DEF IInv, HInv
  <2> QED
    BY <2>1, <2>2
<1> QED
  BY Start_, HInit, <1>1, PTL DEF Spec

\* branch_diff.rs and gates.rs, gate_schema: whatever is read when, however branches
\* are removed and made again, no column disappears from the target unseen.
THEOREM NoUnseenBreakHolds == Spec => []NoUnseenBreak
<1>1. HInv => NoUnseenBreak
  BY DEF HInv, EndInv
<1> QED
  BY HInvariance, <1>1, PTL

\* environment.rs, ensure_candidate, and gates.rs, gate_base_moved: the commit a
\* promotion without a report goes by is one the branch has, however often branches
\* were provisioned, removed and made again, unless one was made behind Main.
THEOREM ProvenanceHoldsAlways == Spec => []ProvenanceHolds
<1>1. HInv => ProvenanceHolds
  BY DEF HInv, EndInv
<1> QED
  BY HInvariance, <1>1, PTL

\* promotion.rs, bind_run_reference: the commit a run is bound to after it ended is
\* the one that holds what it built and reused, if nobody moved the reference.
THEOREM MergesHoldTheirRunHolds == Spec => []MergesHoldTheirRun
<1>1. IInv /\ HInv => MergesHoldTheirRun
  <2> SUFFICES ASSUME IInv, HInv, NEW e \in merges, e.run \in alone,
                      NEW m \in row[e.run].selected
               PROVE  TablesAt(e.from)[m] = row[e.run].stands[m]
    BY DEF MergesHoldTheirRun
  <2>1. e.run \in Runs /\ e.from # None /\ row[e.run].bound = e.from
    BY DEF IInv, MergeInv, Vets
  <2>2. Holds(e.from, row[e.run], row[e.run].selected)
    BY <2>1 DEF HInv, AloneInv
  <2> QED
    BY <2>2 DEF Holds
<1> QED
  BY HInvariance, <1>1, PTL

\* What a step takes from a candidate with its branch.
LEMMA LossStep ==
    ASSUME IInv, HInv, [Next]_vars, NEW c \in Candidates,
           head[c] # None, head'[c] = None, resets = 0
    PROVE  \E x \in Processes : DeletedFor(x, c, Lost(c))
<1> TypeOK /\ PlaceInv /\ PhaseInv /\ HistoryInv /\ MainInv /\ CutInv
  BY DEF IInv, HInv
<1> USE Ranges, Apart
<1>0. /\ at \in [Processes -> Place] /\ of \in [Processes -> Refs]
      /\ head \in [Refs -> 0..Len(commits)] /\ Main # c
  BY NameAssumption DEF TypeOK
<1>1. ASSUME NEW ref, NEW n, n # None, head' = [head EXCEPT ![ref] = n] PROVE FALSE
  BY <1>0, <1>1
<1>2. ASSUME NEW x \in Provisioners, CutBranch(x) PROVE FALSE
  BY <1>0, <1>2 DEF CutBranch
<1>3. ASSUME NEW r \in Runs, UndoBranch(r) PROVE DeletedFor(r, c, Lost(c))
  <2>1. of[r] = c /\ Ends(r, c, "undo")
    BY <1>0, <1>3 DEF UndoBranch, At, Ends
  <2>2. prov[r].cut # None
    BY <2>1 DEF Ends, PhaseInv
  <2>3. ASSUME NEW n \in Lost(c) PROVE n > prov[r].cut
    <3>1. n \in Contains(head[c]) /\ n \notin Contains(head[Main])
      BY <2>3 DEF Lost
    <3>2. n \in 1..Len(commits)
      BY <1>0, <3>1, CommitTypes
    <3>3. ~(n <= prov[r].cut)
      BY <2>1, <2>2, <3>1, <3>2 DEF CutInv, Behind, None
    <3>4. prov[r].cut \in Nat
      BY DEF TypeOK, Prov
    <3> QED
      BY <3>2, <3>3, <3>4
  <2> QED
    BY <2>1, <2>2, <2>3 DEF DeletedFor
<1>4. ASSUME NEW r \in Runs, NEW m \in Models, Write(r, m) PROVE FALSE
  <2>1. Len(commits) + 1 # None
    BY DEF None
  <2> QED
    BY <1>1, <1>4, <2>1 DEF Write, Put
<1>5. ASSUME NEW p \in Promoters, DoMerge(p) PROVE FALSE
  <2>1. Len(commits) + 1 # None
    BY DEF None
  <2> QED
    BY <1>1, <1>5, <2>1 DEF DoMerge, Put
<1>6. ASSUME NEW x \in Cleaners, DeleteBranch(x) PROVE DeletedFor(x, c, Lost(c))
  <2>1. Ends(x, c, "find")
    BY <1>0, <1>6 DEF DeleteBranch, At, Ends
  <2>2. CASE x \in Deleters
    BY <2>1, <2>2 DEF DeletedFor
  <2>3. CASE x \in Promoters
    <3>1. PICK e \in merges : e.by = x
      BY <2>1, <2>3 DEF Ends, PhaseInv
    <3>2. Contains(e.from) \subseteq Contains(head[Main])
      BY <3>1 DEF MainInv
    <3>3. Lost(c) \cap Contains(e.from) = {}
      BY <3>2 DEF Lost
    <3> QED
      BY <2>1, <2>3, <3>1, <3>3 DEF DeletedFor
  <2> QED
    BY <2>2, <2>3 DEF Cleaners
<1>7. ASSUME NEW ref \in Refs, NEW n \in 1..Len(commits), Rollback(ref, n) PROVE FALSE
  BY <1>1, <1>7 DEF Rollback, None
<1>8. ASSUME NEW k \in Candidates, NEW n \in 1..Len(commits), ForeignBranch(k, n) PROVE FALSE
  BY <1>1, <1>8 DEF ForeignBranch, None
<1>9. MoveStep
  BY StillStep
<1> QED
  BY <1>2, <1>3, <1>4, <1>5, <1>6, <1>7, <1>8, <1>9 DEF MoveStep

\* cleanup_candidate and the undoing of a branch just made: what was committed to a
\* candidate is lost with it only when it is removed for its own sake, or was not in
\* what was merged, or came after the branch that is undone.
THEOREM OnlyLateWorkIsLostHolds == Spec => OnlyLateWorkIsLost
<1>1. IInv /\ HInv /\ [Next]_vars =>
        [\A c \in Candidates :
            head[c] # None /\ head'[c] = None /\ Lost(c) # {} /\ resets = 0 =>
                \E x \in Processes : DeletedFor(x, c, Lost(c))]_vars
  BY LossStep
<1> QED
  BY HInvariance, <1>1, PTL DEF Spec, OnlyLateWorkIsLost
=============================================================================
