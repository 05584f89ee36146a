-------------------------- MODULE IncrementalProofs --------------------------
(***************************************************************************)
(* Theorems about Incremental, for any configuration of the model, any     *)
(* labels and slots, and any number of rows, runs, failures, merges and    *)
(* rollbacks.                                                              *)
(***************************************************************************)
EXTENDS Incremental, SequenceTheorems, WellFoundedInduction, TLAPS

-----------------------------------------------------------------------------
(***************************************************************************)
(* Type correctness.                                                       *)
(***************************************************************************)
\* A set of numbers with an upper bound has a greatest one.
Less == {p \in Nat \X Nat : p[1] < p[2]}
LEMMA LessIsWellFounded == IsWellFoundedOn(Less, Nat)
  BY NatLessThanWellFounded DEF OpToRel, Less

LEMMA Greatest ==
    ASSUME NEW N \in Nat, NEW S \in SUBSET (1..N), S # {}
    PROVE  \E n \in S : \A k \in S : k <= n
<1> DEFINE T == {N - n : n \in S}
<1>1. \A n \in S : n \in 1..N /\ N - n \in Nat
  OBVIOUS
<1>2. T \subseteq Nat /\ T # {}
  BY <1>1
<1>3. \E x \in T : \A y \in T : ~(<<y, x>> \in Less)
  <2> HIDE DEF T
  <2> QED
    BY <1>2, LessIsWellFounded, WFMin
<1>4. \A x, y \in Nat : <<y, x>> \in Less <=> y < x
  BY DEF Less
<1>5. PICK n \in S : \A y \in T : ~(<<y, N - n>> \in Less)
  BY <1>3
<1>6. \A k \in S : ~(N - k < N - n)
  BY <1>1, <1>4, <1>5
<1> QED
  BY <1>1, <1>6

LEMMA HighestIs ==
    ASSUME TypeOK, NEW c \in Catalogs
    PROVE  /\ Highest(c) \in 0..MaxRows
           /\ Highest(c) # 0 => Highest(c) \in Present(c)
           /\ \A n \in Present(c) : n <= Highest(c)
<1>1. MaxRows \in Nat /\ Present(c) \in SUBSET (1..MaxRows)
  BY BoundAssumption DEF Present, Rows
<1>2. Highest(c) = IF Present(c) = {} THEN 0
                   ELSE CHOOSE n \in Present(c) : \A k \in Present(c) : k <= n
  BY DEF Highest, Present
<1>3. Present(c) # {} => /\ Highest(c) \in Present(c)
                         /\ \A n \in Present(c) : n <= Highest(c)
  BY <1>1, <1>2, Greatest
<1> QED
  BY <1>1, <1>2, <1>3

LEMMA StatementsAre ==
    ASSUME TypeOK, NEW whole \in BOOLEAN
    PROVE  /\ Statements(whole) \in Seq(Statement)
           /\ Len(Statements(whole)) \in {1, 2}
           /\ Statements(whole) # <<>>
<1>1. kind.strategy \in {"append", "key", "partition", "window"}
      /\ kind.adapter \in {"trino", "duckdb"}
  BY KindAssumption DEF TypeOK
<1>2. Statements(whole) \in {<<"drop", "create">>, <<"replace">>, <<"insert">>,
                             <<"merge">>, <<"delete", "insert">>}
  BY <1>1 DEF Statements
<1>3. /\ <<"drop", "create">> \in Seq(Statement) /\ <<"replace">> \in Seq(Statement)
      /\ <<"insert">> \in Seq(Statement) /\ <<"merge">> \in Seq(Statement)
      /\ <<"delete", "insert">> \in Seq(Statement)
  BY DEF Statement
<1>4. \A s \in {<<"drop", "create">>, <<"replace">>, <<"insert">>, <<"merge">>,
               <<"delete", "insert">>} : Len(s) \in {1, 2} /\ s # <<>>
  OBVIOUS
<1> QED
  BY <1>2, <1>3, <1>4

LEMMA AnyLabelIs == AnyLabel \in Labels
  BY LabelAssumption DEF AnyLabel

LEMMA IdleType == Idle \in Run /\ Idle.at = "idle" /\ Idle.todo = <<>>
  BY AnyLabelIs, BoundAssumption DEF Idle, Run

LEMMA MaxRowsIs == MaxRows \in Nat /\ MaxRows > 0 /\ MaxAttempts \in Nat /\ MaxAttempts > 0
  BY BoundAssumption

LEMMA BoundIs ==
    ASSUME TypeOK, NEW l \in Labels
    PROVE  /\ Bound(l) \in 0..MaxRows /\ Bound(l) <= mark[l].value
           /\ kind.strategy # "window" => Bound(l) = 0
<1>1. mark[l].value \in 0..MaxRows /\ kind.overlap \in Nat
  BY KindAssumption DEF TypeOK, Mark
<1> QED
  BY <1>1, MaxRowsIs DEF Bound

\* A step of one slot leaves well typed what it gives the slot.
LEMMA SlotType ==
    ASSUME TypeOK, NEW x \in Slots, NEW r \in Run,
           r.at \in {"work", "adopt"} <=> r.todo # <<>>,
           run' = [run EXCEPT ![x] = r]
    PROVE  /\ run' \in [Slots -> Run]
           /\ \A y \in Slots : run'[y].at \in {"work", "adopt"} <=> run'[y].todo # <<>>
  BY DEF TypeOK

LEMMA AbsentType == Absent \in Table /\ Absent.snap = 0 /\ ~Absent.there
  BY DEF Absent, Table, Held

TypeInv == TypeOK /\ before.snap <= snaps

LEMMA TypeApply ==
    ASSUME TypeInv, NEW does \in Statement, NEW c \in Catalogs, NEW n \in 0..MaxRows,
           Apply(does, c, n), cut' = cut
    PROVE  /\ table' \in [Catalogs -> Table] /\ before' \in Table
           /\ \A d \in Catalogs : table'[d].snap <= snaps'
           /\ snaps' \in Nat /\ cut' \subseteq 0..snaps' /\ before'.snap <= snaps'
<1>0. /\ table \in [Catalogs -> Table] /\ snaps \in Nat /\ before \in Table
      /\ \A d \in Catalogs : table[d].snap <= snaps /\ table[d].snap \in Nat
      /\ cut \subseteq 0..snaps /\ before.snap <= snaps /\ before.snap \in Nat
  BY DEF TypeInv, TypeOK, Table
<1>1. snaps' = snaps + 1 /\ "main" \in Catalogs
  BY DEF Apply, Catalogs
<1>2. table' = [table EXCEPT ![c] = table'[c]]
  BY <1>0 DEF Apply
<1>3. table'[c] \in Table /\ table'[c].snap = snaps + 1
  <2>1. CASE does = "drop"
    <3>1. table'[c] = [Absent EXCEPT !.snap = snaps + 1]
      BY <1>0, <2>1 DEF Apply
    <3>2. Absent = [there |-> FALSE, rows |-> [k \in Rows |-> 0], snap |-> 0]
      BY DEF Absent
    <3>3. table'[c] = [there |-> FALSE, rows |-> [k \in Rows |-> 0], snap |-> snaps + 1]
      BY <3>1, <3>2
    <3>4. [k \in Rows |-> 0] \in Held
      BY DEF Held
    <3> QED
      BY <1>0, <3>3, <3>4 DEF Table
  <2>2. CASE does # "drop"
    <3>1. table'[c] = [there |-> TRUE, snap |-> snaps + 1,
                       rows |-> [k \in Rows |-> Makes(does, table[c].rows[k], k, n)]]
      BY <1>0, <2>2 DEF Apply
    <3>2. \A k \in Rows : table[c].rows[k] \in 0..2
      BY <1>0 DEF Table, Held
    <3>3. \A k \in Rows : Makes(does, table[c].rows[k], k, n) \in 0..2
      BY <2>2, <3>2 DEF Makes, Least, Statement
    <3> QED
      BY <1>0, <3>1, <3>3 DEF Table, Held
  <2> QED
    BY <2>1, <2>2
<1>4. \A d \in Catalogs : table'[d] \in Table /\ table'[d].snap <= snaps + 1
                          /\ table'[d].snap \in Nat
  BY <1>0, <1>2, <1>3
<1>5. before' \in {table["main"], before}
  BY DEF Apply
<1> QED
  BY <1>0, <1>1, <1>2, <1>4, <1>5

LEMMA TypeInit == Init => TypeInv
<1> SUFFICES ASSUME Init PROVE TypeInv
  OBVIOUS
<1>1. /\ table \in [Catalogs -> Table] /\ before \in Table /\ snaps = 0 /\ cut = {}
      /\ \A c \in Catalogs : table[c].snap <= snaps
      /\ before.snap <= snaps
  BY AbsentType DEF Init
<1>2. mark \in [Labels -> Mark] /\ record \in [Labels -> Record] /\ clock \in Nat
  BY MaxRowsIs DEF Init, Mark, Record, NoMark, NoRecord
<1>3. run \in [Slots -> Run]
      /\ \A x \in Slots : run[x].at \in {"work", "adopt"} <=> run[x].todo # <<>>
  BY IdleType DEF Init
<1>4. kind \in Kinds /\ source \in 1..MaxRows /\ late \subseteq Late /\ slips \subseteq Slips
  BY MaxRowsIs DEF Init
<1>5. runs + moves <= MaxSteps /\ runs \in Nat /\ moves \in 0..MaxMoves
  BY BoundAssumption DEF Init
<1> QED
  BY <1>1, <1>2, <1>3, <1>4, <1>5 DEF TypeInv, TypeOK

\* The parts of a run's record that its steps assign.
LEMMA RunFields ==
    ASSUME TypeOK, NEW x \in Slots
    PROVE  /\ run[x] \in Run /\ run[x].label \in Labels /\ run[x].by \in Nat
           /\ run[x].version \in 0..MaxRows /\ run[x].todo \in Seq(Statement)
           /\ run[x].from \in 0..MaxRows /\ run[x].attempt \in 0..MaxAttempts
           /\ run[x].snap \in Nat /\ run[x].seen \in 0..MaxRows /\ run[x].reuse \in Labels
           /\ Catalog(run[x].label) \in Catalogs
           /\ run[x].todo # <<>> => Head(run[x].todo) \in Statement
           /\ run[x].at \in {"work", "adopt"} <=> run[x].todo # <<>>
<1>1. run[x] \in Run
  BY DEF TypeOK
<1>2. run[x].at \in {"work", "adopt"} <=> run[x].todo # <<>>
  BY DEF TypeOK
<1>3. run[x].todo \in Seq(Statement)
  BY <1>1 DEF Run
<1> QED
  BY <1>1, <1>2, <1>3 DEF Run, Catalog, Catalogs

LEMMA IdentityIs ==
    ASSUME TypeOK, NEW c \in Catalogs
    PROVE  /\ Identity(c) \in Nat
           /\ Identity(c) # 0 => Identity(c) = table[c].snap /\ table[c].there
  BY DEF Identity, TypeOK, Table

Given(l, b, v, t, n) ==
    [Idle EXCEPT !.at = "work", !.label = l, !.by = b, !.version = v,
       !.attempt = 1, !.todo = t, !.from = n]
LEMMA RunGiven ==
    ASSUME NEW l \in Labels, NEW b \in Nat, NEW v \in 0..MaxRows,
           NEW t \in Seq(Statement), NEW n \in 0..MaxRows
    PROVE  LET r == Given(l, b, v, t, n)
           IN  /\ r \in Run /\ r.at = "work" /\ r.todo = t /\ r.label = l
               /\ r.from = n /\ r.by = b /\ r.version = v /\ r.snap = 0 /\ r.seen = 0
               /\ r.stamp = 0
<1> DEFINE d == [Idle EXCEPT !.at = "work", !.label = l, !.by = b]
           e == [d EXCEPT !.version = v, !.attempt = 1]
           r == [e EXCEPT !.todo = t, !.from = n]
<1>1. 1 \in 0..MaxAttempts
  BY MaxRowsIs
<1>2. Idle \in Run /\ Idle.snap = 0 /\ Idle.seen = 0 /\ Idle.stamp = 0
  BY IdleType DEF Idle
<1>3. d \in Run /\ d.at = "work" /\ d.label = l /\ d.by = b /\ d.snap = 0 /\ d.seen = 0
      /\ d.stamp = 0
  BY <1>2 DEF Run
<1> HIDE DEF d
<1>4. /\ e \in Run /\ e.at = "work" /\ e.label = l /\ e.by = b /\ e.snap = 0 /\ e.seen = 0
      /\ e.version = v /\ e.stamp = 0
  BY <1>1, <1>3 DEF Run
<1> HIDE DEF e
<1>5. /\ r \in Run /\ r.at = "work" /\ r.label = l /\ r.by = b /\ r.snap = 0 /\ r.seen = 0
      /\ r.version = v /\ r.todo = t /\ r.from = n /\ r.stamp = 0
  BY <1>4 DEF Run
<1>6. r = Given(l, b, v, t, n)
  BY DEF e, d, Given
<1> HIDE DEF r
<1> QED
  BY <1>5, <1>6

LEMMA WorkingType ==
    ASSUME TypeOK, NEW x \in Slots, NEW l \in Labels, NEW full \in BOOLEAN, runs' \in Nat
    PROVE  /\ Working(x, l, full) \in Run /\ Working(x, l, full).at = "work"
           /\ Working(x, l, full).todo = Statements(Whole(full, l))
           /\ Working(x, l, full).label = l /\ Working(x, l, full).from = Bound(l)
           /\ Working(x, l, full).todo # <<>>
<1>1. /\ Statements(Whole(full, l)) \in Seq(Statement)
      /\ Statements(Whole(full, l)) # <<>>
  <2>1. Whole(full, l) \in BOOLEAN
    BY DEF Whole
  <2> QED
    BY <2>1, StatementsAre
<1>2. Bound(l) \in 0..MaxRows /\ source \in 0..MaxRows
  BY BoundIs, MaxRowsIs DEF TypeOK
<1> DEFINE b == runs'
           t == Statements(Whole(full, l))
           n == Bound(l)
           w == Given(l, b, source, t, n)
<1>3. /\ w \in Run /\ w.at = "work" /\ w.todo = t /\ w.label = l /\ w.from = n
  <2> HIDE DEF b, t, n, w
  <2>1. b \in Nat /\ t \in Seq(Statement) /\ n \in 0..MaxRows
    BY <1>1, <1>2 DEF b, t, n
  <2> QED
    BY <1>2, <2>1, RunGiven DEF w
<1>4. Working(x, l, full) = w
  BY DEF Working, Given
<1> HIDE DEF w
<1> QED
  BY <1>1, <1>3, <1>4

LEMMA TypeStart ==
    ASSUME TypeInv, NEW x \in Slots, NEW l \in Labels, NEW forced \in BOOLEAN,
           Start(x, l, forced)
    PROVE  TypeInv'
<1> DEFINE full == ~table[Catalog(l)].there \/ Current(l).version = 0
<1>0. TypeOK
  BY DEF TypeInv
<1>1. runs' \in Nat /\ runs' + moves <= MaxSteps
  <2>1. runs \in Nat
    BY DEF TypeInv, TypeOK
  <2>2. runs' = runs + (IF Beside = {} THEN 1 ELSE 2) /\ runs' + moves <= MaxSteps
    BY DEF Start
  <2>3. (IF Beside = {} THEN 1 ELSE 2) \in Nat
    OBVIOUS
  <2> QED
    BY <2>1, <2>2, <2>3
<1>2. \/ run' = [run EXCEPT ![x] = Working(x, l, full)]
      \/ \E o \in Adoptable(l) :
            run' = [run EXCEPT ![x] = [Working(x, l, TRUE) EXCEPT
                      !.at = "adopt", !.reuse = o, !.snap = record[o].snap,
                      !.stamp = record[o].at]]
  BY DEF Start
<1>3. /\ run' \in [Slots -> Run]
      /\ \A y \in Slots : run'[y].at \in {"work", "adopt"} <=> run'[y].todo # <<>>
  <2>1. CASE run' = [run EXCEPT ![x] = Working(x, l, full)]
    <3> DEFINE w == Working(x, l, full)
    <3>1. full \in BOOLEAN
      OBVIOUS
    <3>2. w \in Run /\ w.at = "work" /\ w.todo # <<>>
      <4> HIDE DEF full
      <4> QED
        BY <1>0, <1>1, <3>1, WorkingType
    <3> HIDE DEF w
    <3>3. run' = [run EXCEPT ![x] = w]
      BY <2>1 DEF w
    <3> QED
      BY <1>0, <3>2, <3>3, SlotType
  <2>2. ASSUME NEW o \in Adoptable(l),
               run' = [run EXCEPT ![x] = [Working(x, l, TRUE) EXCEPT
                      !.at = "adopt", !.reuse = o, !.snap = record[o].snap,
                      !.stamp = record[o].at]]
        PROVE  /\ run' \in [Slots -> Run]
               /\ \A y \in Slots : run'[y].at \in {"work", "adopt"} <=> run'[y].todo # <<>>
    <3> DEFINE w == Working(x, l, TRUE)
               r == [w EXCEPT !.at = "adopt", !.reuse = o, !.snap = record[o].snap,
                             !.stamp = record[o].at]
    <3>1. w \in Run /\ w.todo # <<>>
      BY <1>0, <1>1, WorkingType
    <3>2. o \in Labels /\ record[o].snap \in Nat /\ record[o].at \in Nat
      BY <1>0 DEF Adoptable, TypeOK, Record
    <3> HIDE DEF w
    <3>3. r \in Run /\ r.at = "adopt" /\ r.todo # <<>>
      BY <3>1, <3>2 DEF Run
    <3>4. run' = [run EXCEPT ![x] = r]
      BY <2>2 DEF w
    <3> HIDE DEF r
    <3> QED
      BY <1>0, <3>3, <3>4, SlotType
  <2> QED
    BY <1>2, <2>1, <2>2
<1>4. slips' \subseteq Slips
  BY <1>0 DEF Start, Slip, Beside, TypeOK, Slips
<1> QED
  BY <1>0, <1>1, <1>3, <1>4 DEF TypeInv, TypeOK, Start, tables, state

\* A run that goes on with what it had, or has ended.
LEMMA TypeGoes ==
    ASSUME TypeInv, NEW x \in Slots
    PROVE  /\ \A a \in {"built", "mark", "end", "copy"} :
                LET r == [run[x] EXCEPT !.at = a, !.todo = <<>>]
                IN  r \in Run /\ r.at = a /\ r.todo = <<>>
           /\ run[x].todo # <<>> /\ Len(run[x].todo) # 1 =>
                LET r == [run[x] EXCEPT !.todo = Tail(@)]
                IN  r \in Run /\ r.at = run[x].at /\ r.todo # <<>>
                    /\ r.todo = Tail(run[x].todo)
<1>1. run[x] \in Run /\ run[x].todo \in Seq(Statement)
  BY RunFields DEF TypeInv
<1>2. <<>> \in Seq(Statement)
  OBVIOUS
<1>3. run[x].todo # <<>> /\ Len(run[x].todo) # 1 =>
        Tail(run[x].todo) \in Seq(Statement) /\ Tail(run[x].todo) # <<>>
  <2> DEFINE s == run[x].todo
  <2>1. s \in Seq(Statement)
    BY <1>1
  <2> HIDE DEF s
  <2>2. s # <<>> => Tail(s) \in Seq(Statement) /\ Len(Tail(s)) = Len(s) - 1 /\ Len(s) \in Nat
    BY <2>1, HeadTailProperties, LenProperties
  <2>3. s # <<>> /\ Len(s) # 1 => Len(Tail(s)) # 0
    BY <2>2
  <2>4. Len(<<>>) = 0
    OBVIOUS
  <2> QED
    BY <2>2, <2>3, <2>4 DEF s
<1> QED
  BY <1>1, <1>2, <1>3 DEF Run
\* The parts of the type invariant.
TablesType ==
    /\ table \in [Catalogs -> Table] /\ before \in Table
    /\ \A c \in Catalogs : table[c].snap <= snaps
    /\ snaps \in Nat /\ cut \subseteq 0..snaps /\ before.snap <= snaps
StateType ==
    mark \in [Labels -> Mark] /\ record \in [Labels -> Record] /\ clock \in Nat
RunsType ==
    /\ run \in [Slots -> Run]
    /\ \A x \in Slots : run[x].at \in {"work", "adopt"} <=> run[x].todo # <<>>
RestType ==
    /\ kind \in Kinds /\ source \in 1..MaxRows
    /\ runs + moves <= MaxSteps /\ runs \in Nat /\ moves \in 0..MaxMoves
    /\ late \subseteq Late /\ slips \subseteq Slips

LEMMA TypeParts ==
    /\ TypeInv <=> TablesType /\ StateType /\ RunsType /\ RestType
    /\ TypeInv' <=> TablesType' /\ StateType' /\ RunsType' /\ RestType'
  BY DEF TypeInv, TypeOK, TablesType, StateType, RunsType, RestType

LEMMA TablesStay == ASSUME TypeInv, UNCHANGED <<tables, cut>> PROVE TablesType'
  BY TypeParts DEF TablesType, tables
LEMMA StateStays == ASSUME TypeInv, UNCHANGED state PROVE StateType'
  BY TypeParts DEF StateType, state
LEMMA TablesApply ==
    ASSUME TypeInv, NEW does \in Statement, NEW c \in Catalogs, NEW n \in 0..MaxRows,
           Apply(does, c, n), cut' = cut
    PROVE  TablesType'
  BY TypeApply DEF TablesType
LEMMA RunsGo ==
    ASSUME TypeInv, NEW x \in Slots, NEW r \in Run,
           r.at \in {"work", "adopt"} <=> r.todo # <<>>,
           run' = [run EXCEPT ![x] = r]
    PROVE  RunsType'
  BY SlotType DEF TypeInv, RunsType
LEMMA RunsEnd ==
    ASSUME TypeInv, NEW x \in Slots, run' = [run EXCEPT ![x] = Idle]
    PROVE  RunsType'
  BY RunsGo, IdleType
LEMMA RestMoves ==
    ASSUME TypeInv, Move \/ moves' = moves, UNCHANGED <<kind, source, runs>>,
           late' \subseteq Late, slips' \subseteq Slips
    PROVE  RestType'
<1>1. runs \in Nat /\ moves \in 0..MaxMoves /\ MaxMoves \in Nat /\ MaxSteps \in Nat
      /\ runs + moves <= MaxSteps
  BY BoundAssumption DEF TypeInv, TypeOK
<1>2. moves' \in 0..MaxMoves /\ runs + moves' <= MaxSteps
  BY <1>1 DEF Move
<1> QED
  BY <1>1, <1>2, TypeParts DEF RestType
LEMMA LateIs == ASSUME TypeInv PROVE late \subseteq Late /\ slips \subseteq Slips
  BY DEF TypeInv, TypeOK
LEMMA HalfDoneIs == ASSUME NEW x PROVE HalfDone(x) \subseteq Slips
  BY DEF HalfDone, Slips
LEMMA HalvesIs == ASSUME NEW c PROVE Halves(c) \subseteq Slips
  BY HalfDoneIs DEF Halves
LEMMA BesideIs == Beside \subseteq Slips
  BY DEF Beside, Slips

\* The statement a run is at.
LEMMA DoesIs ==
    ASSUME TypeInv, NEW x \in Slots, Executing(x)
    PROVE  /\ Does(x) \in Statement /\ Catalog(run[x].label) \in Catalogs
           /\ run[x].from \in 0..MaxRows /\ run[x].todo # <<>>
<1>1. run[x].todo # <<>>
  BY RunFields DEF TypeInv, Executing
<1> QED
  BY <1>1, RunFields DEF TypeInv, Does

\* What an executed statement leaves to do.
LEMMA DoneIs ==
    ASSUME TypeInv, NEW x \in Slots, Executing(x)
    PROVE  /\ Done(x) \in Run
           /\ Done(x).at \in {"work", "adopt"} <=> Done(x).todo # <<>>
<1>1. run[x].todo # <<>> /\ run[x].at = "work"
  BY DoesIs DEF Executing
<1>2. CASE Len(run[x].todo) = 1
  <2> DEFINE r == [run[x] EXCEPT !.at = "built", !.todo = <<>>]
  <2>1. r \in Run /\ r.at = "built" /\ r.todo = <<>>
    BY TypeGoes
  <2>2. Done(x) = r
    BY <1>2 DEF Done
  <2> HIDE DEF r
  <2> QED
    BY <2>1, <2>2
<1>3. CASE Len(run[x].todo) # 1
  <2> DEFINE r == [run[x] EXCEPT !.todo = Tail(@)]
  <2>1. r \in Run /\ r.at = run[x].at /\ r.todo # <<>>
    BY <1>1, <1>3, TypeGoes
  <2>2. Done(x) = r
    BY <1>3 DEF Done
  <2> HIDE DEF r
  <2> QED
    BY <1>1, <2>1, <2>2
<1> QED
  BY <1>2, <1>3

LEMMA TypeExecute == ASSUME TypeInv, NEW x \in Slots, Execute(x) PROVE TypeInv'
<1>1. TablesType'
  BY DoesIs, TablesApply DEF Execute
<1>2. RunsType'
  BY DoneIs, RunsGo DEF Execute
<1>3. StateType' /\ RestType'
  BY StateStays, RestMoves, LateIs DEF Execute
<1> QED
  BY <1>1, <1>2, <1>3, TypeParts

\* What an attempt that is tried again starts with.
Again(x) ==
    [run[x] EXCEPT !.attempt = @ + 1,
       !.todo = IF Does(x) \in {"drop", "create", "replace"}
                THEN Statements(TRUE) ELSE Statements(FALSE)]
LEMMA AgainIs ==
    ASSUME TypeInv, NEW x \in Slots, Executing(x), run[x].attempt < MaxAttempts
    PROVE  Again(x) \in Run /\ Again(x).at = "work" /\ Again(x).todo # <<>>
<1> DEFINE t == IF Does(x) \in {"drop", "create", "replace"}
                THEN Statements(TRUE) ELSE Statements(FALSE)
<1>1. t \in Seq(Statement) /\ t # <<>>
  BY StatementsAre DEF TypeInv
<1>2. run[x].attempt + 1 \in 0..MaxAttempts
  BY RunFields, MaxRowsIs DEF TypeInv
<1>3. run[x] \in Run /\ run[x].at = "work"
  BY RunFields DEF TypeInv, Executing
<1>4. Again(x) = [run[x] EXCEPT !.attempt = run[x].attempt + 1, !.todo = t]
  BY <1>3 DEF Again, Run
<1> HIDE DEF t
<1> QED
  BY <1>1, <1>2, <1>3, <1>4 DEF Run

LEMMA TypeFail ==
    ASSUME TypeInv, NEW x \in Slots, NEW applied \in BOOLEAN, NEW again \in BOOLEAN,
           Fail(x, applied, again)
    PROVE  TypeInv'
<1>0. Executing(x) /\ cut' = cut /\ Move
  BY DEF Fail
<1>1. TablesType'
  <2>1. CASE applied
    BY <1>0, <2>1, DoesIs, TablesApply DEF Fail
  <2>2. CASE ~applied
    BY <1>0, <2>2, TablesStay DEF Fail
  <2> QED
    BY <2>1, <2>2
<1>2. RunsType'
  <2>1. CASE again
    <3>1. run[x].attempt < MaxAttempts /\ run' = [run EXCEPT ![x] = Again(x)]
      BY <2>1 DEF Fail, Again
    <3> QED
      BY <1>0, <3>1, AgainIs, RunsGo
  <2>2. CASE ~again
    BY <2>2, RunsEnd DEF Fail
  <2> QED
    BY <2>1, <2>2
<1>3. slips' \subseteq Slips
  BY HalfDoneIs, LateIs DEF Fail, Slip, Slips
<1>4. StateType' /\ RestType'
  BY <1>0, <1>3, StateStays, RestMoves, LateIs DEF Fail
<1> QED
  BY <1>1, <1>2, <1>4, TypeParts

LEMMA TypeRefuse == ASSUME TypeInv, NEW x \in Slots, Refuse(x) PROVE TypeInv'
<1>1. slips' \subseteq Slips
  BY HalfDoneIs, LateIs DEF Refuse, Slip
<1>2. TablesType' /\ StateType' /\ RestType' /\ RunsType'
  BY <1>1, TablesStay, StateStays, RestMoves, LateIs, RunsEnd DEF Refuse
<1> QED
  BY <1>2, TypeParts

LEMMA TypeAbandon == ASSUME TypeInv, NEW x \in Slots, Abandon(x) PROVE TypeInv'
<1>1. slips' \subseteq Slips
  BY HalfDoneIs, LateIs DEF Abandon, Slip, Slips
<1>2. late' \subseteq Late
  <2> DEFINE u == [does |-> Does(x), catalog |-> Catalog(run[x].label),
                   from |-> run[x].from]
  <2>1. u \in Late
    BY DoesIs DEF Abandon, Late
  <2>2. late' = late \cup {u}
    BY DEF Abandon
  <2> HIDE DEF u
  <2> QED
    BY <2>1, <2>2, LateIs
<1>3. TablesType' /\ StateType' /\ RestType' /\ RunsType'
  BY <1>1, <1>2, TablesStay, StateStays, RestMoves, RunsEnd DEF Abandon
<1> QED
  BY <1>3, TypeParts

LEMMA TypeExecuteLate == ASSUME TypeInv, NEW s \in late, ExecuteLate(s) PROVE TypeInv'
<1>1. s.does \in Statement /\ s.catalog \in Catalogs /\ s.from \in 0..MaxRows
  BY LateIs DEF Late
<1>2. TablesType'
  BY <1>1, TablesApply DEF ExecuteLate
<1>3. late' \subseteq Late /\ slips' \subseteq Slips
  BY LateIs DEF ExecuteLate
<1>4. StateType' /\ RestType'
  BY <1>3, StateStays, RestMoves DEF ExecuteLate
<1>5. RunsType'
  BY TypeParts DEF ExecuteLate, RunsType
<1> QED
  BY <1>2, <1>4, <1>5, TypeParts

LEMMA TypeJoin == ASSUME TypeInv, NEW x \in Slots, Join(x) PROVE TypeInv'
<1> DEFINE c == Catalog(run[x].label)
           i == Identity(c)
           h == Highest(c)
           a == IF kind.strategy = "window" /\ Highest(c) > 0 THEN "mark" ELSE "end"
           r == [run[x] EXCEPT !.snap = i, !.seen = h, !.at = a]
<1>1. run[x] \in Run /\ run[x].at = "built" /\ run[x].todo = <<>> /\ c \in Catalogs
  BY RunFields DEF TypeInv, Join
<1>2. i \in Nat /\ h \in 0..MaxRows /\ a \in {"mark", "end"}
  <2> HIDE DEF c
  <2> QED
    BY <1>1, IdentityIs, HighestIs DEF TypeInv
<1>3. run' = [run EXCEPT ![x] = r]
  <2>1. run \in [Slots -> Run]
    BY TypeParts DEF RunsType
  <2>2. run' = [run EXCEPT ![x].snap = i, ![x].seen = h, ![x].at = a]
    BY DEF Join
  <2> HIDE DEF i, h, a
  <2> QED
    BY <2>1, <2>2
<1>4. r \in Run /\ r.at = a /\ r.todo = <<>>
  <2> HIDE DEF c, i, h, a
  <2> QED
    BY <1>1, <1>2 DEF Run
<1>5. RunsType'
  <2> HIDE DEF r, a
  <2> QED
    BY <1>2, <1>3, <1>4, RunsGo
<1>6. TablesType' /\ StateType' /\ RestType'
  BY TablesStay, StateStays, RestMoves, LateIs DEF Join
<1> QED
  BY <1>5, <1>6, TypeParts

LEMMA TypeDrain == ASSUME TypeInv, NEW x \in Slots, Drain(x) PROVE TypeInv'
<1> DEFINE i == Identity(Catalog(run[x].label))
           r == [run[x] EXCEPT !.at = "end", !.snap = i]
<1>1. run[x] \in Run /\ run[x].at = "built" /\ run[x].todo = <<>> /\ i \in Nat
  BY RunFields, IdentityIs DEF TypeInv, Drain
<1>2. run' = [run EXCEPT ![x] = r]
  BY TypeParts DEF RunsType, Drain
<1>3. r \in Run /\ r.at = "end" /\ r.todo = <<>>
  <2> HIDE DEF i
  <2> QED
    BY <1>1 DEF Run
<1>4. RunsType'
  <2> HIDE DEF r
  <2> QED
    BY <1>2, <1>3, RunsGo
<1>5. slips' \subseteq Slips
  BY LateIs DEF Drain, Slip, Slips
<1>6. TablesType' /\ StateType' /\ RestType'
  BY <1>5, TablesStay, StateStays, RestMoves, LateIs DEF Drain
<1> QED
  BY <1>4, <1>6, TypeParts

LEMMA LaterType ==
    ASSUME TypeInv, NEW l \in Labels, NEW n \in 0..MaxRows, NEW b \in Nat,
           mark' = Later(l, n, b), UNCHANGED <<record, clock>>
    PROVE  StateType'
<1>1. [value |-> n, by |-> b] \in Mark
  BY DEF Mark
<1>2. mark' = [mark EXCEPT ![l] = [value |-> n, by |-> b]] \/ mark' = mark
  BY DEF Later
<1> QED
  BY <1>1, <1>2, TypeParts DEF StateType

LEMMA TypeSetMark == ASSUME TypeInv, NEW x \in Slots, SetMark(x) PROVE TypeInv'
<1> DEFINE r == [run[x] EXCEPT !.at = "end"]
<1>1. /\ run[x] \in Run /\ run[x].at = "mark" /\ run[x].todo = <<>>
      /\ run[x].label \in Labels /\ run[x].seen \in 0..MaxRows /\ run[x].by \in Nat
  BY RunFields DEF TypeInv, SetMark
<1>2. run' = [run EXCEPT ![x] = r]
  BY TypeParts DEF RunsType, SetMark
<1>3. r \in Run /\ r.at = "end" /\ r.todo = <<>>
  BY <1>1 DEF Run
<1>4. RunsType'
  <2> HIDE DEF r
  <2> QED
    BY <1>2, <1>3, RunsGo
<1>5. StateType'
  BY <1>1, LaterType DEF SetMark
<1>6. TablesType' /\ RestType'
  BY TablesStay, RestMoves, LateIs DEF SetMark
<1> QED
  BY <1>4, <1>5, <1>6, TypeParts

\* What a run has from its start.
Kept4(r, s) == r.label = s.label /\ r.by = s.by /\ r.version = s.version /\ r.from = s.from

\* What is recorded of a run.
LEMMA RecordedCases ==
    ASSUME TypeInv, NEW q \in Run, record' \in {record, Recorded(q)}
    PROVE  /\ record' \in [Labels -> Record]
           /\ \A l \in Labels :
                \/ record'[l] = record[l]
                \/ /\ l = q.label /\ record'[l].version = q.version
                   /\ record'[l].snap = q.snap /\ record'[l].at = q.stamp
<1> DEFINE d == [version |-> q.version, snap |-> q.snap, at |-> q.stamp]
<1>1. d \in Record /\ q.label \in Labels
  BY DEF Run, Record
<1>2. record \in [Labels -> Record]
  BY DEF TypeInv, TypeOK
<1>3. record' = [record EXCEPT ![q.label] = d] \/ record' = record
  BY DEF Recorded
<1>4. d.version = q.version /\ d.snap = q.snap /\ d.at = q.stamp
  OBVIOUS
<1> HIDE DEF d
<1> QED
  BY <1>1, <1>2, <1>3, <1>4

LEMMA RecordType ==
    ASSUME TypeInv, NEW l \in Labels
    PROVE  /\ record[l].version \in Nat /\ record[l].snap \in Nat /\ record[l].at \in Nat
           /\ record[l].version <= MaxRows
<1>1. record[l] \in Record
  BY DEF TypeInv, TypeOK
<1> QED
  BY <1>1, MaxRowsIs DEF Record

LEMMA FinishIs ==
    ASSUME TypeInv, NEW x \in Slots, Finish(x)
    PROVE  \E r \in Run :
             /\ run' = [run EXCEPT ![x] = r] /\ Kept4(r, run[x]) /\ r.todo = <<>>
             /\ r.snap = run[x].snap /\ r.at = "end" /\ r.stamp = clock + 1
<1>1. PICK q \in Run : q = run[x] /\ q.at = "end" /\ q.todo = <<>>
  BY RunFields DEF TypeInv, Finish
<1>2. PICK n \in Nat : n = clock + 1
  BY DEF TypeInv, TypeOK
<1> DEFINE r == [q EXCEPT !.stamp = n]
<1>3. run' = [run EXCEPT ![x] = r]
  BY <1>1, <1>2, TypeParts DEF RunsType, Finish
<1>4. r \in Run /\ r.at = "end" /\ r.todo = <<>> /\ r.snap = q.snap /\ r.stamp = n /\ Kept4(r, q)
  BY <1>1, <1>2 DEF Run, Kept4
<1> HIDE DEF r
<1>5. Kept4(r, run[x])
  BY <1>1, <1>4
<1> QED
  BY <1>1, <1>2, <1>3, <1>4, <1>5

LEMMA TypeFinish == ASSUME TypeInv, NEW x \in Slots, Finish(x) PROVE TypeInv'
<1>1. RunsType'
  <2>1. PICK r \in Run : run' = [run EXCEPT ![x] = r] /\ r.todo = <<>> /\ r.at = "end"
    BY FinishIs
  <2> QED
    BY <2>1, RunsGo
<1>2. StateType'
  BY TypeParts DEF StateType, Finish
<1>3. TablesType' /\ RestType'
  BY TablesStay, RestMoves, LateIs DEF Finish
<1> QED
  BY <1>1, <1>2, <1>3, TypeParts

LEMMA TypeEnd == ASSUME TypeInv, NEW x \in Slots, End(x) PROVE TypeInv'
<1>1. run[x] \in Run /\ record' \in {record, Recorded(run[x])}
  BY RunFields DEF TypeInv, End
<1>2. StateType'
  BY <1>1, RecordedCases, TypeParts DEF StateType, End
<1>3. TablesType' /\ RestType' /\ RunsType'
  BY TablesStay, RestMoves, LateIs, RunsEnd DEF End
<1> QED
  BY <1>2, <1>3, TypeParts

LEMMA TypeAdopt == ASSUME TypeInv, NEW x \in Slots, Adopt(x) PROVE TypeInv'
<1>1. /\ run[x] \in Run /\ run[x].at = "adopt" /\ run[x].todo # <<>>
      /\ run[x].label \in Labels /\ run[x].version \in 0..MaxRows
      /\ run[x].snap \in Nat /\ run[x].reuse \in Labels
  BY RunFields DEF TypeInv, Adopt
<1>2. record' \in {record, Recorded(run[x])}
  BY DEF Adopt
<1>3. StateType'
  BY <1>1, <1>2, RecordedCases, TypeParts DEF StateType, Adopt
<1>4. \E r \in Run : /\ run' = [run EXCEPT ![x] = r]
                     /\ r.at \in {"work", "adopt"} <=> r.todo # <<>>
  <2>1. \/ run' = [run EXCEPT ![x] = [run[x] EXCEPT !.at = "work", !.snap = 0, !.stamp = 0]]
        \/ run' = [run EXCEPT ![x] = [run[x] EXCEPT !.at = "copy", !.todo = <<>>]]
        \/ run' = [run EXCEPT ![x] = Idle]
    BY DEF Adopt
  <2> DEFINE r == [run[x] EXCEPT !.at = "work", !.snap = 0, !.stamp = 0]
             s == [run[x] EXCEPT !.at = "copy", !.todo = <<>>]
  <2>2. r \in Run /\ r.at = "work" /\ r.todo # <<>>
    BY <1>1 DEF Run
  <2>3. s \in Run /\ s.at = "copy" /\ s.todo = <<>>
    BY TypeGoes
  <2> HIDE DEF r, s
  <2> QED
    BY <2>1, <2>2, <2>3, IdleType DEF r, s
<1>5. RunsType'
  BY <1>4, RunsGo
<1>6. TablesType' /\ RestType'
  BY TablesStay, RestMoves, LateIs DEF Adopt
<1> QED
  BY <1>3, <1>5, <1>6, TypeParts

LEMMA TypeCopyMark == ASSUME TypeInv, NEW x \in Slots, CopyMark(x) PROVE TypeInv'
<1>1. run[x].label \in Labels /\ run[x].reuse \in Labels /\ run[x].by \in Nat
  BY RunFields DEF TypeInv
<1>2. mark[run[x].reuse].value \in 0..MaxRows
  BY <1>1, TypeParts DEF StateType, Mark
<1>3. UNCHANGED <<record, clock>>
      /\ mark' \in {mark, Later(run[x].label, mark[run[x].reuse].value, run[x].by)}
  BY DEF CopyMark
<1>4. StateType'
  BY <1>1, <1>2, <1>3, LaterType, TypeParts DEF StateType
<1>5. slips' \subseteq Slips
  BY LateIs DEF CopyMark, Slip, Slips
<1>6. TablesType' /\ RestType' /\ RunsType'
  BY <1>5, TablesStay, RestMoves, LateIs, RunsEnd DEF CopyMark
<1> QED
  BY <1>4, <1>6, TypeParts

LEMMA TypeStop == ASSUME TypeInv, NEW x \in Slots, Stop(x) PROVE TypeInv'
<1>1. slips' \subseteq Slips
  BY HalfDoneIs, LateIs DEF Stop, Slip, Slips
<1>2. TablesType' /\ StateType' /\ RestType' /\ RunsType'
  BY <1>1, TablesStay, StateStays, RestMoves, LateIs, RunsEnd DEF Stop
<1> QED
  BY <1>2, TypeParts

LEMMA TypeWorld == ASSUME TypeInv, WorldStep PROVE TypeInv'
<1>0. /\ table \in [Catalogs -> Table] /\ snaps \in Nat /\ before \in Table
      /\ \A d \in Catalogs : table[d].snap <= snaps /\ table[d].snap \in Nat
      /\ cut \subseteq 0..snaps /\ before.snap <= snaps /\ before.snap \in Nat
      /\ "main" \in Catalogs /\ "candidate" \in Catalogs
  BY DEF TypeInv, TypeOK, Table, Catalogs
<1>1. ASSUME Arrive PROVE TypeInv'
  <2>1. source' \in 1..MaxRows
    BY <1>1, MaxRowsIs DEF Arrive, TypeInv, TypeOK
  <2> QED
    BY <1>1, <2>1 DEF Arrive, TypeInv, TypeOK, tables, state
<1>2. ASSUME CutBranch PROVE TypeInv'
  <2>1. TablesType'
    BY <1>0, <1>2 DEF CutBranch, TablesType
  <2>2. slips' \subseteq Slips
    BY <1>2, HalvesIs, LateIs DEF CutBranch, Slip
  <2>3. StateType' /\ RestType' /\ RunsType'
    BY <1>2, <2>2, StateStays, RestMoves, LateIs, TypeParts DEF CutBranch, RunsType
  <2> QED
    BY <2>1, <2>3, TypeParts
<1>3. ASSUME Publish PROVE TypeInv'
  <2>1. TablesType'
    BY <1>0, <1>3 DEF Publish, TablesType
  <2>2. slips' \subseteq Slips
    BY <1>3, BesideIs, HalvesIs, LateIs DEF Publish, Slip, Slips
  <2>3. StateType' /\ RestType' /\ RunsType'
    BY <1>3, <2>2, StateStays, RestMoves, LateIs, TypeParts DEF Publish, RunsType
  <2> QED
    BY <2>1, <2>3, TypeParts
<1>4. ASSUME Rollback PROVE TypeInv'
  <2>1. TablesType'
    BY <1>0, <1>4 DEF Rollback, TablesType
  <2>2. slips' \subseteq Slips
    BY <1>4, BesideIs, LateIs DEF Rollback, Slip, Slips
  <2>3. StateType' /\ RestType' /\ RunsType'
    BY <1>4, <2>2, StateStays, RestMoves, LateIs, TypeParts DEF Rollback, RunsType
  <2> QED
    BY <2>1, <2>3, TypeParts
<1> QED
  BY <1>1, <1>2, <1>3, <1>4 DEF WorldStep

LEMMA TypeNext == TypeInv /\ [Next]_vars => TypeInv'
<1> SUFFICES ASSUME TypeInv, [Next]_vars PROVE TypeInv'
  OBVIOUS
<1>1. CASE UNCHANGED vars
  BY <1>1 DEF TypeInv, TypeOK, vars, tables, state
<1>2. CASE RunStep
  BY <1>2, TypeStart, TypeExecute, TypeRefuse, TypeJoin, TypeSetMark, TypeFinish, TypeEnd, TypeAdopt,
     TypeCopyMark DEF RunStep
<1>3. CASE FaultStep
  BY <1>3, TypeFail, TypeAbandon, TypeDrain, TypeStop, TypeExecuteLate DEF FaultStep
<1>4. CASE WorldStep
  BY <1>4, TypeWorld
<1> QED
  BY <1>1, <1>2, <1>3, <1>4 DEF Next

LEMMA TypeAlways == Spec => []TypeInv
  BY TypeInit, TypeNext, PTL DEF Spec

\* The type invariant.
THEOREM TypeCorrect == Spec => []TypeOK
<1>1. TypeInv => TypeOK
  BY DEF TypeInv
<1> QED
  BY <1>1, TypeAlways, PTL

-----------------------------------------------------------------------------
(***************************************************************************)
(* No row is passed over.  A table holds the rows of its source up to some *)
(* row, and every bound and every watermark anybody goes by is sound for   *)
(* the table it is used on: read of it, or of one that it is a copy of.    *)
(***************************************************************************)
\* Every row up to n is in the table, if there is one.
Kept(c, n) == n <= source /\ (table[c].there => 1..n \subseteq Present(c))
Within(c, d) == table[c].there /\ table[d].there => Present(c) \subseteq Present(d)

\* Row n can be relied on: only a window has bounds, nothing is known of a
\* candidate that was never cut, and while main is as it was at the cut the
\* candidate may take its place.
Sound(c, n) ==
    /\ Kept(c, n)
    /\ kind.strategy # "window" \/ (cut = {} /\ c = "candidate") => n = 0
    /\ c = "main" /\ table["main"].snap \in cut => Kept("candidate", n)

\* A window never deletes or merges.
Windowed == {"drop", "create", "replace", "insert"}

\* What a run is about to do, or goes by.  The label a watermark is to be
\* copied for has a table with all rows of the one that was adopted.
Copies(r) ==
    /\ kind.strategy = "window" /\ r.snap <= snaps
    /\ \A c \in Catalogs : table[c].snap = r.snap =>
           table[c].there /\ Within(c, Catalog(r.label))
RunFine(r) ==
    /\ kind.strategy = "window" => r.todo \in Seq(Windowed)
    /\ cut = {} /\ r.at # "idle" => r.label \in Shared
    /\ r.at \in {"work", "adopt"} => Sound(Catalog(r.label), r.from)
    /\ r.at = "mark" => Sound(Catalog(r.label), r.seen)
    /\ r.at = "adopt" => r.snap # 0
    /\ r.at = "copy" => Copies(r)
LateFine(s) == /\ kind.strategy = "window" => s.does \in Windowed
               /\ Sound(s.catalog, s.from)

Shape(c) == /\ \E k \in 0..source : Present(c) = 1..k
            /\ ~table[c].there => Present(c) = {}
ShapeInv == \A c \in Catalogs : Shape(c)
\* A snapshot has one content.
SameInv == table["main"].snap = table["candidate"].snap => table["main"] = table["candidate"]
CutInv == kind.strategy = "window" /\ table["main"].snap \in cut => Within("main", "candidate")
WarehouseInv == ShapeInv /\ SameInv /\ CutInv

MarksInv == \A l \in Labels : Sound(Catalog(l), mark[l].value)
RunsInv == \A x \in Slots : RunFine(run[x])
LateInv == \A s \in late : LateFine(s)

SetBack == Happened({"set back", "copied"})
KeptInv == SetBack \/ (WarehouseInv /\ MarksInv /\ RunsInv /\ LateInv)

-----------------------------------------------------------------------------
\* What a statement leaves of a table, when its bound is sound.
LEMMA WrittenIs ==
    ASSUME TypeInv, NEW does \in Statement, NEW c \in Catalogs, NEW n \in 0..MaxRows,
           Apply(does, c, n), source' = source, Shape(c), Kept(c, n)
    PROVE  /\ table'[c].there <=> does # "drop"
           /\ table'[c].snap = snaps + 1 /\ snaps' = snaps + 1
           /\ Present(c)' = IF does \in {"drop", "delete"} THEN {} ELSE 1..source
           /\ \A d \in Catalogs \ {c} : table'[d] = table[d]
<1>0. table \in [Catalogs -> Table] /\ source \in 1..MaxRows /\ MaxRows \in Nat
  BY MaxRowsIs DEF TypeInv, TypeOK
<1>1. snaps' = snaps + 1 /\ \A d \in Catalogs \ {c} : table'[d] = table[d]
  BY <1>0 DEF Apply
<1>2. \A k \in Rows : table[c].rows[k] \in 0..2
  BY <1>0 DEF Table, Held
<1>3. PICK k0 \in 0..source : Present(c) = 1..k0
  BY DEF Shape
<1>4. \A k \in Rows : table[c].rows[k] > 0 <=> k <= k0
  BY <1>0, <1>3 DEF Present, Rows
<1>5. Present(c)' = {k \in Rows : table'[c].rows[k] > 0}
  BY DEF Present
<1>6. CASE does = "drop"
  <2>1. table'[c] = [Absent EXCEPT !.snap = snaps + 1]
    BY <1>0, <1>6 DEF Apply
  <2>2. ~table'[c].there /\ table'[c].snap = snaps + 1 /\ \A k \in Rows : table'[c].rows[k] = 0
    BY <2>1 DEF Absent
  <2> QED
    BY <1>1, <1>5, <1>6, <2>2
<1>7. CASE does # "drop"
  <2>1. table'[c] = [there |-> TRUE, snap |-> snaps + 1,
                     rows |-> [k \in Rows |-> Makes(does, table[c].rows[k], k, n)]]
    BY <1>0, <1>7 DEF Apply
  <2>2. Possible(does, table[c])
    BY DEF Apply
  <2>3. \A k \in Rows : table'[c].rows[k] = Makes(does, table[c].rows[k], k, n)
    BY <2>1
  <2>4. \A k \in Rows : Makes(does, table[c].rows[k], k, n) > 0
                        <=> does # "delete" /\ k <= source
    <3> SUFFICES ASSUME NEW k \in Rows
                 PROVE  Makes(does, table[c].rows[k], k, n) > 0 <=> does # "delete" /\ k <= source
      OBVIOUS
    <3>1. k \in 1..MaxRows /\ table[c].rows[k] \in 0..2 /\ (table[c].rows[k] > 0 <=> k <= k0)
          /\ k0 \in 0..source
      BY <1>2, <1>4 DEF Rows
    <3>2. CASE does \in {"create", "replace"}
      BY <1>0, <3>1, <3>2 DEF Makes
    <3>3. CASE does = "insert"
      <4>1. table[c].there
        BY <2>2, <3>3 DEF Possible
      <4>2. n <= k0
        <5>1. 1..n \subseteq 1..k0
          BY <1>3, <4>1 DEF Kept
        <5>2. n = 0 \/ n \in 1..n
          OBVIOUS
        <5> QED
          BY <3>1, <5>1, <5>2
      <4>3. Makes(does, table[c].rows[k], k, n)
              = IF k \in n + 1..source THEN Least(table[c].rows[k] + 1, 2) ELSE table[c].rows[k]
        BY <3>3 DEF Makes
      <4>4. Least(table[c].rows[k] + 1, 2) > 0
        BY <3>1 DEF Least
      <4> QED
        BY <1>0, <3>1, <3>3, <4>2, <4>3, <4>4
    <3>4. CASE does = "delete"
      BY <1>0, <3>1, <3>4 DEF Makes
    <3>5. CASE does = "merge"
      BY <1>0, <3>1, <3>5 DEF Makes
    <3> QED
      BY <1>7, <3>2, <3>3, <3>4, <3>5 DEF Statement
  <2>5. Present(c)' = {k \in Rows : does # "delete" /\ k <= source}
    BY <1>5, <2>3, <2>4
  <2>6. {k \in Rows : k <= source} = 1..source
    BY <1>0 DEF Rows
  <2> QED
    BY <1>1, <1>7, <2>1, <2>5, <2>6
<1> QED
  BY <1>6, <1>7

LEMMA CatalogsAre ==
    /\ Catalogs = {"main", "candidate"}
    /\ \A l : Catalog(l) \in Catalogs /\ (l \in Shared <=> Catalog(l) = "main")
  BY DEF Catalogs, Catalog

LEMMA PresentIs == ASSUME NEW c \in Catalogs, ShapeInv
                   PROVE  /\ \E k \in 0..source : Present(c) = 1..k
                          /\ ~table[c].there => Present(c) = {}
  BY DEF ShapeInv, Shape

LEMMA SoundZero == ASSUME TypeInv, NEW c \in Catalogs PROVE Sound(c, 0)
<1>1. source \in 1..MaxRows /\ MaxRows \in Nat /\ 1..0 = {}
  BY MaxRowsIs DEF TypeInv, TypeOK
<1> QED
  BY <1>1 DEF Sound, Kept

LEMMA SoundLess ==
    ASSUME TypeInv, NEW c \in Catalogs, NEW n \in Nat, NEW m \in 0..n, Sound(c, n)
    PROVE  Sound(c, m)
<1>1. 1..m \subseteq 1..n /\ source \in Nat /\ m <= n
  BY MaxRowsIs DEF TypeInv, TypeOK
<1>2. \A d : Kept(d, n) => Kept(d, m)
  BY <1>1 DEF Kept
<1> QED
  BY <1>1, <1>2 DEF Sound

LEMMA SoundHighest ==
    ASSUME TypeInv, WarehouseInv, NEW c \in Catalogs, kind.strategy = "window",
           cut # {} \/ c = "main"
    PROVE  Sound(c, Highest(c))
<1> DEFINE h == Highest(c)
<1>1. h \in 0..MaxRows /\ (h # 0 => h \in Present(c)) /\ MaxRows \in Nat /\ source \in 1..MaxRows
  BY HighestIs, MaxRowsIs DEF TypeInv, TypeOK
<1>2. PICK k \in 0..source : Present(c) = 1..k
  BY PresentIs DEF WarehouseInv
<1>3. h <= source /\ 1..h \subseteq Present(c)
  BY <1>1, <1>2
<1>4. c = "main" /\ table["main"].snap \in cut /\ table["candidate"].there =>
        1..h \subseteq Present("candidate")
  <2>1. CASE table["main"].there
    BY <1>3, <2>1 DEF WarehouseInv, CutInv, Within
  <2>2. ASSUME ~table["main"].there, c = "main" PROVE 1..h = {}
    <3>1. h = 0
      BY <1>1, <2>2, PresentIs DEF WarehouseInv
    <3> QED
      BY <3>1
  <2> QED
    BY <2>1, <2>2
<1> HIDE DEF h
<1>5. kind.strategy # "window" \/ (cut = {} /\ c = "candidate") => h = 0
  OBVIOUS
<1> QED
  BY <1>3, <1>4, <1>5 DEF Sound, Kept, h

-----------------------------------------------------------------------------
\* A step of the warehouse, or of the world, that leaves sound what was.
Carries == /\ WarehouseInv'
           /\ \A c \in Catalogs, n \in Nat : Sound(c, n) => Sound(c, n)'
           /\ \A r \in Run : RunFine(r) => RunFine(r)'

LEMMA RunTypes ==
    ASSUME NEW r \in Run
    PROVE  /\ r.label \in Labels /\ r.from \in Nat /\ r.seen \in Nat /\ r.snap \in Nat
           /\ Catalog(r.label) \in Catalogs
  BY MaxRowsIs, CatalogsAre DEF Run

LEMMA RunsCarry ==
    ASSUME kind' = kind, cut' = {} => cut = {},
           \A c \in Catalogs, n \in Nat : Sound(c, n) => Sound(c, n)',
           \A r \in Run : r.at = "copy" /\ Copies(r) /\ RunFine(r) => Copies(r)'
    PROVE  \A r \in Run : RunFine(r) => RunFine(r)'
<1> SUFFICES ASSUME NEW r \in Run, RunFine(r) PROVE RunFine(r)'
  OBVIOUS
<1>1. /\ r.at \in {"work", "adopt"} => Sound(Catalog(r.label), r.from)'
      /\ r.at = "mark" => Sound(Catalog(r.label), r.seen)'
  BY RunTypes DEF RunFine
<1>2. r.at = "copy" => Copies(r)'
  BY DEF RunFine
<1> QED
  BY <1>1, <1>2 DEF RunFine

LEMMA StaysCarries ==
    ASSUME WarehouseInv, UNCHANGED <<kind, source, tables, cut>>
    PROVE  Carries
<1>1. \A c : Kept(c, 0)' = Kept(c, 0) /\ Present(c)' = Present(c)
  BY DEF Kept, Present, tables
<1>2. WarehouseInv'
  BY DEF WarehouseInv, ShapeInv, Shape, SameInv, CutInv, Within, Present, tables
<1>3. \A c \in Catalogs, n \in Nat : Sound(c, n) => Sound(c, n)'
  BY DEF Sound, Kept, Present, tables
<1>4. \A r \in Run : Copies(r) => Copies(r)'
  BY DEF Copies, Within, Present, tables
<1>5. kind' = kind /\ cut' = cut
  OBVIOUS
<1>6. \A r \in Run : RunFine(r) => RunFine(r)'
  BY <1>3, <1>4, <1>5, RunsCarry
<1> QED
  BY <1>2, <1>3, <1>6 DEF Carries

LEMMA ArriveCarries ==
    ASSUME TypeInv, WarehouseInv, Arrive
    PROVE  Carries
<1>1. /\ \A c : Present(c)' = Present(c)
      /\ source' = source + 1 /\ source \in Nat /\ table' = table /\ cut' = cut /\ snaps' = snaps
      /\ kind' = kind
  BY MaxRowsIs DEF Arrive, tables, Present, TypeInv, TypeOK
<1>2. WarehouseInv'
  <2>1. ShapeInv'
    BY <1>1 DEF WarehouseInv, ShapeInv, Shape
  <2> QED
    BY <1>1, <2>1 DEF WarehouseInv, SameInv, CutInv, Within
<1>3. \A c \in Catalogs, n \in Nat : Sound(c, n) => Sound(c, n)'
  BY <1>1 DEF Sound, Kept
<1>4. \A r \in Run : Copies(r) => Copies(r)'
  BY <1>1 DEF Copies, Within
<1>6. \A r \in Run : RunFine(r) => RunFine(r)'
  BY <1>1, <1>3, <1>4, RunsCarry
<1> QED
  BY <1>2, <1>3, <1>6 DEF Carries

\* A statement with a sound bound.
LEMMA ApplyCarries ==
    ASSUME TypeInv, WarehouseInv, NEW does \in Statement, NEW c \in Catalogs,
           NEW n \in 0..MaxRows, Apply(does, c, n), Sound(c, n),
           kind.strategy = "window" => does \in Windowed,
           UNCHANGED <<kind, source, cut>>
    PROVE  Carries
<1>0. /\ source \in 1..MaxRows /\ MaxRows \in Nat /\ snaps \in Nat /\ cut \subseteq 0..snaps
      /\ \A d \in Catalogs : table[d].snap <= snaps /\ table[d].snap \in Nat
      /\ table \in [Catalogs -> Table]
  BY MaxRowsIs DEF TypeInv, TypeOK, Table
<1>1. /\ table'[c].there <=> does # "drop"
      /\ table'[c].snap = snaps + 1 /\ snaps' = snaps + 1
      /\ Present(c)' = IF does \in {"drop", "delete"} THEN {} ELSE 1..source
      /\ \A d \in Catalogs \ {c} : table'[d] = table[d]
  <2>1. Shape(c) /\ Kept(c, n)
    BY DEF WarehouseInv, ShapeInv, Sound
  <2> QED
    BY <2>1, WrittenIs
<1>2. \A d \in Catalogs \ {c} : Present(d)' = Present(d)
  BY <1>1 DEF Present
<1>3. \A d \in Catalogs : \E k \in 0..source : Present(d) = 1..k
  BY PresentIs DEF WarehouseInv
<1>4. \A d \in Catalogs : Present(d) \subseteq 1..source
  BY <1>0, <1>3
<1>5. \A d \in Catalogs : Shape(d)'
  <2>1. Shape(c)'
    <3>1. 1..0 = {} /\ 0 \in 0..source /\ source \in 0..source
      BY <1>0
    <3> QED
      BY <1>1, <3>1 DEF Shape
  <2>2. \A d \in Catalogs \ {c} : Shape(d)'
    BY <1>1, <1>2 DEF WarehouseInv, ShapeInv, Shape
  <2> QED
    BY <2>1, <2>2
<1>6. \A d \in Catalogs \ {c} : table'[d].snap # table'[c].snap
  BY <1>0, <1>1
<1>7. SameInv'
  BY <1>6, CatalogsAre DEF SameInv
\* Under a window a table that was written has everything.
<1>8. kind.strategy = "window" /\ table'[c].there => Present(c)' = 1..source
  BY <1>1 DEF Windowed
<1>9. table'[c].snap \notin cut'
  BY <1>0, <1>1
<1>10. CutInv'
  BY <1>1, <1>2, <1>4, <1>8, <1>9, CatalogsAre DEF CutInv, Within
<1>11. \A d \in Catalogs, m \in Nat : Sound(d, m) => Kept(d, m)'
  <2> SUFFICES ASSUME NEW d \in Catalogs, NEW m \in Nat, Sound(d, m) PROVE Kept(d, m)'
    OBVIOUS
  <2>1. m <= source /\ (kind.strategy # "window" => m = 0) /\ Kept(d, m)
    BY DEF Sound, Kept
  <2>2. CASE d = c
    <3>1. CASE kind.strategy = "window"
      <4>1. 1..m \subseteq 1..source
        BY <1>0, <2>1
      <4> QED
        BY <1>8, <2>1, <2>2, <3>1, <4>1 DEF Kept
    <3>2. CASE kind.strategy # "window"
      <4>1. m = 0 /\ 1..0 = {}
        BY <2>1, <3>2
      <4> QED
        BY <2>1, <4>1 DEF Kept
    <3> QED
      BY <3>1, <3>2
  <2>3. CASE d # c
    BY <1>1, <1>2, <2>1, <2>3 DEF Kept
  <2> QED
    BY <2>2, <2>3
<1>12. \A m \in Nat : Sound("main", m) /\ table'["main"].snap \in cut' => Kept("candidate", m)'
  <2> SUFFICES ASSUME NEW m \in Nat, Sound("main", m), table'["main"].snap \in cut'
               PROVE  Kept("candidate", m)'
    OBVIOUS
  <2>1. c = "candidate"
    BY <1>9, CatalogsAre
  <2>2. m <= source /\ (kind.strategy # "window" => m = 0)
    BY DEF Sound, Kept
  <2>3. 1..m \subseteq 1..source /\ 1..0 = {}
    BY <1>0, <2>2
  <2> QED
    BY <1>8, <2>1, <2>2, <2>3 DEF Kept
<1>13. \A d \in Catalogs, m \in Nat : Sound(d, m) => Sound(d, m)'
  BY <1>11, <1>12 DEF Sound
<1>14. \A r \in Run : Copies(r) => Copies(r)'
  <2> SUFFICES ASSUME NEW r \in Run, Copies(r) PROVE Copies(r)'
    OBVIOUS
  <2>1. kind.strategy = "window" /\ r.snap <= snaps /\ r.snap \in Nat
        /\ Catalog(r.label) \in Catalogs
    BY RunTypes DEF Copies
  <2>2. ASSUME NEW d \in Catalogs, table'[d].snap = r.snap
        PROVE  table'[d].there /\ Within(d, Catalog(r.label))'
    <3>1. d # c
      BY <1>0, <1>1, <2>1, <2>2
    <3>2. table'[d] = table[d] /\ Present(d)' = Present(d)
      BY <1>1, <1>2, <3>1
    <3>3. table[d].there /\ Within(d, Catalog(r.label))
      BY <2>2, <3>2 DEF Copies
    <3>4. CASE Catalog(r.label) = c
      BY <1>4, <1>8, <2>1, <3>2, <3>3, <3>4 DEF Within
    <3>5. CASE Catalog(r.label) # c
      BY <1>1, <1>2, <2>1, <3>2, <3>3, <3>5 DEF Within
    <3> QED
      BY <3>2, <3>3, <3>4, <3>5
  <2>3. r.snap <= snaps'
    BY <1>0, <1>1, <2>1
  <2> QED
    BY <2>1, <2>2, <2>3 DEF Copies
<1>15. \A r \in Run : RunFine(r) => RunFine(r)'
  BY <1>13, <1>14, RunsCarry
<1>16. WarehouseInv'
  BY <1>5, <1>7, <1>10 DEF WarehouseInv, ShapeInv
<1> QED
  BY <1>13, <1>15, <1>16 DEF Carries

LEMMA CutCarries ==
    ASSUME TypeInv, WarehouseInv, CutBranch
    PROVE  Carries
<1>0. /\ cut = {} /\ cut' = {table["main"].snap} /\ UNCHANGED <<kind, source, snaps>>
      /\ table'["main"] = table["main"] /\ table'["candidate"] = table["main"]
  BY CatalogsAre DEF CutBranch, TypeInv, TypeOK
<1>1. Present("main")' = Present("main") /\ Present("candidate")' = Present("main")
  BY <1>0 DEF Present
<1>2. WarehouseInv'
  BY <1>0, <1>1, CatalogsAre DEF WarehouseInv, ShapeInv, Shape, SameInv, CutInv, Within
<1>3. \A c \in Catalogs, n \in Nat : Sound(c, n) => Sound(c, n)'
  <2> SUFFICES ASSUME NEW c \in Catalogs, NEW n \in Nat, Sound(c, n) PROVE Sound(c, n)'
    OBVIOUS
  <2>1. CASE c = "main"
    BY <1>0, <1>1, <2>1 DEF Sound, Kept
  <2>2. CASE c = "candidate"
    <3>1. n = 0
      BY <1>0, <2>2 DEF Sound
    <3>2. TypeInv'
      BY TypeWorld DEF WorldStep
    <3>3. 1..0 = {}
      OBVIOUS
    <3> QED
      BY <1>0, <2>2, <3>1, <3>3 DEF Sound, Kept
  <2> QED
    BY <2>1, <2>2, CatalogsAre
<1>4. \A r \in Run : r.at = "copy" /\ Copies(r) /\ RunFine(r) => Copies(r)'
  <2> SUFFICES ASSUME NEW r \in Run, r.at = "copy", Copies(r), RunFine(r) PROVE Copies(r)'
    OBVIOUS
  <2>1. Catalog(r.label) = "main"
    BY <1>0, CatalogsAre DEF RunFine
  <2> QED
    BY <1>0, <1>1, <2>1, CatalogsAre DEF Copies, Within
<1>5. \A r \in Run : RunFine(r) => RunFine(r)'
  BY <1>0, <1>3, <1>4, RunsCarry
<1> QED
  BY <1>2, <1>3, <1>5 DEF Carries

LEMMA PublishCarries ==
    ASSUME TypeInv, WarehouseInv, Publish
    PROVE  Carries
<1>0. /\ table["main"].snap \in cut /\ cut' = {table["candidate"].snap}
      /\ UNCHANGED <<kind, source, snaps>>
      /\ table'["main"] = table["candidate"] /\ table'["candidate"] = table["candidate"]
  BY CatalogsAre DEF Publish, TypeInv, TypeOK
<1>1. Present("main")' = Present("candidate") /\ Present("candidate")' = Present("candidate")
  BY <1>0 DEF Present
<1>2. WarehouseInv'
  BY <1>0, <1>1, CatalogsAre DEF WarehouseInv, ShapeInv, Shape, SameInv, CutInv, Within
<1>3. \A c \in Catalogs, n \in Nat : Sound(c, n) => Sound(c, n)'
  BY <1>0, <1>1, CatalogsAre DEF Sound, Kept
<1>4. \A r \in Run : Copies(r) => Copies(r)'
  <2> SUFFICES ASSUME NEW r \in Run, Copies(r) PROVE Copies(r)'
    OBVIOUS
  <2>1. Catalog(r.label) \in Catalogs
    BY CatalogsAre
  <2> QED
    BY <1>0, <1>1, <2>1, CatalogsAre DEF Copies, Within
<1>5. \A r \in Run : RunFine(r) => RunFine(r)'
  BY <1>0, <1>3, <1>4, RunsCarry
<1> QED
  BY <1>2, <1>3, <1>5 DEF Carries

-----------------------------------------------------------------------------
KeptCore == WarehouseInv /\ MarksInv /\ RunsInv /\ LateInv

\* What a step makes of the watermarks, the runs and the statements left
\* running is sound before the tables move.
MarksNext == \A l \in Labels : \E n \in Nat : mark'[l].value = n /\ Sound(Catalog(l), n)
RunsNext == \A x \in Slots : \E r \in Run : run'[x] = r /\ RunFine(r)
LateNext == \A s \in late' : s \in Late /\ LateFine(s)

LEMMA CoreNext ==
    ASSUME Carries, kind' = kind, MarksNext, RunsNext, LateNext
    PROVE  KeptCore'
<1>1. MarksInv'
  <2> SUFFICES ASSUME NEW l \in Labels PROVE Sound(Catalog(l), mark[l].value)'
    BY DEF MarksInv
  <2>1. PICK n \in Nat : mark'[l].value = n /\ Sound(Catalog(l), n)
    BY DEF MarksNext
  <2>2. Sound(Catalog(l), n)'
    BY <2>1, CatalogsAre DEF Carries
  <2> QED
    BY <2>1, <2>2
<1>2. RunsInv'
  <2> SUFFICES ASSUME NEW x \in Slots PROVE RunFine(run[x])'
    BY DEF RunsInv
  <2>1. PICK r \in Run : run'[x] = r /\ RunFine(r)
    BY DEF RunsNext
  <2>2. RunFine(r)'
    BY <2>1 DEF Carries
  <2> QED
    BY <2>1, <2>2
<1>3. LateInv'
  <2> SUFFICES ASSUME NEW s \in late' PROVE LateFine(s)'
    BY DEF LateInv
  <2>1. LateFine(s) /\ s.catalog \in Catalogs /\ s.from \in Nat
    BY MaxRowsIs DEF LateNext, Late
  <2>2. Sound(s.catalog, s.from)'
    BY <2>1 DEF Carries, LateFine
  <2> QED
    BY <2>1, <2>2 DEF LateFine
<1> QED
  BY <1>1, <1>2, <1>3 DEF KeptCore, Carries

LEMMA MarksStay == ASSUME TypeInv, KeptCore, mark' = mark PROVE MarksNext
<1>1. \A l \in Labels : mark[l].value \in Nat
  BY MaxRowsIs, TypeParts DEF StateType, Mark
<1> QED
  BY <1>1 DEF MarksNext, KeptCore, MarksInv
LEMMA RunsStay == ASSUME TypeInv, KeptCore, run' = run PROVE RunsNext
  BY TypeParts DEF RunsNext, KeptCore, RunsInv, RunsType
LEMMA RunsPut ==
    ASSUME TypeInv, KeptCore, NEW x \in Slots, NEW r \in Run, RunFine(r),
           run' = [run EXCEPT ![x] = r]
    PROVE  RunsNext
  BY TypeParts DEF RunsNext, KeptCore, RunsInv, RunsType
LEMMA IdleFine == RunFine(Idle) /\ Idle \in Run
<1>1. <<>> \in Seq(Windowed)
  OBVIOUS
<1> QED
  BY <1>1, IdleType DEF RunFine
LEMMA RunsIdle ==
    ASSUME TypeInv, KeptCore, NEW x \in Slots, run' = [run EXCEPT ![x] = Idle]
    PROVE  RunsNext
  BY IdleFine, RunsPut
LEMMA LateStays == ASSUME TypeInv, KeptCore, late' \subseteq late PROVE LateNext
  BY LateIs DEF LateNext, KeptCore, LateInv

\* A run that is somewhere else in its attempt.
LEMMA FineGoes ==
    ASSUME NEW r \in Run, NEW s \in Run, RunFine(r), r.at # "idle",
           s.label = r.label, s.at \in {"built", "end"}, s.todo = <<>>
    PROVE  RunFine(s)
<1>1. <<>> \in Seq(Windowed)
  OBVIOUS
<1> QED
  BY <1>1 DEF RunFine
LEMMA FineWorks ==
    ASSUME NEW r \in Run, NEW s \in Run, RunFine(r), r.at = "work",
           s.label = r.label, s.at = "work", s.from = r.from,
           kind.strategy = "window" => s.todo \in Seq(Windowed)
    PROVE  RunFine(s)
  BY DEF RunFine

LEMMA RunIsFine == ASSUME TypeInv, KeptCore, NEW x \in Slots
                   PROVE  run[x] \in Run /\ RunFine(run[x])
  BY TypeParts DEF KeptCore, RunsInv, RunsType

LEMMA WindowStatements ==
    ASSUME TypeInv, kind.strategy = "window", NEW whole \in BOOLEAN
    PROVE  Statements(whole) \in Seq(Windowed)
<1>1. kind.adapter \in {"trino", "duckdb"}
  BY KindAssumption DEF TypeInv, TypeOK
<1>2. Statements(whole) \in {<<"drop", "create">>, <<"replace">>, <<"insert">>}
  BY <1>1 DEF Statements
<1>3. /\ <<"drop", "create">> \in Seq(Windowed) /\ <<"replace">> \in Seq(Windowed)
      /\ <<"insert">> \in Seq(Windowed)
  BY DEF Windowed
<1> QED
  BY <1>2, <1>3

LEMMA BoundSound ==
    ASSUME TypeInv, KeptCore, NEW l \in Labels
    PROVE  Sound(Catalog(l), Bound(l))
<1>1. mark[l].value \in Nat /\ Bound(l) \in 0..mark[l].value
  BY BoundIs, MaxRowsIs DEF TypeInv, TypeOK, Mark
<1>2. Sound(Catalog(l), mark[l].value)
  BY DEF KeptCore, MarksInv
<1> QED
  BY <1>1, <1>2, SoundLess, CatalogsAre

-----------------------------------------------------------------------------
LEMMA KeptStart ==
    ASSUME TypeInv, KeptCore, NEW x \in Slots, NEW l \in Labels, NEW forced \in BOOLEAN,
           Start(x, l, forced)
    PROVE  KeptCore'
<1> DEFINE full == ~table[Catalog(l)].there \/ Current(l).version = 0
<1>0. TypeOK /\ runs' \in Nat
  <2>1. TypeInv'
    BY TypeStart
  <2> QED
    BY <2>1 DEF TypeInv, TypeOK
<1>1. ASSUME NEW f \in BOOLEAN
      PROVE  LET w == Working(x, l, f)
             IN  /\ w \in Run /\ w.at = "work" /\ w.label = l /\ w.from = Bound(l)
                 /\ kind.strategy = "window" => w.todo \in Seq(Windowed)
  <2>1. Whole(f, l) \in BOOLEAN
    BY DEF Whole
  <2>2. kind.strategy = "window" => Statements(Whole(f, l)) \in Seq(Windowed)
    BY <2>1, WindowStatements
  <2> QED
    BY <1>0, <2>2, WorkingType
<1>2. \/ run' = [run EXCEPT ![x] = Working(x, l, full)]
      \/ \E o \in Adoptable(l) :
            run' = [run EXCEPT ![x] = [Working(x, l, TRUE) EXCEPT
                      !.at = "adopt", !.reuse = o, !.snap = record[o].snap,
                      !.stamp = record[o].at]]
  BY DEF Start
<1>3. cut = {} => l \in Shared
  BY DEF Start
<1>4. RunsNext
  <2>1. CASE run' = [run EXCEPT ![x] = Working(x, l, full)]
    <3> DEFINE w == Working(x, l, full)
    <3>1. /\ w \in Run /\ w.at = "work" /\ w.label = l /\ w.from = Bound(l)
          /\ kind.strategy = "window" => w.todo \in Seq(Windowed)
      <4>1. full \in BOOLEAN
        OBVIOUS
      <4> HIDE DEF full
      <4> QED
        BY <1>1, <4>1
    <3>2. run' = [run EXCEPT ![x] = w]
      BY <2>1
    <3> HIDE DEF w
    <3>3. RunFine(w)
      BY <1>3, <3>1, BoundSound DEF RunFine
    <3> QED
      BY <3>1, <3>2, <3>3, RunsPut
  <2>2. ASSUME NEW o \in Adoptable(l),
               run' = [run EXCEPT ![x] = [Working(x, l, TRUE) EXCEPT
                      !.at = "adopt", !.reuse = o, !.snap = record[o].snap,
                      !.stamp = record[o].at]]
        PROVE  RunsNext
    <3> DEFINE w == Working(x, l, TRUE)
               r == [w EXCEPT !.at = "adopt", !.reuse = o, !.snap = record[o].snap,
                             !.stamp = record[o].at]
    <3>1. /\ w \in Run /\ w.at = "work" /\ w.label = l /\ w.from = Bound(l)
          /\ kind.strategy = "window" => w.todo \in Seq(Windowed)
      BY <1>1
    <3>2. o \in Labels /\ record[o].snap \in Nat /\ record[o].at \in Nat /\ record[o].snap # 0
      BY <1>0 DEF Adoptable, TypeOK, Record
    <3>4. run' = [run EXCEPT ![x] = r]
      BY <2>2
    <3> HIDE DEF w
    <3>3. /\ r \in Run /\ r.at = "adopt" /\ r.snap # 0 /\ r.label = l /\ r.from = Bound(l)
          /\ r.todo = w.todo
      BY <3>1, <3>2 DEF Run
    <3> HIDE DEF r
    <3>5. RunFine(r)
      BY <1>3, <3>1, <3>3, BoundSound DEF RunFine
    <3> QED
      BY <3>3, <3>4, <3>5, RunsPut
  <2> QED
    BY <1>2, <2>1, <2>2
<1>5. Carries
  BY StaysCarries DEF Start, KeptCore
<1>6. MarksNext /\ LateNext /\ kind' = kind
  BY MarksStay, LateStays DEF Start, state
<1> QED
  BY <1>4, <1>5, <1>6, CoreNext

\* The statement a run is at, and its bound.
LEMMA DoesFine ==
    ASSUME TypeInv, KeptCore, NEW x \in Slots, Executing(x)
    PROVE  /\ Sound(Catalog(run[x].label), run[x].from)
           /\ kind.strategy = "window" => Does(x) \in Windowed
<1>1. run[x].at = "work" /\ RunFine(run[x]) /\ run[x].todo # <<>>
  BY RunIsFine, DoesIs DEF Executing
<1>2. run[x].todo \in Seq(Windowed) => Head(run[x].todo) \in Windowed
  BY <1>1
<1> QED
  BY <1>1, <1>2 DEF RunFine, Does
LEMMA AttemptCarries ==
    ASSUME TypeInv, KeptCore, NEW x \in Slots, Executing(x),
           \/ Apply(Does(x), Catalog(run[x].label), run[x].from)
           \/ UNCHANGED tables,
           UNCHANGED <<kind, source, cut>>
    PROVE  Carries
<1>1. CASE Apply(Does(x), Catalog(run[x].label), run[x].from)
  BY <1>1, DoesFine, DoesIs, ApplyCarries DEF KeptCore
<1>2. CASE UNCHANGED tables
  BY <1>2, StaysCarries DEF KeptCore
<1> QED
  BY <1>1, <1>2

LEMMA KeptExecute ==
    ASSUME TypeInv, KeptCore, NEW x \in Slots, Execute(x)
    PROVE  KeptCore'
<1>1. Executing(x) /\ run[x].at = "work" /\ run[x].todo # <<>>
      /\ run[x] \in Run /\ RunFine(run[x])
  BY DoesIs, RunIsFine DEF Execute, Executing
<1>2. RunFine(Done(x)) /\ Done(x) \in Run
  <2>1. Done(x) \in Run
    BY <1>1, DoneIs
  <2>2. CASE Len(run[x].todo) = 1
    <3>1. Done(x) = [run[x] EXCEPT !.at = "built", !.todo = <<>>]
      BY <2>2 DEF Done
    <3>2. Done(x).at = "built" /\ Done(x).todo = <<>> /\ Done(x).label = run[x].label
      BY <1>1, <3>1 DEF Run
    <3> QED
      BY <1>1, <2>1, <3>2, FineGoes
  <2>3. CASE Len(run[x].todo) # 1
    <3>1. Done(x) = [run[x] EXCEPT !.todo = Tail(run[x].todo)]
      BY <1>1, <2>3 DEF Done, Run
    <3>2. /\ Done(x).at = "work" /\ Done(x).todo = Tail(run[x].todo)
          /\ Done(x).label = run[x].label /\ Done(x).from = run[x].from
      BY <1>1, <3>1 DEF Run
    <3>3. kind.strategy = "window" => Tail(run[x].todo) \in Seq(Windowed)
      BY <1>1 DEF RunFine
    <3> QED
      BY <1>1, <2>1, <3>2, <3>3, FineWorks
  <2> QED
    BY <2>1, <2>2, <2>3
<1>3. RunsNext
  BY <1>2, RunsPut DEF Execute
<1>4. Carries
  BY <1>1, AttemptCarries DEF Execute
<1>5. MarksNext /\ LateNext /\ kind' = kind
  BY MarksStay, LateStays DEF Execute, state
<1> QED
  BY <1>3, <1>4, <1>5, CoreNext

LEMMA KeptFail ==
    ASSUME TypeInv, KeptCore, NEW x \in Slots, NEW applied \in BOOLEAN, NEW again \in BOOLEAN,
           Fail(x, applied, again)
    PROVE  KeptCore'
<1>1. Executing(x) /\ run[x].at = "work" /\ run[x] \in Run /\ RunFine(run[x])
  BY RunIsFine DEF Fail, Executing
<1>2. RunsNext
  <2>1. CASE again
    <3>1. run[x].attempt < MaxAttempts /\ run' = [run EXCEPT ![x] = Again(x)]
      BY <2>1 DEF Fail, Again
    <3>2. Again(x) \in Run /\ Again(x).at = "work"
      BY <1>1, <3>1, AgainIs
    <3>3. /\ Again(x).label = run[x].label /\ Again(x).from = run[x].from
          /\ Again(x).todo \in {Statements(TRUE), Statements(FALSE)}
      BY <1>1 DEF Again, Run
    <3>4. kind.strategy = "window" => Again(x).todo \in Seq(Windowed)
      BY <3>3, WindowStatements
    <3>5. RunFine(Again(x))
      BY <1>1, <3>2, <3>3, <3>4, FineWorks
    <3> QED
      BY <3>1, <3>2, <3>5, RunsPut
  <2>2. CASE ~again
    BY <2>2, RunsIdle DEF Fail
  <2> QED
    BY <2>1, <2>2
<1>3. Carries
  <2>1. /\ \/ Apply(Does(x), Catalog(run[x].label), run[x].from)
           \/ UNCHANGED tables
        /\ UNCHANGED <<kind, source, cut>>
    BY DEF Fail
  <2> QED
    BY <1>1, <2>1, AttemptCarries
<1>4. MarksNext /\ LateNext /\ kind' = kind
  BY MarksStay, LateStays DEF Fail, state
<1> QED
  BY <1>2, <1>3, <1>4, CoreNext

LEMMA KeptRefuse == ASSUME TypeInv, KeptCore, NEW x \in Slots, Refuse(x) PROVE KeptCore'
<1>1. RunsNext /\ MarksNext /\ LateNext /\ Carries /\ kind' = kind
  BY RunsIdle, MarksStay, LateStays, StaysCarries DEF Refuse, state, KeptCore
<1> QED
  BY <1>1, CoreNext

LEMMA KeptStop == ASSUME TypeInv, KeptCore, NEW x \in Slots, Stop(x) PROVE KeptCore'
<1>1. RunsNext /\ MarksNext /\ LateNext /\ Carries /\ kind' = kind
  BY RunsIdle, MarksStay, LateStays, StaysCarries DEF Stop, state, KeptCore
<1> QED
  BY <1>1, CoreNext

LEMMA KeptEnd == ASSUME TypeInv, KeptCore, NEW x \in Slots, End(x) PROVE KeptCore'
<1>1. RunsNext /\ MarksNext /\ LateNext /\ Carries /\ kind' = kind
  BY RunsIdle, MarksStay, LateStays, StaysCarries DEF End, KeptCore
<1> QED
  BY <1>1, CoreNext

LEMMA KeptAbandon == ASSUME TypeInv, KeptCore, NEW x \in Slots, Abandon(x) PROVE KeptCore'
<1> DEFINE u == [does |-> Does(x), catalog |-> Catalog(run[x].label), from |-> run[x].from]
<1>1. u \in Late /\ LateFine(u)
  BY DoesIs, DoesFine DEF Abandon, Late, LateFine
<1>2. LateNext
  <2>1. late' = late \cup {u}
    BY DEF Abandon
  <2> HIDE DEF u
  <2> QED
    BY <1>1, <2>1, LateIs DEF LateNext, KeptCore, LateInv
<1>3. RunsNext /\ MarksNext /\ Carries /\ kind' = kind
  BY RunsIdle, MarksStay, StaysCarries DEF Abandon, state, KeptCore
<1> QED
  BY <1>2, <1>3, CoreNext

LEMMA KeptExecuteLate == ASSUME TypeInv, KeptCore, NEW s \in late, ExecuteLate(s) PROVE KeptCore'
<1>1. s.does \in Statement /\ s.catalog \in Catalogs /\ s.from \in 0..MaxRows /\ LateFine(s)
  BY LateIs DEF Late, KeptCore, LateInv
<1>2. Carries
  BY <1>1, ApplyCarries DEF ExecuteLate, LateFine, KeptCore
<1>3. RunsNext /\ MarksNext /\ LateNext /\ kind' = kind
  BY RunsStay, MarksStay, LateStays DEF ExecuteLate, state
<1> QED
  BY <1>2, <1>3, CoreNext

LEMMA KeptJoin == ASSUME TypeInv, KeptCore, NEW x \in Slots, Join(x) PROVE KeptCore'
<1> DEFINE c == Catalog(run[x].label)
           i == Identity(c)
           h == Highest(c)
           a == IF kind.strategy = "window" /\ Highest(c) > 0 THEN "mark" ELSE "end"
           r == [run[x] EXCEPT !.snap = i, !.seen = h, !.at = a]
<1>1. /\ run[x] \in Run /\ run[x].at = "built" /\ run[x].todo = <<>> /\ c \in Catalogs
      /\ RunFine(run[x])
  BY RunFields, RunIsFine DEF TypeInv, Join
<1>2. i \in Nat /\ h \in 0..MaxRows /\ a \in {"mark", "end"}
  <2> HIDE DEF c
  <2> QED
    BY <1>1, IdentityIs, HighestIs DEF TypeInv
<1>3. run' = [run EXCEPT ![x] = r]
  <2>1. run \in [Slots -> Run]
    BY TypeParts DEF RunsType
  <2>2. run' = [run EXCEPT ![x].snap = i, ![x].seen = h, ![x].at = a]
    BY DEF Join
  <2> HIDE DEF i, h, a
  <2> QED
    BY <2>1, <2>2
<1>4. r \in Run /\ r.at = a /\ r.todo = <<>> /\ r.seen = h /\ r.label = run[x].label
  <2> HIDE DEF c, i, h, a
  <2> QED
    BY <1>1, <1>2 DEF Run
<1>5. a = "mark" => Sound(c, h)
  <2>1. cut # {} \/ c = "main"
    BY <1>1, CatalogsAre DEF RunFine
  <2> HIDE DEF c
  <2> QED
    BY <1>1, <2>1, SoundHighest DEF KeptCore
<1>6. RunFine(r)
  <2>1. <<>> \in Seq(Windowed)
    OBVIOUS
  <2>2. cut = {} => r.label \in Shared
    BY <1>1, <1>4 DEF RunFine
  <2>3. Catalog(r.label) = c
    BY <1>4
  <2> HIDE DEF r, a, c, h
  <2> QED
    BY <1>2, <1>4, <1>5, <2>1, <2>2, <2>3 DEF RunFine
<1>7. RunsNext
  <2> HIDE DEF r
  <2> QED
    BY <1>3, <1>4, <1>6, RunsPut
<1>8. MarksNext /\ LateNext /\ Carries /\ kind' = kind
  BY MarksStay, LateStays, StaysCarries DEF Join, state, KeptCore
<1> QED
  BY <1>7, <1>8, CoreNext

LEMMA KeptDrain == ASSUME TypeInv, KeptCore, NEW x \in Slots, Drain(x) PROVE KeptCore'
<1> DEFINE i == Identity(Catalog(run[x].label))
           r == [run[x] EXCEPT !.at = "end", !.snap = i]
<1>1. run[x] \in Run /\ run[x].at = "built" /\ run[x].todo = <<>> /\ i \in Nat /\ RunFine(run[x])
  BY RunFields, RunIsFine, IdentityIs DEF TypeInv, Drain
<1>2. run' = [run EXCEPT ![x] = r]
  BY TypeParts DEF RunsType, Drain
<1>3. r \in Run /\ r.at = "end" /\ r.todo = <<>> /\ r.label = run[x].label
  <2> HIDE DEF i
  <2> QED
    BY <1>1 DEF Run
<1>4. RunsNext
  <2> HIDE DEF r
  <2> QED
    BY <1>1, <1>2, <1>3, FineGoes, RunsPut
<1>5. MarksNext /\ LateNext /\ Carries /\ kind' = kind
  BY MarksStay, LateStays, StaysCarries DEF Drain, state, KeptCore
<1> QED
  BY <1>4, <1>5, CoreNext

LEMMA LaterNext ==
    ASSUME TypeInv, KeptCore, NEW l \in Labels, NEW n \in Nat, NEW b \in Nat,
           Sound(Catalog(l), n), mark' = Later(l, n, b)
    PROVE  MarksNext
<1>1. mark \in [Labels -> Mark] /\ \A o \in Labels : mark[o].value \in Nat
  BY MaxRowsIs, TypeParts DEF StateType, Mark
<1>2. mark' = [mark EXCEPT ![l] = [value |-> n, by |-> b]] \/ mark' = mark
  BY DEF Later
<1>3. \A o \in Labels : mark'[o].value = mark[o].value \/ (o = l /\ mark'[o].value = n)
  BY <1>1, <1>2
<1> QED
  BY <1>1, <1>3 DEF MarksNext, KeptCore, MarksInv

LEMMA KeptSetMark == ASSUME TypeInv, KeptCore, NEW x \in Slots, SetMark(x) PROVE KeptCore'
<1> DEFINE r == [run[x] EXCEPT !.at = "end"]
<1>1. /\ run[x] \in Run /\ run[x].at = "mark" /\ run[x].todo = <<>> /\ RunFine(run[x])
      /\ run[x].label \in Labels /\ run[x].seen \in Nat /\ run[x].by \in Nat
  BY RunFields, RunIsFine, MaxRowsIs DEF TypeInv, SetMark
<1>2. run' = [run EXCEPT ![x] = r]
  BY TypeParts DEF RunsType, SetMark
<1>3. r \in Run /\ r.at = "end" /\ r.todo = <<>> /\ r.label = run[x].label
  BY <1>1 DEF Run
<1>4. RunsNext
  <2> HIDE DEF r
  <2> QED
    BY <1>1, <1>2, <1>3, FineGoes, RunsPut
<1>5. MarksNext
  <2>1. Sound(Catalog(run[x].label), run[x].seen)
    BY <1>1 DEF RunFine
  <2> QED
    BY <1>1, <2>1, LaterNext DEF SetMark
<1>6. LateNext /\ Carries /\ kind' = kind
  BY LateStays, StaysCarries DEF SetMark, KeptCore
<1> QED
  BY <1>4, <1>5, <1>6, CoreNext

LEMMA KeptFinish == ASSUME TypeInv, KeptCore, NEW x \in Slots, Finish(x) PROVE KeptCore'
<1>1. run[x] \in Run /\ RunFine(run[x]) /\ run[x].at = "end"
  BY RunIsFine DEF Finish
<1>2. PICK r \in Run : /\ run' = [run EXCEPT ![x] = r] /\ r.at = "end" /\ r.todo = <<>>
                       /\ r.label = run[x].label
  BY FinishIs DEF Kept4
<1>3. RunsNext
  BY <1>1, <1>2, FineGoes, RunsPut
<1>4. MarksNext /\ LateNext /\ Carries /\ kind' = kind
  BY MarksStay, LateStays, StaysCarries DEF Finish, KeptCore
<1> QED
  BY <1>3, <1>4, CoreNext

LEMMA KeptAdopt == ASSUME TypeInv, KeptCore, NEW x \in Slots, Adopt(x) PROVE KeptCore'
<1> DEFINE c == Catalog(run[x].label)
           u == [run[x] EXCEPT !.at = "work", !.snap = 0, !.stamp = 0]
           s == [run[x] EXCEPT !.at = "copy", !.todo = <<>>]
<1>1. /\ run[x] \in Run /\ run[x].at = "adopt" /\ RunFine(run[x]) /\ run[x].snap # 0
      /\ c \in Catalogs
  BY RunIsFine, CatalogsAre DEF Adopt, RunFine
<1>2. \/ run' = [run EXCEPT ![x] = u]
      \/ /\ run' = [run EXCEPT ![x] = s]
         /\ Identity(c) = run[x].snap /\ kind.strategy = "window"
      \/ run' = [run EXCEPT ![x] = Idle]
  BY DEF Adopt
<1>3. u \in Run /\ RunFine(u)
  <2>1. /\ u \in Run /\ u.at = "work" /\ u.label = run[x].label /\ u.from = run[x].from
        /\ u.todo = run[x].todo
    BY <1>1 DEF Run
  <2> HIDE DEF u
  <2> QED
    BY <1>1, <2>1 DEF RunFine
<1>4. ASSUME Identity(c) = run[x].snap, kind.strategy = "window"
      PROVE  s \in Run /\ RunFine(s)
  <2>1. /\ s \in Run /\ s.at = "copy" /\ s.label = run[x].label /\ s.snap = run[x].snap
        /\ s.todo = <<>>
    BY <1>1, TypeGoes DEF Run
  <2>2. table[c].snap = run[x].snap /\ table[c].there /\ table[c].snap <= snaps
    BY <1>1, <1>4, IdentityIs DEF TypeInv, TypeOK
  <2>3. \A d \in Catalogs : table[d].snap = run[x].snap => table[d] = table[c]
    BY <1>1, <2>2, CatalogsAre DEF KeptCore, WarehouseInv, SameInv
  <2>4. \A d \in Catalogs : table[d].snap = run[x].snap => table[d].there /\ Within(d, c)
    BY <2>2, <2>3 DEF Within, Present
  <2>5. Copies(s)
    BY <1>4, <2>1, <2>2, <2>4 DEF Copies
  <2>6. <<>> \in Seq(Windowed)
    OBVIOUS
  <2> HIDE DEF s
  <2> QED
    BY <1>1, <2>1, <2>5, <2>6 DEF RunFine
<1>5. RunsNext
  <2> HIDE DEF u, s, c
  <2> QED
    BY <1>2, <1>3, <1>4, RunsPut, RunsIdle
<1>6. MarksNext /\ LateNext /\ Carries /\ kind' = kind
  BY MarksStay, LateStays, StaysCarries DEF Adopt, KeptCore
<1> QED
  BY <1>5, <1>6, CoreNext

\* The watermark copied is that of the output adopted.
LEMMA KeptCopyMark ==
    ASSUME TypeInv, KeptCore, NEW x \in Slots, CopyMark(x),
           table[Catalog(run[x].reuse)].snap = run[x].snap
    PROVE  KeptCore'
<1> DEFINE c == Catalog(run[x].label)
           d == Catalog(run[x].reuse)
           n == mark[run[x].reuse].value
<1>1. /\ run[x] \in Run /\ run[x].at = "copy" /\ RunFine(run[x])
      /\ run[x].label \in Labels /\ run[x].reuse \in Labels /\ run[x].by \in Nat
      /\ c \in Catalogs /\ d \in Catalogs
  BY RunFields, RunIsFine, CatalogsAre DEF TypeInv, CopyMark
<1>2. n \in Nat /\ Sound(d, n)
  BY <1>1, MaxRowsIs, TypeParts DEF StateType, Mark, KeptCore, MarksInv
<1>3. kind.strategy = "window" /\ table[d].there /\ Within(d, c)
  BY <1>1 DEF RunFine, Copies
<1>4. Sound(c, n)
  <2> HIDE DEF n
  <2>1. n <= source /\ 1..n \subseteq Present(d)
    BY <1>2, <1>3 DEF Sound, Kept
  <2>2. Kept(c, n)
    BY <1>3, <2>1 DEF Kept, Within
  <2>3. cut = {} => c = "main"
    BY <1>1, CatalogsAre DEF RunFine
  <2>4. c = "main" /\ table["main"].snap \in cut => Kept("candidate", n)
    <3>1. CASE d = "main"
      BY <1>2, <3>1 DEF Sound
    <3>2. CASE d = "candidate"
      BY <1>2, <3>2 DEF Sound
    <3> QED
      BY <1>1, <3>1, <3>2, CatalogsAre
  <2> HIDE DEF c
  <2> QED
    BY <1>3, <2>2, <2>3, <2>4 DEF Sound
<1>5. mark' = mark \/ mark' = Later(run[x].label, n, run[x].by)
  BY DEF CopyMark
<1>6. MarksNext
  <2> HIDE DEF n
  <2> QED
    BY <1>1, <1>2, <1>4, <1>5, LaterNext, MarksStay
<1>7. RunsNext /\ LateNext /\ Carries /\ kind' = kind
  BY RunsIdle, LateStays, StaysCarries DEF CopyMark, KeptCore
<1> QED
  BY <1>6, <1>7, CoreNext

LEMMA KeptWorld ==
    ASSUME TypeInv, KeptCore, Arrive \/ CutBranch \/ Publish
    PROVE  KeptCore'
<1>1. Carries
  BY ArriveCarries, CutCarries, PublishCarries DEF KeptCore
<1>2. RunsNext /\ MarksNext /\ LateNext /\ kind' = kind
  BY RunsStay, MarksStay, LateStays DEF Arrive, CutBranch, Publish, state
<1> QED
  BY <1>1, <1>2, CoreNext

-----------------------------------------------------------------------------
LEMMA KeptInit == Init => KeptInv
<1> SUFFICES ASSUME Init PROVE KeptInv
  OBVIOUS
<1>0. TypeInv /\ source = 1 /\ \A c \in Catalogs : table[c] = Absent
  BY TypeInit DEF Init
<1>1. \A c \in Catalogs : Present(c) = {}
  BY <1>0 DEF Present, Absent
<1>2. WarehouseInv
  <2>1. 1..0 = {} /\ 0 \in 0..source
    BY <1>0
  <2>2. \A c \in Catalogs : Shape(c)
    BY <1>1, <2>1 DEF Shape
  <2>3. SameInv
    BY <1>0, CatalogsAre DEF SameInv
  <2>4. CutInv
    BY DEF Init, CutInv
  <2> QED
    BY <2>2, <2>3, <2>4 DEF WarehouseInv, ShapeInv
<1>3. MarksInv
  BY <1>0, SoundZero, CatalogsAre DEF Init, MarksInv, NoMark
<1>4. RunsInv /\ LateInv
  BY IdleFine DEF Init, RunsInv, LateInv
<1> QED
  BY <1>2, <1>3, <1>4 DEF KeptInv

LEMMA SlipsStay == [Next]_vars => slips \subseteq slips'
  BY ZenonT(40)
     DEF Next, RunStep, FaultStep, WorldStep, Start, Execute, Refuse, Join, SetMark, Finish, End,
         Adopt, CopyMark, Fail, Abandon, Drain, Stop, ExecuteLate, Arrive, CutBranch, Publish, Rollback,
     Slip, vars
LEMMA SlipsGrow == [Next]_vars /\ SetBack => SetBack'
  BY SlipsStay DEF SetBack, Happened

LEMMA KeptNext == TypeInv /\ KeptInv /\ [Next]_vars => KeptInv'
<1> SUFFICES ASSUME TypeInv, KeptInv, [Next]_vars, ~SetBack' PROVE KeptCore'
  BY DEF KeptInv, KeptCore
<1>1. KeptCore
  BY SlipsGrow DEF KeptInv, KeptCore
<1>2. CASE UNCHANGED vars
  <2>1. UNCHANGED <<source, table, kind, cut, mark, run, late>>
    BY <1>2 DEF vars, tables, state
  <2>2. WarehouseInv'
    BY <1>1, <2>1
       DEF KeptCore, WarehouseInv, ShapeInv, Shape, SameInv, CutInv, Within, Present, Kept
  <2>3. MarksInv'
    BY <1>1, <2>1 DEF KeptCore, MarksInv, Sound, Kept, Present
  <2>4. RunsInv'
    <3>1. ASSUME NEW r, RunFine(r) PROVE RunFine(r)'
      <4>1. ASSUME NEW c, NEW n, Sound(c, n) PROVE Sound(c, n)'
        BY <2>1, <4>1 DEF Sound, Kept, Present
      <4>2. Copies(r) => Copies(r)'
        <5>1. \A c, d : Within(c, d) => Within(c, d)'
          BY <2>1 DEF Within, Present
        <5>2. UNCHANGED <<kind, table, snaps>>
          BY <1>2, <2>1 DEF vars, tables
        <5> QED
          BY <5>1, <5>2 DEF Copies
      <4> QED
        BY <2>1, <3>1, <4>1, <4>2 DEF RunFine
    <3>2. ASSUME NEW x \in Slots PROVE RunFine(run[x])'
      <4>1. PICK r : r = run[x]
        OBVIOUS
      <4>2. RunFine(r)'
        BY <1>1, <3>1, <4>1 DEF KeptCore, RunsInv
      <4> QED
        BY <2>1, <4>1, <4>2
    <3> QED
      BY <3>2 DEF RunsInv
  <2>5. LateInv'
    BY <1>1, <2>1 DEF KeptCore, LateInv, LateFine, Sound, Kept, Present, Shape, Within
  <2> QED
    BY <2>2, <2>3, <2>4, <2>5 DEF KeptCore
<1>3. CASE RunStep
  <2>1. \A x \in Slots : CopyMark(x) => table[Catalog(run[x].reuse)].snap = run[x].snap
    BY DEF CopyMark, Slip, SetBack, Happened
  <2> QED
    BY <1>1, <1>3, <2>1, KeptStart, KeptExecute, KeptRefuse, KeptJoin, KeptSetMark,
       KeptFinish, KeptEnd, KeptAdopt, KeptCopyMark DEF RunStep
<1>4. CASE FaultStep
  BY <1>1, <1>4, KeptFail, KeptAbandon, KeptDrain, KeptStop, KeptExecuteLate DEF FaultStep
<1>5. CASE WorldStep
  <2>1. ~Rollback
    BY DEF Rollback, Slip, SetBack, Happened
  <2> QED
    BY <1>1, <1>5, <2>1, KeptWorld DEF WorldStep
<1> QED
  BY <1>2, <1>3, <1>4, <1>5 DEF Next

LEMMA KeptAlways == Spec => []KeptInv
<1>1. Init => KeptInv
  BY KeptInit
<1>2. TypeInv /\ KeptInv /\ [Next]_vars => KeptInv'
  BY KeptNext
<1> QED
  BY <1>1, <1>2, TypeAlways, PTL DEF Spec

\* No row is passed over, as long as no reference is set back under its
\* watermark and no watermark is copied from a table that had moved on: every
\* table holds the rows of its source up to some row, with all those up to the
\* watermark of each of its labels.
THEOREM RowsAreKeptHolds == Spec => []RowsAreKept
<1>1. TypeInv /\ KeptInv => RowsAreKept
  <2> SUFFICES ASSUME TypeInv, KeptInv, ~SetBack, NEW l \in Labels, table[Catalog(l)].there
               PROVE  /\ IsPrefix(Present(Catalog(l)))
                      /\ 1..mark[l].value \subseteq Present(Catalog(l))
    BY DEF RowsAreKept, SetBack
  <2>1. WarehouseInv /\ MarksInv /\ Catalog(l) \in Catalogs
    BY CatalogsAre DEF KeptInv
  <2>2. PICK k \in 0..source : Present(Catalog(l)) = 1..k
    BY <2>1, PresentIs DEF WarehouseInv
  <2>3. k \in 0..MaxRows
    BY MaxRowsIs DEF TypeInv, TypeOK
  <2>4. 1..mark[l].value \subseteq Present(Catalog(l))
    BY <2>1 DEF MarksInv, Sound, Kept
  <2> QED
    BY <2>2, <2>3, <2>4 DEF IsPrefix
<1> QED
  BY <1>1, TypeAlways, KeptAlways, PTL

-----------------------------------------------------------------------------
(***************************************************************************)
(* What each step makes of the run that takes it.                          *)
(***************************************************************************)
\* A step of a slot leaves the others alone.
LEMMA PutIs ==
    ASSUME TypeInv, NEW x \in Slots, NEW r, run' = [run EXCEPT ![x] = r]
    PROVE  run'[x] = r /\ \A y \in Slots \ {x} : run'[y] = run[y]
  BY TypeParts DEF RunsType

\* A run of label l that starts.
Works(r, l) ==
    /\ r.at = "work" /\ r.stamp = 0
    /\ \E full \in BOOLEAN : /\ r.todo = Statements(Whole(full, l))
                             /\ full \/ table[Catalog(l)].there
Adopts(r, l) ==
    /\ r.at = "adopt" /\ r.todo = Statements(TRUE)
    /\ r.reuse \in Adoptable(l) /\ r.snap = record[r.reuse].snap
    /\ r.stamp = record[r.reuse].at
Started(r, l) ==
    /\ r.label = l /\ r.by = runs' /\ r.version = source /\ r.from = Bound(l)
    /\ Works(r, l) \/ Adopts(r, l)
LEMMA StartIs ==
    ASSUME TypeInv, NEW x \in Slots, NEW l \in Labels, NEW forced \in BOOLEAN,
           Start(x, l, forced)
    PROVE  \E r \in Run : run' = [run EXCEPT ![x] = r] /\ Started(r, l)
<1> DEFINE full == ~table[Catalog(l)].there \/ Current(l).version = 0
<1>0. TypeOK /\ runs' \in Nat
  <2>1. TypeInv'
    BY TypeStart
  <2> QED
    BY <2>1 DEF TypeInv, TypeOK
<1>1. ASSUME NEW f \in BOOLEAN
      PROVE  LET w == Working(x, l, f)
             IN  /\ w \in Run /\ w.at = "work" /\ w.label = l /\ w.by = runs'
                 /\ w.version = source /\ w.from = Bound(l)
                 /\ w.todo = Statements(Whole(f, l)) /\ w.stamp = 0
  <2>1. Whole(f, l) \in BOOLEAN
    BY DEF Whole
  <2>2. Statements(Whole(f, l)) \in Seq(Statement)
    BY <1>0, <2>1, StatementsAre
  <2> DEFINE b == runs'
             t == Statements(Whole(f, l))
             n == Bound(l)
             w == Given(l, b, source, t, n)
  <2>3. source \in 0..MaxRows /\ n \in 0..MaxRows
    BY <1>0, BoundIs, MaxRowsIs DEF TypeOK
  <2>4. /\ w \in Run /\ w.at = "work" /\ w.label = l /\ w.by = b
        /\ w.version = source /\ w.from = n /\ w.todo = t /\ w.stamp = 0
    <3> HIDE DEF b, t, n, w
    <3>1. b \in Nat /\ t \in Seq(Statement) /\ n \in 0..MaxRows
      BY <1>0, <2>2, <2>3 DEF b, t
    <3> QED
      BY <2>3, <3>1, RunGiven DEF w
  <2>5. Working(x, l, f) = w
    BY DEF Working, Given
  <2> HIDE DEF w
  <2> QED
    BY <2>4, <2>5
<1>2. \/ run' = [run EXCEPT ![x] = Working(x, l, full)]
      \/ \E o \in Adoptable(l) :
            run' = [run EXCEPT ![x] = [Working(x, l, TRUE) EXCEPT
                      !.at = "adopt", !.reuse = o, !.snap = record[o].snap,
                      !.stamp = record[o].at]]
  BY DEF Start
<1>3. CASE run' = [run EXCEPT ![x] = Working(x, l, full)]
  <2> DEFINE w == Working(x, l, full)
  <2>1. full \in BOOLEAN /\ (full \/ table[Catalog(l)].there)
    OBVIOUS
  <2>2. /\ w \in Run /\ w.at = "work" /\ w.label = l /\ w.by = runs'
        /\ w.version = source /\ w.from = Bound(l) /\ w.todo = Statements(Whole(full, l))
        /\ w.stamp = 0
    <3> HIDE DEF full
    <3> QED
      BY <1>1, <2>1
  <2>3. run' = [run EXCEPT ![x] = w]
    BY <1>3
  <2>4. Works(w, l)
    BY <2>1, <2>2 DEF Works
  <2> HIDE DEF w, full
  <2> QED
    BY <2>2, <2>3, <2>4 DEF Started
<1>4. ASSUME NEW o \in Adoptable(l),
             run' = [run EXCEPT ![x] = [Working(x, l, TRUE) EXCEPT
                      !.at = "adopt", !.reuse = o, !.snap = record[o].snap,
                      !.stamp = record[o].at]]
      PROVE  \E r \in Run : run' = [run EXCEPT ![x] = r] /\ Started(r, l)
  <2> DEFINE w == Working(x, l, TRUE)
             r == [w EXCEPT !.at = "adopt", !.reuse = o, !.snap = record[o].snap,
                             !.stamp = record[o].at]
  <2>1. /\ w \in Run /\ w.at = "work" /\ w.label = l /\ w.by = runs'
        /\ w.version = source /\ w.from = Bound(l) /\ w.todo = Statements(TRUE)
    BY <1>1 DEF Whole
  <2>2. o \in Labels /\ record[o].snap \in Nat /\ record[o].at \in Nat
    BY <1>0 DEF Adoptable, TypeOK, Record
  <2>3. run' = [run EXCEPT ![x] = r]
    BY <1>4
  <2> HIDE DEF w
  <2>4. /\ r \in Run /\ r.at = "adopt" /\ r.snap = record[o].snap /\ r.reuse = o
        /\ r.stamp = record[o].at
        /\ r.label = w.label /\ r.by = w.by /\ r.version = w.version /\ r.from = w.from
        /\ r.todo = w.todo
    BY <2>1, <2>2 DEF Run
  <2> HIDE DEF r
  <2> QED
    BY <2>1, <2>3, <2>4 DEF Started, Adopts
<1> HIDE DEF full
<1> QED
  BY <1>2, <1>3, <1>4

LEMMA DoneCases ==
    ASSUME TypeInv, NEW x \in Slots, Executing(x)
    PROVE  /\ Done(x) \in Run /\ Kept4(Done(x), run[x]) /\ Done(x).stamp = run[x].stamp
           /\ \/ /\ Len(run[x].todo) = 1 /\ Done(x).at = "built" /\ Done(x).todo = <<>>
              \/ /\ Len(run[x].todo) # 1 /\ Done(x).at = "work"
                 /\ Done(x).todo = Tail(run[x].todo)
<1>1. run[x] \in Run /\ run[x].at = "work" /\ Done(x) \in Run
  BY RunFields, DoneIs DEF TypeInv, Executing
<1>2. CASE Len(run[x].todo) = 1
  <2>1. Done(x) = [run[x] EXCEPT !.at = "built", !.todo = <<>>]
    BY <1>2 DEF Done
  <2> QED
    BY <1>1, <1>2, <2>1 DEF Run, Kept4
<1>3. CASE Len(run[x].todo) # 1
  <2>1. Done(x) = [run[x] EXCEPT !.todo = Tail(run[x].todo)]
    BY <1>1, <1>3 DEF Done, Run
  <2> QED
    BY <1>1, <1>3, <2>1 DEF Run, Kept4
<1> QED
  BY <1>2, <1>3

LEMMA AgainCases ==
    ASSUME TypeInv, NEW x \in Slots, NEW applied \in BOOLEAN, NEW again \in BOOLEAN,
           Fail(x, applied, again)
    PROVE  \E r \in Run :
             /\ run' = [run EXCEPT ![x] = r]
             /\ \/ /\ r.at = "work" /\ Kept4(r, run[x]) /\ r.stamp = run[x].stamp
                   /\ r.todo = IF Does(x) \in {"drop", "create", "replace"}
                               THEN Statements(TRUE) ELSE Statements(FALSE)
                \/ r = Idle
<1>1. run[x] \in Run /\ run[x].at = "work" /\ Executing(x)
  BY RunFields DEF TypeInv, Fail, Executing
<1>2. CASE again
  <2>1. run[x].attempt < MaxAttempts /\ run' = [run EXCEPT ![x] = Again(x)]
    BY <1>2 DEF Fail, Again
  <2>2. Again(x) \in Run /\ Again(x).at = "work"
    BY <1>1, <2>1, AgainIs
  <2>3. /\ Kept4(Again(x), run[x]) /\ Again(x).stamp = run[x].stamp
        /\ Again(x).todo = IF Does(x) \in {"drop", "create", "replace"}
                           THEN Statements(TRUE) ELSE Statements(FALSE)
    BY <1>1 DEF Again, Run, Kept4
  <2> QED
    BY <2>1, <2>2, <2>3
<1>3. CASE ~again
  BY <1>3, IdleFine DEF Fail
<1> QED
  BY <1>2, <1>3

LEMMA JoinIs ==
    ASSUME TypeInv, NEW x \in Slots, Join(x)
    PROVE  \E r \in Run :
             /\ run' = [run EXCEPT ![x] = r] /\ Kept4(r, run[x]) /\ r.todo = <<>>
             /\ r.stamp = run[x].stamp
             /\ r.snap = Identity(Catalog(run[x].label))
             /\ r.seen = Highest(Catalog(run[x].label))
             /\ r.at = IF kind.strategy = "window" /\ Highest(Catalog(run[x].label)) > 0
                       THEN "mark" ELSE "end"
<1> DEFINE c == Catalog(run[x].label)
           i == Identity(c)
           h == Highest(c)
           a == IF kind.strategy = "window" /\ Highest(c) > 0 THEN "mark" ELSE "end"
           r == [run[x] EXCEPT !.snap = i, !.seen = h, !.at = a]
<1>1. run[x] \in Run /\ run[x].at = "built" /\ run[x].todo = <<>> /\ c \in Catalogs
  BY RunFields DEF TypeInv, Join
<1>2. i \in Nat /\ h \in 0..MaxRows /\ a \in {"mark", "end"}
  <2> HIDE DEF c
  <2> QED
    BY <1>1, IdentityIs, HighestIs DEF TypeInv
<1>3. run' = [run EXCEPT ![x] = r]
  <2>1. run \in [Slots -> Run]
    BY TypeParts DEF RunsType
  <2>2. run' = [run EXCEPT ![x].snap = i, ![x].seen = h, ![x].at = a]
    BY DEF Join
  <2> HIDE DEF i, h, a
  <2> QED
    BY <2>1, <2>2
<1>4. /\ r \in Run /\ r.at = a /\ r.todo = <<>> /\ r.seen = h /\ r.snap = i
      /\ Kept4(r, run[x]) /\ r.stamp = run[x].stamp
  <2> HIDE DEF c, i, h, a
  <2> QED
    BY <1>1, <1>2 DEF Run, Kept4
<1> HIDE DEF r
<1> QED
  BY <1>3, <1>4

LEMMA DrainIs ==
    ASSUME TypeInv, NEW x \in Slots, Drain(x)
    PROVE  \E r \in Run :
             /\ run' = [run EXCEPT ![x] = r] /\ Kept4(r, run[x]) /\ r.todo = <<>>
             /\ r.stamp = run[x].stamp
             /\ r.snap = Identity(Catalog(run[x].label)) /\ r.at = "end"
<1> DEFINE i == Identity(Catalog(run[x].label))
           r == [run[x] EXCEPT !.at = "end", !.snap = i]
<1>1. run[x] \in Run /\ run[x].at = "built" /\ run[x].todo = <<>> /\ i \in Nat
  BY RunFields, IdentityIs DEF TypeInv, Drain
<1>2. run' = [run EXCEPT ![x] = r]
  BY TypeParts DEF RunsType, Drain
<1>3. r \in Run /\ r.at = "end" /\ r.todo = <<>> /\ r.snap = i /\ Kept4(r, run[x])
      /\ r.stamp = run[x].stamp
  <2> HIDE DEF i
  <2> QED
    BY <1>1 DEF Run, Kept4
<1> HIDE DEF r
<1> QED
  BY <1>2, <1>3

LEMMA SetMarkIs ==
    ASSUME TypeInv, NEW x \in Slots, SetMark(x)
    PROVE  \E r \in Run :
             /\ run' = [run EXCEPT ![x] = r] /\ Kept4(r, run[x]) /\ r.todo = <<>>
             /\ r.stamp = run[x].stamp
             /\ r.snap = run[x].snap /\ r.seen = run[x].seen /\ r.at = "end"
<1> DEFINE r == [run[x] EXCEPT !.at = "end"]
<1>1. run[x] \in Run /\ run[x].at = "mark" /\ run[x].todo = <<>>
  BY RunFields DEF TypeInv, SetMark
<1>2. run' = [run EXCEPT ![x] = r]
  BY TypeParts DEF RunsType, SetMark
<1>3. /\ r \in Run /\ r.at = "end" /\ r.todo = <<>> /\ r.snap = run[x].snap
      /\ r.seen = run[x].seen /\ Kept4(r, run[x]) /\ r.stamp = run[x].stamp
  BY <1>1 DEF Run, Kept4
<1> HIDE DEF r
<1> QED
  BY <1>2, <1>3

LEMMA AdoptIs ==
    ASSUME TypeInv, NEW x \in Slots, Adopt(x)
    PROVE  \E r \in Run :
             /\ run' = [run EXCEPT ![x] = r]
             /\ \/ /\ r.at = "work" /\ Kept4(r, run[x]) /\ r.todo = run[x].todo
                   /\ r.stamp = 0
                   /\ Identity(Catalog(run[x].label)) # run[x].snap
                \/ /\ r.at = "copy" /\ Kept4(r, run[x]) /\ r.todo = <<>>
                   /\ r.snap = run[x].snap /\ r.reuse = run[x].reuse
                   /\ r.stamp = run[x].stamp
                   /\ Identity(Catalog(run[x].label)) = run[x].snap
                   /\ kind.strategy = "window"
                \/ /\ r = Idle /\ kind.strategy # "window"
                   /\ Identity(Catalog(run[x].label)) = run[x].snap
<1> DEFINE c == Catalog(run[x].label)
           u == [run[x] EXCEPT !.at = "work", !.snap = 0, !.stamp = 0]
           s == [run[x] EXCEPT !.at = "copy", !.todo = <<>>]
<1>1. run[x] \in Run
  BY RunFields DEF TypeInv
<1>2. \/ run' = [run EXCEPT ![x] = u] /\ Identity(c) # run[x].snap
      \/ /\ run' = [run EXCEPT ![x] = s]
         /\ Identity(c) = run[x].snap /\ kind.strategy = "window"
      \/ /\ run' = [run EXCEPT ![x] = Idle]
         /\ Identity(c) = run[x].snap /\ kind.strategy # "window"
  BY DEF Adopt
<1>3. u \in Run /\ u.at = "work" /\ Kept4(u, run[x]) /\ u.todo = run[x].todo
      /\ u.stamp = 0
  BY <1>1 DEF Run, Kept4
<1>4. /\ s \in Run /\ s.at = "copy" /\ Kept4(s, run[x]) /\ s.todo = <<>>
      /\ s.snap = run[x].snap /\ s.reuse = run[x].reuse
      /\ s.stamp = run[x].stamp
  BY <1>1, TypeGoes DEF Run, Kept4
<1> HIDE DEF u, s
<1> QED
  BY <1>2, <1>3, <1>4, IdleFine

-----------------------------------------------------------------------------
(***************************************************************************)
(* The statements of an operation.                                         *)
(***************************************************************************)
TwoSteps == {"key", "partition"}
OneStatement == kind.strategy = "key" /\ kind.adapter = "trino"

\* A deletion is followed by an insertion, and belongs to a key or a partition;
\* a key on Trino has neither, but is merged.  Nothing of an adopted run has been executed.
Plan(todo) ==
    /\ todo \in {<<>>, <<"drop", "create">>, <<"create">>, <<"replace">>, <<"insert">>,
                 <<"merge">>, <<"delete", "insert">>}
    /\ todo = <<"delete", "insert">> => kind.strategy \in TwoSteps
    /\ todo = <<"merge">> => OneStatement
    /\ OneStatement => todo \notin {<<"replace">>, <<"insert">>, <<"delete", "insert">>}
PlanFine(r) ==
    /\ Plan(r.todo)
    /\ r.at = "adopt" /\ kind.strategy \in TwoSteps => r.todo # <<"insert">>
PlansInv ==
    /\ \A x \in Slots : PlanFine(run[x])
    /\ OneStatement => \A s \in late : s.does \notin {"replace", "insert", "delete"}

LEMMA StatementsPlan ==
    ASSUME TypeInv, NEW whole \in BOOLEAN
    PROVE  /\ Plan(Statements(whole))
           /\ kind.strategy \in TwoSteps => Statements(whole) # <<"insert">>
           /\ whole => Statements(whole) \in {<<"drop", "create">>, <<"replace">>}
<1>1. kind.strategy \in {"append", "key", "partition", "window"}
      /\ kind.adapter \in {"trino", "duckdb"}
  BY KindAssumption DEF TypeInv, TypeOK
<1>2. \/ whole /\ kind.adapter = "trino" /\ Statements(whole) = <<"drop", "create">>
      \/ whole /\ kind.adapter = "duckdb" /\ Statements(whole) = <<"replace">>
      \/ ~whole /\ kind.strategy \in {"append", "window"} /\ Statements(whole) = <<"insert">>
      \/ ~whole /\ OneStatement /\ Statements(whole) = <<"merge">>
      \/ /\ ~whole /\ kind.strategy \in TwoSteps /\ ~OneStatement
         /\ Statements(whole) = <<"delete", "insert">>
  BY <1>1 DEF Statements, TwoSteps, OneStatement
<1> DEFINE s == Statements(whole)
<1> HIDE DEF s
<1>3. Plan(s) /\ (kind.strategy \in TwoSteps => s # <<"insert">>)
      /\ (whole => s \in {<<"drop", "create">>, <<"replace">>})
  BY <1>2 DEF Plan, TwoSteps, OneStatement, s
<1> QED
  BY <1>3 DEF s

\* The statement a run is at is the only one, or the first of two.
LEMMA PlanCases ==
    ASSUME NEW t, Plan(t), t # <<>>
    PROVE  \/ Len(t) = 1 /\ t = <<Head(t)>> /\ Head(t) \in {"create", "replace", "insert", "merge"}
           \/ /\ Len(t) # 1 /\ t = <<"drop", "create">> /\ Head(t) = "drop"
              /\ Tail(t) = <<"create">>
           \/ /\ Len(t) # 1 /\ t = <<"delete", "insert">> /\ Head(t) = "delete"
              /\ Tail(t) = <<"insert">> /\ kind.strategy \in TwoSteps
<1>1. CASE t \in {<<"create">>, <<"replace">>, <<"insert">>, <<"merge">>}
  BY <1>1
<1>2. CASE t = <<"drop", "create">>
  BY <1>2
<1>3. CASE t = <<"delete", "insert">>
  BY <1>3 DEF Plan
<1> QED
  BY <1>1, <1>2, <1>3 DEF Plan

LEMMA PlanPut ==
    ASSUME TypeInv, PlansInv, NEW x \in Slots, NEW r \in Run, PlanFine(r),
           run' = [run EXCEPT ![x] = r], kind' = kind, late' \subseteq late
    PROVE  PlansInv'
<1>1. \A y \in Slots : PlanFine(run'[y])
  BY PutIs DEF PlansInv
<1> QED
  BY <1>1 DEF PlansInv, PlanFine, Plan, OneStatement
LEMMA PlanIdle == PlanFine(Idle)
  BY IdleType DEF PlanFine, Plan

\* What a run that starts has to do, or to fall back on.
LEMMA StartPlans ==
    ASSUME NEW r, NEW l, Started(r, l)
    PROVE  \E f \in BOOLEAN : r.todo = Statements(f)
<1>1. CASE Works(r, l)
  <2>1. PICK g \in BOOLEAN : r.todo = Statements(Whole(g, l))
    BY <1>1 DEF Works
  <2>2. Whole(g, l) \in BOOLEAN
    BY DEF Whole
  <2> QED
    BY <2>1, <2>2
<1>2. CASE Adopts(r, l)
  BY <1>2 DEF Adopts
<1> QED
  BY <1>1, <1>2 DEF Started

LEMMA PlansInit == Init => PlansInv
  BY PlanIdle DEF Init, PlansInv

LEMMA PlansNext == TypeInv /\ PlansInv /\ [Next]_vars => PlansInv'
<1> SUFFICES ASSUME TypeInv, PlansInv, [Next]_vars PROVE PlansInv'
  OBVIOUS
<1>1. CASE run' = run /\ kind' = kind /\ late' \subseteq late
  BY <1>1 DEF PlansInv, PlanFine, Plan, OneStatement
<1>2. ASSUME NEW x \in Slots, NEW l \in Labels, NEW forced \in BOOLEAN, Start(x, l, forced)
      PROVE  PlansInv'
  <2>1. PICK r \in Run : run' = [run EXCEPT ![x] = r] /\ Started(r, l)
    BY <1>2, StartIs
  <2>2. PICK f \in BOOLEAN : r.todo = Statements(f)
    BY <2>1, StartPlans
  <2>3. PlanFine(r)
    BY <2>2, StatementsPlan DEF PlanFine
  <2> QED
    BY <1>2, <2>1, <2>3, PlanPut DEF Start
<1>3. ASSUME NEW x \in Slots, Execute(x) PROVE PlansInv'
  <2>1. Executing(x) /\ PlanFine(run[x]) /\ run[x].todo # <<>>
    BY <1>3, DoesIs DEF Execute, PlansInv
  <2>2. Done(x) \in Run /\ Done(x).at # "adopt"
    BY <2>1, DoneCases
  <2>3. \/ Done(x).todo = <<>>
        \/ Done(x).todo = <<"create">>
        \/ Done(x).todo = <<"insert">> /\ run[x].todo = <<"delete", "insert">>
    BY <2>1, DoneCases, PlanCases DEF PlanFine
  <2>4. OneStatement => run[x].todo # <<"delete", "insert">>
    BY <2>1 DEF PlanFine, Plan
  <2>5. Plan(Done(x).todo)
    <3>1. CASE Done(x).todo = <<>>
      BY <3>1 DEF Plan
    <3>2. CASE Done(x).todo = <<"create">>
      BY <3>2 DEF Plan
    <3>3. CASE Done(x).todo = <<"insert">> /\ ~OneStatement
      BY <3>3 DEF Plan
    <3> QED
      BY <2>3, <2>4, <3>1, <3>2, <3>3
  <2>6. PlanFine(Done(x))
    BY <2>2, <2>5 DEF PlanFine
  <2> QED
    BY <1>3, <2>2, <2>6, PlanPut DEF Execute
<1>4. ASSUME NEW x \in Slots, NEW applied \in BOOLEAN, NEW again \in BOOLEAN,
             Fail(x, applied, again)
      PROVE  PlansInv'
  <2>1. PICK r \in Run : /\ run' = [run EXCEPT ![x] = r]
                         /\ \/ r.at = "work" /\ r.todo \in {Statements(TRUE), Statements(FALSE)}
                            \/ r = Idle
    BY <1>4, AgainCases
  <2>2. PlanFine(r)
    BY <2>1, PlanIdle, StatementsPlan DEF PlanFine
  <2> QED
    BY <1>4, <2>1, <2>2, PlanPut DEF Fail
<1>5. ASSUME NEW x \in Slots, Refuse(x) \/ End(x) \/ CopyMark(x) \/ Stop(x) PROVE PlansInv'
  BY <1>5, PlanIdle, IdleType, PlanPut DEF Refuse, End, CopyMark, Stop
<1>6. ASSUME NEW x \in Slots, Abandon(x) PROVE PlansInv'
  <2>1. Executing(x) /\ PlanFine(run[x]) /\ run[x].todo # <<>>
    BY <1>6, DoesIs DEF Abandon, PlansInv
  <2>2. OneStatement => Does(x) \notin {"replace", "insert", "delete"}
    BY <2>1, PlanCases DEF PlanFine, Plan, Does, OneStatement
  <2>3. \A y \in Slots : PlanFine(run'[y])
    BY <1>6, PlanIdle, PutIs DEF Abandon, PlansInv
  <2>4. OneStatement => \A s \in late' : s.does \notin {"replace", "insert", "delete"}
    <3>1. late' = late \cup {[does |-> Does(x), catalog |-> Catalog(run[x].label),
                                from |-> run[x].from]}
      BY <1>6 DEF Abandon
    <3> QED
      BY <2>2, <3>1 DEF PlansInv
  <2> QED
    BY <1>6, <2>3, <2>4 DEF Abandon, PlansInv, PlanFine, Plan, OneStatement
<1>7. ASSUME NEW x \in Slots, Join(x) \/ Drain(x) \/ SetMark(x) \/ Finish(x)
      PROVE  PlansInv'
  <2>1. PICK r \in Run : run' = [run EXCEPT ![x] = r] /\ r.todo = <<>>
    BY <1>7, JoinIs, DrainIs, SetMarkIs, FinishIs
  <2>2. PlanFine(r)
    BY <2>1 DEF PlanFine, Plan
  <2> QED
    BY <1>7, <2>1, <2>2, PlanPut DEF Join, Drain, SetMark, Finish
<1>8. ASSUME NEW x \in Slots, Adopt(x) PROVE PlansInv'
  <2>1. PICK r \in Run : /\ run' = [run EXCEPT ![x] = r]
                         /\ \/ r.at = "work" /\ r.todo = run[x].todo
                            \/ r.at = "copy" /\ r.todo = <<>>
                            \/ r = Idle
    BY <1>8, AdoptIs
  <2>2. PlanFine(r)
    BY <2>1, PlanIdle DEF PlanFine, Plan, PlansInv
  <2> QED
    BY <1>8, <2>1, <2>2, PlanPut DEF Adopt
<1>9. CASE UNCHANGED vars
  BY <1>1, <1>9 DEF vars
<1>10. CASE RunStep
  BY <1>2, <1>3, <1>5, <1>7, <1>8, <1>10 DEF RunStep
<1>11. CASE FaultStep
  <2>1. ASSUME NEW s \in late, ExecuteLate(s) PROVE PlansInv'
    BY <1>1, <2>1 DEF ExecuteLate
  <2> QED
    BY <1>4, <1>5, <1>6, <1>7, <1>11, <2>1 DEF FaultStep
<1>12. CASE WorldStep
  BY <1>1, <1>12 DEF WorldStep, Arrive, CutBranch, Publish, Rollback
<1> QED
  BY <1>9, <1>10, <1>11, <1>12 DEF Next

LEMMA PlansAlways == Spec => []PlansInv
<1>1. TypeInv /\ PlansInv /\ [Next]_vars => PlansInv'
  BY PlansNext
<1> QED
  BY <1>1, PlansInit, TypeAlways, PTL DEF Spec

-----------------------------------------------------------------------------
(***************************************************************************)
(* Records are of versions, and in the order of the clock: what the        *)
(* planner goes by is one of its catalog that no other is later than.      *)
(***************************************************************************)
Stamped(r) ==
    /\ r.stamp \in Nat /\ r.stamp <= clock
    /\ r.at # "idle" => r.version > 0
    /\ r.at \in {"work", "built", "mark"} => r.stamp = 0
    /\ r.at = "adopt" => r.stamp # 0
Dated(l) == record[l].at <= clock /\ (record[l].version = 0 <=> record[l].at = 0)
StampInv == /\ \A l \in Labels : Dated(l)
            /\ \A x \in Slots : Stamped(run[x])

LEMMA StampPut ==
    ASSUME TypeInv, StampInv, NEW x \in Slots, NEW r \in Run, run' = [run EXCEPT ![x] = r],
           clock' \in {clock, clock + 1}, Stamped(r)', \A l \in Labels : Dated(l)'
    PROVE  StampInv'
<1>1. clock \in Nat /\ run'[x] = r /\ \A y \in Slots \ {x} : run'[y] = run[y]
  BY PutIs DEF TypeInv, TypeOK
<1>2. ASSUME NEW y \in Slots PROVE Stamped(run[y])'
  <2>1. CASE y = x
    BY <1>1, <2>1 DEF Stamped
  <2>2. CASE y # x
    <3>1. PICK q \in Run : q = run[y] /\ q = run'[y] /\ Stamped(q)
      BY <1>1, <2>2, RunFields DEF TypeInv, StampInv
    <3>2. Stamped(q)'
      BY <1>1, <3>1 DEF Stamped
    <3> QED
      BY <3>1, <3>2 DEF Stamped
  <2> QED
    BY <2>1, <2>2
<1> QED
  BY <1>2 DEF StampInv

LEMMA StampIdle == ASSUME TypeInv, clock' = clock PROVE Stamped(Idle)'
  BY DEF Stamped, Idle, TypeInv, TypeOK

LEMMA DatedStays ==
    ASSUME StampInv, UNCHANGED <<record, clock>>
    PROVE  \A l \in Labels : Dated(l)'
  BY DEF StampInv, Dated

LEMMA StampInit == Init => StampInv
<1> SUFFICES ASSUME Init PROVE StampInv
  OBVIOUS
<1>1. /\ \A l \in Labels : record[l].version = 0 /\ record[l].at = 0
      /\ \A x \in Slots : run[x] = Idle
      /\ clock = 0
  BY DEF Init, NoRecord
<1>2. Idle.stamp = 0 /\ Idle.at = "idle"
  BY DEF Idle
<1> QED
  BY <1>1, <1>2 DEF StampInv, Stamped, Dated

\* The record a run leaves.
LEMMA StampRecords ==
    ASSUME TypeInv, StampInv, NEW x \in Slots, run[x].at \in {"end", "adopt"},
           run[x].stamp # 0, record' \in {record, Recorded(run[x])}, clock' = clock
    PROVE  \A l \in Labels : Dated(l)'
<1>1. PICK q \in Run : q = run[x]
  BY RunFields DEF TypeInv
<1>2. q.version > 0 /\ q.version \in Nat /\ q.stamp # 0 /\ q.stamp <= clock
  BY <1>1, MaxRowsIs DEF StampInv, Stamped, Run
<1>3. \A l \in Labels :
        \/ record'[l] = record[l]
        \/ record'[l].version = q.version /\ record'[l].at = q.stamp
  BY <1>1, RecordedCases
<1> QED
  BY <1>2, <1>3 DEF StampInv, Dated

LEMMA StampRuns ==
    ASSUME TypeInv, StampInv, NEW x \in Slots,
           Execute(x) \/ Refuse(x) \/ Join(x) \/ SetMark(x) \/ Finish(x) \/ End(x)
           \/ Adopt(x) \/ CopyMark(x) \/ Abandon(x) \/ Drain(x) \/ Stop(x)
           \/ \E applied, again \in BOOLEAN : Fail(x, applied, again)
    PROVE  StampInv'
<1>0. PICK q \in Run : q = run[x] /\ Stamped(q)
  BY RunFields DEF TypeInv, StampInv
<1>1. clock \in Nat
  BY DEF TypeInv, TypeOK
<1>2. CASE Refuse(x) \/ CopyMark(x) \/ Abandon(x) \/ Stop(x)
  <2>1. run' = [run EXCEPT ![x] = Idle] /\ UNCHANGED <<record, clock>>
    BY <1>2 DEF Refuse, CopyMark, Abandon, Stop, state
  <2> QED
    BY <1>1, <2>1, StampPut, IdleType, StampIdle, DatedStays
<1>3. CASE Execute(x)
  <2>1. /\ UNCHANGED <<record, clock>> /\ q.at = "work"
        /\ run' = [run EXCEPT ![x] = Done(x)]
    BY <1>0, <1>3 DEF Execute, Executing, state
  <2>2. PICK r \in Run : r = Done(x) /\ Kept4(r, q) /\ r.stamp = q.stamp
                         /\ r.at \in {"built", "work"}
    BY <1>0, <1>3, DoneCases DEF Execute
  <2>3. Stamped(r)'
    BY <1>0, <1>1, <2>1, <2>2 DEF Stamped, Kept4
  <2> QED
    BY <1>1, <2>1, <2>2, <2>3, StampPut, DatedStays
<1>4. ASSUME NEW applied \in BOOLEAN, NEW again \in BOOLEAN, Fail(x, applied, again)
      PROVE  StampInv'
  <2>1. UNCHANGED <<record, clock>> /\ q.at = "work"
    BY <1>0, <1>4 DEF Fail, Executing, state
  <2>2. PICK r \in Run : /\ run' = [run EXCEPT ![x] = r]
                         /\ \/ r.at = "work" /\ Kept4(r, q) /\ r.stamp = q.stamp
                            \/ r = Idle
    BY <1>0, <1>4, AgainCases
  <2>3. Stamped(r)'
    BY <1>0, <1>1, <2>1, <2>2, StampIdle DEF Stamped, Kept4
  <2> QED
    BY <1>1, <2>1, <2>2, <2>3, StampPut, DatedStays
<1>5. CASE Join(x) \/ Drain(x) \/ SetMark(x)
  <2>1. UNCHANGED <<record, clock>> /\ q.at \in {"built", "mark"}
    BY <1>0, <1>5 DEF Join, Drain, SetMark, state
  <2>2. PICK r \in Run : /\ run' = [run EXCEPT ![x] = r]
                         /\ Kept4(r, q) /\ r.stamp = q.stamp /\ r.at \in {"mark", "end"}
    BY <1>0, <1>5, JoinIs, DrainIs, SetMarkIs
  <2>3. Stamped(r)'
    BY <1>0, <1>1, <2>1, <2>2 DEF Stamped, Kept4
  <2> QED
    BY <1>1, <2>1, <2>2, <2>3, StampPut, DatedStays
<1>6. CASE Finish(x)
  <2>1. clock' = clock + 1 /\ record' = record /\ q.at = "end"
    BY <1>0, <1>6 DEF Finish
  <2>2. PICK r \in Run : /\ run' = [run EXCEPT ![x] = r] /\ Kept4(r, q)
                         /\ r.at = "end" /\ r.stamp = clock + 1
    BY <1>0, <1>6, FinishIs
  <2>3. Stamped(r)'
    BY <1>0, <1>1, <2>1, <2>2 DEF Stamped, Kept4
  <2>4. \A l \in Labels : Dated(l)'
    BY <1>1, <2>1, RecordType DEF StampInv, Dated
  <2> QED
    BY <1>1, <2>1, <2>2, <2>3, <2>4, StampPut
<1>7. CASE End(x)
  <2>1. /\ run' = [run EXCEPT ![x] = Idle] /\ clock' = clock
        /\ run[x].at = "end" /\ run[x].stamp # 0 /\ record' \in {record, Recorded(run[x])}
    BY <1>7 DEF End
  <2> QED
    BY <1>1, <2>1, StampPut, IdleType, StampIdle, StampRecords
<1>8. CASE Adopt(x)
  <2>1. /\ clock' = clock /\ run[x].at = "adopt" /\ run[x].stamp # 0
        /\ record' \in {record, Recorded(run[x])}
    BY <1>8 DEF Adopt, StampInv, Stamped
  <2>2. PICK r \in Run :
          /\ run' = [run EXCEPT ![x] = r]
          /\ \/ r.at = "work" /\ Kept4(r, q) /\ r.stamp = 0
             \/ r.at = "copy" /\ Kept4(r, q) /\ r.stamp = q.stamp
             \/ r = Idle
    BY <1>0, <1>8, AdoptIs
  <2>3. Stamped(r)'
    BY <1>0, <1>1, <2>1, <2>2, StampIdle DEF Stamped, Kept4
  <2> QED
    BY <1>1, <2>1, <2>2, <2>3, StampPut, StampRecords
<1> QED
  BY <1>2, <1>3, <1>4, <1>5, <1>6, <1>7, <1>8

LEMMA StampStart ==
    ASSUME TypeInv, StampInv, NEW x \in Slots, NEW l \in Labels, NEW forced \in BOOLEAN,
           Start(x, l, forced)
    PROVE  StampInv'
<1>1. PICK r \in Run : run' = [run EXCEPT ![x] = r] /\ Started(r, l)
  BY StartIs
<1>2. UNCHANGED <<record, clock>> /\ clock \in Nat
  BY DEF Start, state, TypeInv, TypeOK
<1>3. r.version = source /\ source \in Nat /\ source > 0
  BY <1>1, MaxRowsIs DEF Started, TypeInv, TypeOK
<1>4. CASE Works(r, l)
  <2>1. Stamped(r)'
    BY <1>2, <1>3, <1>4 DEF Works, Stamped
  <2> QED
    BY <1>1, <1>2, <2>1, StampPut, DatedStays
<1>5. CASE Adopts(r, l)
  <2>1. PICK o \in Labels : r.at = "adopt" /\ r.stamp = record[o].at /\ record[o].version = source
    BY <1>5 DEF Adopts, Adoptable
  <2>2. Dated(o) /\ record[o].at \in Nat
    BY RecordType DEF StampInv
  <2>3. Stamped(r)'
    BY <1>2, <1>3, <2>1, <2>2 DEF Stamped, Dated
  <2> QED
    BY <1>1, <1>2, <2>3, StampPut, DatedStays
<1> QED
  BY <1>1, <1>4, <1>5 DEF Started

LEMMA StampNext == TypeInv /\ StampInv /\ [Next]_vars => StampInv'
<1> SUFFICES ASSUME TypeInv, StampInv, [Next]_vars PROVE StampInv'
  OBVIOUS
<1>1. ASSUME UNCHANGED <<record, clock, run>> PROVE StampInv'
  BY <1>1 DEF StampInv, Stamped, Dated
<1>2. CASE UNCHANGED vars \/ WorldStep \/ \E s \in late : ExecuteLate(s)
  <2>1. UNCHANGED <<record, clock, run>>
    BY <1>2 DEF vars, state, WorldStep, Arrive, CutBranch, Publish, Rollback, ExecuteLate
  <2> QED
    BY <1>1, <2>1
<1>3. CASE RunStep
  BY <1>3, StampStart, StampRuns DEF RunStep
<1>4. CASE FaultStep
  BY <1>2, <1>4, StampRuns DEF FaultStep
<1> QED
  BY <1>2, <1>3, <1>4 DEF Next

LEMMA StampAlways == Spec => []StampInv
<1>1. TypeInv /\ StampInv /\ [Next]_vars => StampInv'
  BY StampNext
<1> QED
  BY <1>1, StampInit, TypeAlways, PTL DEF Spec

\* The record a planner goes by.
LEMMA CurrentIs ==
    ASSUME TypeInv, StampInv, NEW l \in Labels
    PROVE  \E k \in Labels :
             /\ Catalog(k) = Catalog(l) /\ Current(l) = record[k]
             /\ l \in Scope(l) /\ record[l].at <= record[k].at
<1>1. clock \in Nat /\ \A k \in Labels : record[k].at \in Nat /\ record[k].at <= clock
  BY RecordType DEF TypeInv, TypeOK, StampInv, Dated
<1>2. l \in Scope(l) /\ Scope(l) \subseteq Labels /\ \A k \in Scope(l) : Catalog(k) = Catalog(l)
  BY LabelAssumption DEF Scope, Catalog
<1> DEFINE S == {record[k].at + 1 : k \in Scope(l)}
           Latest(k) == \A j \in Scope(l) : record[j].at <= record[k].at
<1>3. S \in SUBSET (1..clock + 1) /\ S # {} /\ clock + 1 \in Nat
  BY <1>1, <1>2
<1>4. \E n \in S : \A m \in S : m <= n
  <2> HIDE DEF S
  <2> QED
    BY <1>3, Greatest
<1>5. \E k \in Scope(l) : Latest(k)
  <2>1. PICK k \in Scope(l) : \A m \in S : m <= record[k].at + 1
    BY <1>4
  <2>2. \A j \in Scope(l) : record[j].at + 1 \in S /\ record[j].at \in Nat
    BY <1>1, <1>2
  <2>3. \A j \in Scope(l) : record[j].at + 1 <= record[k].at + 1
    <3> HIDE DEF S
    <3> QED
      BY <2>1, <2>2
  <2>4. \A j \in Scope(l) : record[j].at <= record[k].at
    BY <2>2, <2>3
  <2> QED
    BY <2>4
<1>6. PICK k \in Scope(l) : Latest(k) /\ Current(l) = record[k]
  BY <1>5 DEF Current
<1> QED
  BY <1>2, <1>6

-----------------------------------------------------------------------------
(***************************************************************************)
(* What the planner leaves unbuilt is complete.  First, while nobody is    *)
(* beside another: whatever a record, or a run that is to leave one, says  *)
(* of a snapshot is true of every table with that snapshot.                *)
(***************************************************************************)
Crowded == Happened({"side by side", "left running"})

Lone == \A x, y \in Slots : run[x].at # "idle" /\ run[y].at # "idle" => x = y
\* Rows 1 to v are in every table with this snapshot.
Tells(s, v) ==
    s # 0 => s <= snaps /\ \A c \in Catalogs : table[c].snap = s => 1..v \subseteq Present(c)
TrueFine(r) ==
    /\ r.at = "built" /\ table[Catalog(r.label)].there =>
           1..r.version \subseteq Present(Catalog(r.label))
    /\ r.at # "idle" => r.version <= source
    /\ r.at \in {"adopt", "mark", "end"} => Tells(r.snap, r.version)
TrueCore ==
    /\ Lone /\ late = {}
    /\ \A l \in Labels : Tells(record[l].snap, record[l].version)
    /\ \A x \in Slots : TrueFine(run[x])
TrueInv == SetBack \/ Crowded \/ TrueCore

LEMMA CrowdGrows == [Next]_vars /\ Crowded => Crowded'
<1>1. [Next]_vars => slips \subseteq slips'
  BY SlipsStay
<1> QED
  BY <1>1 DEF Crowded, Happened

\* Who is idle may start only where nobody is at work; a run that goes on is
\* the only one.
LEMMA LoneStays ==
    ASSUME TypeInv, Lone, NEW x \in Slots, NEW r \in Run, run' = [run EXCEPT ![x] = r],
           run[x].at # "idle" \/ Beside = {}
    PROVE  Lone'
<1>1. \A y \in Slots \ {x} : run[y].at = "idle"
  BY DEF Lone, Beside
<1>2. \A y \in Slots \ {x} : run'[y].at = "idle"
  BY <1>1, PutIs
<1> QED
  BY <1>2 DEF Lone

\* What was said of a snapshot stays true when tables are written, copied, or
\* stay.
TableStep ==
    \/ UNCHANGED <<table, snaps>>
    \/ /\ snaps' = snaps + 1
       /\ \E c \in Catalogs : /\ table'[c].snap = snaps + 1
                              /\ \A d \in Catalogs \ {c} : table'[d] = table[d]
    \/ /\ snaps' = snaps
       /\ \A c \in Catalogs : \E d \in Catalogs : table'[c] = table[d]
LEMMA TellsStays ==
    ASSUME TypeInv, TableStep, NEW s \in Nat, NEW v, Tells(s, v)
    PROVE  Tells(s, v)'
<1>1. snaps \in Nat
  BY DEF TypeInv, TypeOK
<1>2. s # 0 => s <= snaps /\ s <= snaps'
  BY <1>1 DEF Tells, TableStep
<1>3. ASSUME s # 0, NEW c \in Catalogs, table'[c].snap = s PROVE 1..v \subseteq Present(c)'
  <2>1. PICK d \in Catalogs : table'[c] = table[d]
    BY <1>1, <1>2, <1>3 DEF TableStep
  <2>2. Present(c)' = Present(d) /\ table[d].snap = s
    BY <1>3, <2>1 DEF Present
  <2> QED
    BY <1>3, <2>2 DEF Tells
<1> QED
  BY <1>2, <1>3 DEF Tells

LEMMA ApplyTableStep ==
    ASSUME TypeInv, NEW does, NEW c \in Catalogs, NEW n, Apply(does, c, n)
    PROVE  TableStep
<1>1. table \in [Catalogs -> Table]
  BY DEF TypeInv, TypeOK
<1>2. snaps' = snaps + 1 /\ \A d \in Catalogs \ {c} : table'[d] = table[d]
  BY <1>1 DEF Apply
<1>3. table'[c].snap = snaps + 1
  <2>1. CASE does = "drop"
    <3>1. table'[c] = [Absent EXCEPT !.snap = snaps + 1]
      BY <1>1, <2>1 DEF Apply
    <3> QED
      BY <3>1 DEF Absent
  <2>2. CASE does # "drop"
    BY <1>1, <2>2 DEF Apply
  <2> QED
    BY <2>1, <2>2
<1> QED
  BY <1>2, <1>3 DEF TableStep

\* The other runs and the records, in a step that only leaves one run where
\* something else is to be shown.
LEMMA TrueStep ==
    ASSUME TypeInv, TrueCore, TableStep, NEW x \in Slots, NEW r \in Run,
           run' = [run EXCEPT ![x] = r], run[x].at # "idle" \/ Beside = {},
           TrueFine(r)', late' = {},
           \A l \in Labels : \/ record'[l] = record[l]
                             \/ Tells(record[l].snap, record[l].version)'
    PROVE  TrueCore'
<1>1. Lone'
  BY LoneStays DEF TrueCore
<1>2. \A l \in Labels : Tells(record[l].snap, record[l].version)'
  <2> SUFFICES ASSUME NEW l \in Labels, record'[l] = record[l]
               PROVE  Tells(record[l].snap, record[l].version)'
    OBVIOUS
  <2> DEFINE s == record[l].snap
             v == record[l].version
  <2>1. s \in Nat /\ Tells(s, v)
    BY TypeParts DEF StateType, Record, TrueCore
  <2> QED
    BY <2>1, TellsStays DEF Tells
<1>3. \A y \in Slots \ {x} : run[y].at = "idle" /\ run'[y] = run[y]
  BY PutIs DEF TrueCore, Lone, Beside
<1>4. \A y \in Slots \ {x} : TrueFine(run[y])'
  BY <1>3 DEF TrueFine
<1>5. TrueFine(run[x])'
  <2>1. run'[x] = r
    BY PutIs
  <2> QED
    BY <2>1 DEF TrueFine
<1> QED
  BY <1>1, <1>2, <1>4, <1>5 DEF TrueCore

\* What is captured of the table a run has built.
LEMMA CaptureTells ==
    ASSUME TypeInv, WarehouseInv, NEW c \in Catalogs, NEW v,
           table[c].there => 1..v \subseteq Present(c)
    PROVE  Tells(Identity(c), v)
<1>1. Identity(c) # 0 => /\ Identity(c) = table[c].snap /\ table[c].there
                         /\ table[c].snap <= snaps
  BY IdentityIs DEF TypeInv, TypeOK
<1>2. ASSUME Identity(c) # 0, NEW d \in Catalogs, table[d].snap = Identity(c)
      PROVE  1..v \subseteq Present(d)
  <2>1. table[d] = table[c]
    BY <1>1, <1>2, CatalogsAre DEF WarehouseInv, SameInv
  <2> QED
    BY <1>1, <1>2, <2>1 DEF Present
<1> QED
  BY <1>1, <1>2 DEF Tells

LEMMA SourceIs == ASSUME TypeInv PROVE source \in Nat /\ source >= 1 /\ source <= MaxRows
  BY MaxRowsIs DEF TypeInv, TypeOK

LEMMA TrueIdle == ASSUME TRUE PROVE TrueFine(Idle)'
  BY IdleType DEF TrueFine

LEMMA TrueStart ==
    ASSUME TypeInv, TrueCore, ~Crowded', NEW x \in Slots, NEW l \in Labels,
           NEW forced \in BOOLEAN, Start(x, l, forced)
    PROVE  TrueCore'
<1>1. PICK r \in Run : run' = [run EXCEPT ![x] = r] /\ Started(r, l)
  BY StartIs
<1>2. /\ UNCHANGED <<table, snaps, source, record, late>> /\ Beside = {}
  BY DEF Start, tables, state, Crowded, Happened, Slip, Beside
<1>3. Adopts(r, l) => Tells(r.snap, r.version)
  BY <1>1 DEF Adopts, Adoptable, Started, TrueCore
<1>4. TrueFine(r)'
  <2>1. Adopts(r, l) => Tells(r.snap, r.version)'
    BY <1>1, <1>2, <1>3, TellsStays, RunTypes DEF TableStep
  <2>2. /\ r.at = "work" \/ (r.at = "adopt" /\ Adopts(r, l))
        /\ r.version = source /\ source' = source
    BY <1>1, <1>2 DEF Started, Works, Adopts
  <2>3. r.at # "idle" => r.version <= source'
    BY <2>2, SourceIs
  <2> QED
    BY <2>1, <2>2, <2>3 DEF TrueFine
<1> QED
  BY <1>1, <1>2, <1>4, TrueStep DEF TableStep, TrueCore

LEMMA TrueExecute ==
    ASSUME TypeInv, KeptCore, PlansInv, TrueCore, NEW x \in Slots, Execute(x)
    PROVE  TrueCore'
<1>1. /\ Executing(x) /\ run[x].at = "work" /\ run[x].todo # <<>> /\ Plan(run[x].todo)
      /\ TrueFine(run[x]) /\ run[x].version <= source /\ run[x].version \in Nat
      /\ UNCHANGED <<source, record, late, kind>>
  BY DoesIs, RunFields, MaxRowsIs DEF Execute, Executing, PlansInv, PlanFine, TrueCore, TrueFine,
     state, TypeInv
<1>2. PICK r \in Run : r = Done(x)
  BY <1>1, DoneCases
<1>3. PICK c \in Catalogs : c = Catalog(run[x].label)
  BY CatalogsAre
<1>4. /\ r.label = run[x].label /\ r.version = run[x].version /\ r.at \in {"work", "built"}
      /\ r.at = "built" => Len(run[x].todo) = 1
  BY <1>1, <1>2, DoneCases DEF Kept4
<1>5. Apply(Does(x), c, run[x].from) /\ TableStep
  BY <1>1, <1>3, DoesIs, ApplyTableStep DEF Execute
<1>6. r.at = "built" => Present(c)' = 1..source
  <2>1. r.at = "built" => Does(x) \notin {"drop", "delete"}
    BY <1>1, <1>4, PlanCases DEF Does
  <2>2. Shape(c) /\ Kept(c, run[x].from)
    BY <1>1, <1>3, DoesFine DEF KeptCore, WarehouseInv, ShapeInv, Sound
  <2>3. PICK d \in Statement, n \in 0..MaxRows : d = Does(x) /\ n = run[x].from
    BY <1>1, DoesIs
  <2>4. Present(c)' = IF d \in {"drop", "delete"} THEN {} ELSE 1..source
    BY <1>1, <1>5, <2>2, <2>3, WrittenIs
  <2> QED
    BY <2>1, <2>3, <2>4
<1>7. 1..run[x].version \subseteq 1..source
  BY <1>1, SourceIs
<1>8. TrueFine(r)'
  <2>1. Catalog(r.label) = c /\ 1..r.version \subseteq 1..source /\ r.version <= source'
    BY <1>1, <1>3, <1>4, <1>7
  <2> QED
    BY <1>4, <1>6, <2>1 DEF TrueFine
<1>9. run' = [run EXCEPT ![x] = r]
  BY <1>2 DEF Execute
<1>10. run[x].at # "idle" /\ late' = {} /\ record' = record
  BY <1>1 DEF TrueCore
<1> QED
  BY <1>5, <1>8, <1>9, <1>10, TrueStep

LEMMA TrueFail ==
    ASSUME TypeInv, TrueCore, NEW x \in Slots, NEW applied \in BOOLEAN, NEW again \in BOOLEAN,
           Fail(x, applied, again)
    PROVE  TrueCore'
<1>1. /\ run[x].at = "work" /\ run[x].version <= source /\ UNCHANGED <<source, record, late>>
  BY DEF Fail, Executing, TrueCore, TrueFine, state
<1>2. PICK r \in Run : /\ run' = [run EXCEPT ![x] = r]
                       /\ \/ r.at = "work" /\ Kept4(r, run[x])
                          \/ r = Idle
  BY AgainCases
<1>3. TableStep
  <2>1. CASE applied
    BY <2>1, CatalogsAre, ApplyTableStep DEF Fail
  <2>2. CASE ~applied
    BY <2>2 DEF Fail, tables, TableStep
  <2> QED
    BY <2>1, <2>2
<1>4. TrueFine(r)'
  BY <1>1, <1>2, TrueIdle DEF TrueFine, Kept4
<1> QED
  BY <1>1, <1>2, <1>3, <1>4, TrueStep DEF TrueCore

LEMMA TrueEnds ==
    ASSUME TypeInv, TrueCore, NEW x \in Slots,
           \/ Refuse(x) \/ End(x) \/ CopyMark(x) \/ Stop(x)
    PROVE  TrueCore'
<1>1. /\ run' = [run EXCEPT ![x] = Idle] /\ run[x].at # "idle" /\ late' = late
      /\ UNCHANGED <<table, snaps>>
  BY DEF Refuse, End, CopyMark, Stop, Executing, tables
<1>2. \A l \in Labels : \/ record'[l] = record[l]
                        \/ Tells(record[l].snap, record[l].version)'
  <2>1. CASE UNCHANGED record
    BY <2>1
  <2>2. CASE End(x)
    <3>1. PICK r \in Run : r = run[x]
      BY RunFields DEF TypeInv
    <3>2. Tells(r.snap, r.version)'
      BY <1>1, <2>2, <3>1, RunTypes, TellsStays DEF TableStep, TrueCore, TrueFine, End
    <3>3. record' \in {record, Recorded(r)}
      BY <2>2, <3>1 DEF End
    <3>4. \A l \in Labels : \/ record'[l] = record[l]
                            \/ record'[l].version = r.version /\ record'[l].snap = r.snap
      BY <3>3, RecordedCases
    <3> QED
      BY <3>2, <3>4 DEF Tells
  <2> QED
    BY <2>1, <2>2 DEF Refuse, CopyMark, Stop, state
<1> QED
  BY <1>1, <1>2, TrueIdle, IdleFine, TrueStep DEF TableStep, TrueCore

LEMMA TrueCaptures ==
    ASSUME TypeInv, KeptCore, TrueCore, NEW x \in Slots, Join(x) \/ Drain(x)
    PROVE  TrueCore'
<1>1. /\ run[x].at = "built" /\ TrueFine(run[x]) /\ late' = late /\ record' = record
      /\ UNCHANGED <<table, snaps, source>>
  BY DEF Join, Drain, tables, state, TrueCore
<1>2. PICK r \in Run : /\ run' = [run EXCEPT ![x] = r] /\ Kept4(r, run[x])
                       /\ r.snap = Identity(Catalog(run[x].label))
                       /\ r.at \in {"mark", "end"}
  BY JoinIs, DrainIs
<1>3. Tells(r.snap, r.version)
  BY <1>1, <1>2, CatalogsAre, CaptureTells DEF KeptCore, TrueFine, Kept4
<1>4. Tells(r.snap, r.version)'
  BY <1>1, <1>3, RunTypes, TellsStays DEF TableStep
<1>5. TrueFine(r)'
  BY <1>1, <1>2, <1>4 DEF TrueFine, Kept4
<1> QED
  BY <1>1, <1>2, <1>5, TrueStep DEF TableStep, TrueCore

LEMMA TrueSetMark ==
    ASSUME TypeInv, TrueCore, NEW x \in Slots, SetMark(x) \/ Finish(x)
    PROVE  TrueCore'
<1>1. /\ run[x].at \in {"mark", "end"} /\ TrueFine(run[x]) /\ late' = late /\ record' = record
      /\ UNCHANGED <<table, snaps, source>>
  BY DEF SetMark, Finish, tables, TrueCore
<1>2. PICK r \in Run : /\ run' = [run EXCEPT ![x] = r] /\ Kept4(r, run[x])
                       /\ r.snap = run[x].snap /\ r.at = "end"
  BY SetMarkIs, FinishIs
<1>3. Tells(r.snap, r.version)
  BY <1>1, <1>2 DEF TrueFine, Kept4
<1>4. Tells(r.snap, r.version)'
  BY <1>1, <1>3, RunTypes, TellsStays DEF TableStep
<1>5. TrueFine(r)'
  BY <1>1, <1>2, <1>4 DEF TrueFine, Kept4
<1> QED
  BY <1>1, <1>2, <1>5, TrueStep DEF TableStep, TrueCore

LEMMA TrueAdopt == ASSUME TypeInv, TrueCore, NEW x \in Slots, Adopt(x) PROVE TrueCore'
<1>1. /\ run[x].at = "adopt" /\ TrueFine(run[x]) /\ late' = late
      /\ UNCHANGED <<table, snaps, source>>
  BY DEF Adopt, tables, TrueCore
<1>2. PICK r \in Run : /\ run' = [run EXCEPT ![x] = r]
                       /\ \/ r.at \in {"work", "copy"} /\ Kept4(r, run[x])
                          \/ r = Idle
  BY AdoptIs
<1>3. TrueFine(r)'
  BY <1>1, <1>2, TrueIdle DEF TrueFine, Kept4
<1>4. PICK q \in Run : q = run[x]
  BY RunFields DEF TypeInv
<1>5. Tells(q.snap, q.version)'
  BY <1>1, <1>4, RunTypes, TellsStays DEF TableStep, TrueFine
<1>6. record' \in {record, Recorded(q)}
  BY <1>4 DEF Adopt
<1>7. \A l \in Labels : \/ record'[l] = record[l]
                        \/ record'[l].version = q.version /\ record'[l].snap = q.snap
  BY <1>6, RecordedCases
<1>8. \A l \in Labels : \/ record'[l] = record[l]
                        \/ Tells(record[l].snap, record[l].version)'
  BY <1>5, <1>7 DEF Tells
<1> QED
  BY <1>1, <1>2, <1>3, <1>8, TrueStep DEF TableStep, TrueCore

\* A branch is cut before there is a run of its own, and published while
\* nobody is at work.
LEMMA TrueWorld ==
    ASSUME TypeInv, KeptCore, TrueCore, ~Crowded', Arrive \/ CutBranch \/ Publish
    PROVE  TrueCore'
<1>1. run' = run /\ record' = record /\ late' = late
  BY DEF Arrive, CutBranch, Publish, state
<1>2. TableStep
  BY CatalogsAre DEF Arrive, CutBranch, Publish, tables, TableStep, TypeInv, TypeOK
<1>3. \A r \in Run : r.at \in {"adopt", "mark", "end"} /\ TrueFine(r) => Tells(r.snap, r.version)'
  BY <1>2, RunTypes, TellsStays DEF TrueFine
<1>4. source <= source' /\ source' \in Nat /\ source \in Nat
  BY SourceIs DEF Arrive, CutBranch, Publish
<1>5. ASSUME NEW x \in Slots, run[x].at = "built"
      PROVE  LET c == Catalog(run[x].label) IN table'[c] = table[c]
  <2>1. ~Publish
    BY <1>5 DEF Publish, Slip, Beside, Crowded, Happened
  <2>2. CutBranch => Catalog(run[x].label) = "main"
    BY <1>5, RunIsFine, CatalogsAre DEF CutBranch, RunFine
  <2> QED
    BY <2>1, <2>2, CatalogsAre DEF Arrive, CutBranch, tables, TypeInv, TypeOK
<1>6. ASSUME NEW x \in Slots PROVE TrueFine(run[x])'
  <2>1. PICK r \in Run : r = run[x]
    BY RunFields DEF TypeInv
  <2>2. TrueFine(r) /\ r.version \in Nat
    BY <2>1, MaxRowsIs DEF TrueCore, Run
  <2>3. TrueFine(r)'
    <3>1. r.at # "idle" => r.version <= source'
      BY <1>4, <2>2 DEF TrueFine
    <3>2. r.at = "built" /\ table'[Catalog(r.label)].there =>
            1..r.version \subseteq Present(Catalog(r.label))'
      BY <1>5, <2>1, <2>2 DEF TrueFine, Present
    <3> QED
      BY <1>3, <2>2, <3>1, <3>2 DEF TrueFine
  <2> QED
    BY <1>1, <2>1, <2>3
<1>7. \A l \in Labels : Tells(record[l].snap, record[l].version)'
  <2> SUFFICES ASSUME NEW l \in Labels PROVE Tells(record[l].snap, record[l].version)'
    OBVIOUS
  <2>1. PICK q \in Record : q = record[l]
    BY TypeParts DEF StateType
  <2>2. Tells(q.snap, q.version)'
    BY <1>2, <2>1, TellsStays DEF TrueCore, Record
  <2> QED
    BY <1>1, <2>1, <2>2
<1> QED
  BY <1>1, <1>6, <1>7 DEF TrueCore, Lone

LEMMA TrueInit == Init => TrueInv
<1> SUFFICES ASSUME Init PROVE TrueCore
  BY DEF TrueInv
<1> QED
  BY IdleType DEF Init, TrueCore, Lone, Tells, TrueFine, NoRecord

LEMMA TrueNext == TypeInv /\ KeptInv /\ PlansInv /\ TrueInv /\ [Next]_vars => TrueInv'
<1> SUFFICES ASSUME TypeInv, KeptInv, PlansInv, TrueInv, [Next]_vars, ~SetBack', ~Crowded'
             PROVE  TrueCore'
  BY DEF TrueInv
<1>1. TrueCore /\ KeptCore
  BY SlipsGrow, CrowdGrows DEF TrueInv, KeptInv, KeptCore
<1>2. CASE UNCHANGED vars
  BY <1>1, <1>2 DEF vars, tables, state, TrueCore, Lone, Tells, TrueFine, Present
<1>3. CASE RunStep
  BY <1>1, <1>3, TrueStart, TrueExecute, TrueEnds, TrueCaptures, TrueSetMark, TrueAdopt
     DEF RunStep
<1>4. CASE FaultStep
  <2>1. \A x \in Slots : ~Abandon(x)
    BY DEF Abandon, Slip, Crowded, Happened
  <2>2. late = {}
    BY <1>1 DEF TrueCore
  <2> QED
    BY <1>1, <1>4, <2>1, <2>2, TrueFail, TrueEnds, TrueCaptures DEF FaultStep
<1>5. CASE WorldStep
  <2>1. ~Rollback
    BY DEF Rollback, Slip, SetBack, Happened
  <2> QED
    BY <1>1, <1>5, <2>1, TrueWorld DEF WorldStep
<1> QED
  BY <1>2, <1>3, <1>4, <1>5 DEF Next

LEMMA TrueAlways == Spec => []TrueInv
<1>1. TypeInv /\ KeptInv /\ PlansInv /\ TrueInv /\ [Next]_vars => TrueInv'
  BY TrueNext
<1> QED
  BY <1>1, TrueInit, TypeAlways, KeptAlways, PlansAlways, PTL DEF Spec

-----------------------------------------------------------------------------
(***************************************************************************)
(* Then, while no operation is cut in two: whatever a record, or a run     *)
(* that is to leave one, says of its table is true unless somebody is      *)
(* between the two statements of an operation on it.                       *)
(***************************************************************************)
HalfCut == Happened({"half done", "left running"})
Half(r) == r.todo = <<"insert">> /\ kind.strategy \in TwoSteps
Midway(c) == \E x \in Slots : Catalog(run[x].label) = c /\ Half(run[x])

\* Rows 1 to v are in the table, as soon as nobody is midway.
Up(c, v) == v <= source /\ (table[c].there /\ ~Midway(c) => 1..v \subseteq Present(c))
\* And they will be if the candidate takes the place of main.
Stands(c, v) ==
    /\ Up(c, v)
    /\ cut = {} /\ c = "candidate" => v = 0
    /\ c = "main" /\ table["main"].snap \in cut => Up("candidate", v)
SnapUp(s, v) ==
    s # 0 => s <= snaps /\ \A c \in Catalogs : table[c].snap = s => Up(c, v)
ClaimFine(r) ==
    /\ r.at # "idle" => r.version <= source
    /\ r.at \in {"built", "mark", "end"} => Stands(Catalog(r.label), r.version)
    /\ r.at \in {"adopt", "mark", "end"} => SnapUp(r.snap, r.version)
    /\ r.at = "adopt" => r.snap # 0 /\ Stands(Catalog(r.reuse), r.version)
\* A table somebody is midway on has a snapshot of its own.
MidInv ==
    \A c \in Catalogs : Midway(c) =>
        /\ table["main"].snap # table["candidate"].snap
        /\ c = "main" => table["main"].snap \notin cut
ClaimCore ==
    /\ MidInv /\ late = {}
    /\ \A l \in Labels : /\ Stands(Catalog(l), record[l].version)
                         /\ SnapUp(record[l].snap, record[l].version)
    /\ \A x \in Slots : ClaimFine(run[x])
ClaimInv == SetBack \/ HalfCut \/ ClaimCore

LEMMA HalfCutGrows == [Next]_vars /\ HalfCut => HalfCut'
  BY SlipsStay DEF HalfCut, Happened

LEMMA HalvesAre ==
    /\ \A c : Halves(c) # {} <=> Midway(c)
    /\ \A c : Halves(c) \subseteq {"half done"}
    /\ \A x \in Slots : HalfDone(x) = IF Half(run[x]) THEN {"half done"} ELSE {}
<1>1. \A x \in Slots : HalfDone(x) = IF Half(run[x]) THEN {"half done"} ELSE {}
  BY DEF HalfDone, Half, TwoSteps
<1> QED
  BY <1>1 DEF Halves, Midway

\* A step of one slot, on the side of who is midway.
LEMMA MidwayPut ==
    ASSUME TypeInv, NEW x \in Slots, NEW r \in Run, run' = [run EXCEPT ![x] = r], kind' = kind,
           NEW c \in Catalogs
    PROVE  /\ (Half(run[x]) /\ Catalog(run[x].label) = c => Half(r) /\ Catalog(r.label) = c)
                => (Midway(c) => Midway(c)')
           /\ ~(Half(r) /\ Catalog(r.label) = c) => (Midway(c)' => Midway(c))
           /\ Half(r) /\ Catalog(r.label) = c => Midway(c)'
<1>1. run'[x] = r /\ \A y \in Slots \ {x} : run'[y] = run[y]
  BY PutIs
<1> QED
  BY <1>1 DEF Midway, Half

ClaimsCarry ==
    /\ \A c \in Catalogs, v \in Nat : Stands(c, v) => Stands(c, v)'
    /\ \A s, v \in Nat : SnapUp(s, v) => SnapUp(s, v)'

\* Tables stay, or are written: then there is none, or it is complete, or
\* somebody is midway.
Written(c) ==
    \/ table'[c] = table[c] /\ (Midway(c) => Midway(c)')
    \/ /\ snaps' = snaps + 1 /\ table'[c].snap = snaps + 1
       /\ ~table'[c].there \/ Midway(c)' \/ Present(c)' = 1..source
LEMMA ClaimsGo ==
    ASSUME TypeInv, UNCHANGED <<kind, cut>>, source' \in Nat, source <= source',
           snaps' \in Nat, snaps <= snaps', \A c \in Catalogs : Written(c)
    PROVE  ClaimsCarry
<1>0. /\ source \in Nat /\ snaps \in Nat /\ cut \subseteq 0..snaps
      /\ \A c \in Catalogs : table[c].snap <= snaps /\ table[c].snap \in Nat
  BY SourceIs DEF TypeInv, TypeOK, Table
<1>1. \A c \in Catalogs, v \in Nat : Up(c, v) => Up(c, v)'
  <2> SUFFICES ASSUME NEW c \in Catalogs, NEW v \in Nat, Up(c, v) PROVE Up(c, v)'
    OBVIOUS
  <2>1. v <= source /\ v <= source'
    BY <1>0 DEF Up
  <2>2. 1..v \subseteq 1..source
    BY <1>0, <2>1
  <2>3. table'[c] = table[c] => Present(c)' = Present(c)
    BY DEF Present
  <2> QED
    BY <2>1, <2>2, <2>3 DEF Up, Written
<1>2. \A c \in Catalogs, v \in Nat : Stands(c, v) => Stands(c, v)'
  <2> SUFFICES ASSUME NEW c \in Catalogs, NEW v \in Nat, Stands(c, v) PROVE Stands(c, v)'
    OBVIOUS
  <2>1. table'["main"].snap \in cut => table["main"].snap \in cut
    BY <1>0, CatalogsAre DEF Written
  <2>2. Up(c, v)'
    BY <1>1 DEF Stands
  <2>3. c = "main" /\ table'["main"].snap \in cut => Up("candidate", v)'
    BY <1>1, <2>1, CatalogsAre DEF Stands
  <2> QED
    BY <2>2, <2>3 DEF Stands
<1>3. \A s, v \in Nat : SnapUp(s, v) => SnapUp(s, v)'
  <2> SUFFICES ASSUME NEW s \in Nat, NEW v \in Nat, s # 0, SnapUp(s, v) PROVE SnapUp(s, v)'
    BY DEF SnapUp
  <2>1. s <= snaps /\ s <= snaps'
    BY <1>0 DEF SnapUp
  <2>2. \A c \in Catalogs : table'[c].snap = s => table[c].snap = s
    BY <1>0, <2>1 DEF Written
  <2> QED
    BY <1>1, <2>1, <2>2 DEF SnapUp
<1> QED
  BY <1>2, <1>3 DEF ClaimsCarry

RecordsNext ==
    \A l \in Labels : \/ record'[l] = record[l]
                      \/ /\ Stands(Catalog(l), record[l].version)'
                         /\ SnapUp(record[l].snap, record[l].version)'
LEMMA ClaimRecords ==
    ASSUME TypeInv, ClaimCore, ClaimsCarry, RecordsNext
    PROVE  \A l \in Labels : /\ Stands(Catalog(l), record[l].version)'
                             /\ SnapUp(record[l].snap, record[l].version)'
<1> SUFFICES ASSUME NEW l \in Labels, record'[l] = record[l]
             PROVE  /\ Stands(Catalog(l), record[l].version)'
                    /\ SnapUp(record[l].snap, record[l].version)'
  BY DEF RecordsNext
<1>1. PICK q \in Record : q = record[l]
  BY TypeParts DEF StateType
<1>2. q.version \in Nat /\ q.snap \in Nat
  BY MaxRowsIs DEF Record
<1>3. Stands(Catalog(l), q.version)' /\ SnapUp(q.snap, q.version)'
  BY <1>1, <1>2, CatalogsAre DEF ClaimCore, ClaimsCarry
<1> QED
  BY <1>1, <1>3

LEMMA RunVersion ==
    ASSUME NEW r \in Run
    PROVE  r.version \in Nat /\ r.snap \in Nat /\ r.label \in Labels /\ r.reuse \in Labels
  BY MaxRowsIs DEF Run
LEMMA FineCarries ==
    ASSUME ClaimsCarry, source <= source', source \in Nat, source' \in Nat,
           NEW r \in Run, ClaimFine(r)
    PROVE  ClaimFine(r)'
<1>1. r.at # "idle" => r.version <= source'
  BY RunVersion DEF ClaimFine
<1>2. /\ r.at \in {"built", "mark", "end"} => Stands(Catalog(r.label), r.version)'
      /\ r.at \in {"adopt", "mark", "end"} => SnapUp(r.snap, r.version)'
      /\ r.at = "adopt" => Stands(Catalog(r.reuse), r.version)'
  BY RunVersion, CatalogsAre DEF ClaimFine, ClaimsCarry
<1> QED
  BY <1>1, <1>2 DEF ClaimFine

LEMMA ClaimStep ==
    ASSUME TypeInv, ClaimCore, ClaimsCarry, RecordsNext, MidInv', late' = {},
           source <= source', source' \in Nat,
           NEW x \in Slots, NEW r \in Run, run' = [run EXCEPT ![x] = r], ClaimFine(r)'
    PROVE  ClaimCore'
<1>1. \A y \in Slots : ClaimFine(run[y])'
  <2> SUFFICES ASSUME NEW y \in Slots PROVE ClaimFine(run[y])'
    OBVIOUS
  <2>1. CASE y = x
    <3>1. run'[y] = r
      BY <2>1, PutIs
    <3> QED
      BY <3>1 DEF ClaimFine
  <2>2. CASE y # x
    <3>1. PICK q \in Run : q = run[y]
      BY RunFields DEF TypeInv
    <3>2. ClaimFine(q)'
      BY <3>1, SourceIs, FineCarries DEF ClaimCore
    <3>3. run'[y] = q
      BY <2>2, <3>1, PutIs
    <3> QED
      BY <3>2, <3>3 DEF ClaimFine
  <2> QED
    BY <2>1, <2>2
<1> QED
  BY <1>1, ClaimRecords DEF ClaimCore

\* A step of a run that neither is midway nor will be, and writes no table.
RecordsGiven ==
    \A l \in Labels : \/ record'[l] = record[l]
                      \/ \E q \in Run : /\ record'[l].version = q.version
                                        /\ record'[l].snap = q.snap
                                        /\ Stands(Catalog(l), q.version)
                                        /\ SnapUp(q.snap, q.version)
LEMMA ClaimQuiet ==
    ASSUME TypeInv, ClaimCore, UNCHANGED <<kind, source, tables, cut>>, RecordsGiven, late' = {},
           NEW x \in Slots, NEW r \in Run, run' = [run EXCEPT ![x] = r],
           ~Half(run[x]), ~Half(r), ClaimFine(r)
    PROVE  ClaimCore'
<1>1. \A c \in Catalogs : Midway(c)' <=> Midway(c)
  BY MidwayPut
<1>2. MidInv'
  BY <1>1 DEF MidInv, ClaimCore, tables
<1>3. ClaimsCarry
  <2>1. snaps \in Nat /\ source \in Nat
    BY SourceIs DEF TypeInv, TypeOK
  <2> QED
    BY <1>1, <2>1, ClaimsGo DEF Written, tables
<1>4. source <= source' /\ source' \in Nat /\ source \in Nat
  BY SourceIs
<1>5. ClaimFine(r)'
  BY <1>3, <1>4, FineCarries
<1>6. RecordsNext
  <2> SUFFICES ASSUME NEW l \in Labels, record'[l] # record[l]
               PROVE  /\ Stands(Catalog(l), record[l].version)'
                      /\ SnapUp(record[l].snap, record[l].version)'
    BY DEF RecordsNext
  <2>1. PICK q \in Run : /\ record'[l].version = q.version /\ record'[l].snap = q.snap
                         /\ Stands(Catalog(l), q.version) /\ SnapUp(q.snap, q.version)
    BY DEF RecordsGiven
  <2>2. Stands(Catalog(l), q.version)' /\ SnapUp(q.snap, q.version)'
    BY <1>3, <2>1, RunVersion, CatalogsAre DEF ClaimsCarry
  <2> QED
    BY <2>1, <2>2
<1> QED
  BY <1>2, <1>3, <1>4, <1>5, <1>6, ClaimStep

\* A step of a run that may be midway, and writes the table of its catalog.
LEMMA ClaimWrite ==
    ASSUME TypeInv, KeptCore, ClaimCore, NEW x \in Slots, Executing(x),
           Apply(Does(x), Catalog(run[x].label), run[x].from),
           UNCHANGED <<kind, source, cut, record>>, late' = {},
           NEW r \in Run, run' = [run EXCEPT ![x] = r], Half(r) <=> Does(x) = "delete",
           r.at # "idle" => Kept4(r, run[x]),
           r.at \in {"idle", "work", "built"}, r.at = "idle" => r.todo = <<>>,
           r.at = "built" => Does(x) \notin {"drop", "delete"}
    PROVE  ClaimCore'
<1>1. PICK c \in Catalogs, d \in Statement, n \in 0..MaxRows :
        c = Catalog(run[x].label) /\ d = Does(x) /\ n = run[x].from
  BY DoesIs
<1>2. Shape(c) /\ Kept(c, n)
  BY <1>1, DoesFine DEF KeptCore, WarehouseInv, ShapeInv, Sound
<1>3. /\ table'[c].there <=> d # "drop"
      /\ table'[c].snap = snaps + 1 /\ snaps' = snaps + 1
      /\ Present(c)' = IF d \in {"drop", "delete"} THEN {} ELSE 1..source
      /\ \A e \in Catalogs \ {c} : table'[e] = table[e]
  BY <1>1, <1>2, WrittenIs
<1>4. Half(r) => Catalog(r.label) = c
  <2>1. Half(r) => r.at # "idle"
    BY DEF Half
  <2> QED
    BY <1>1, <2>1 DEF Kept4
<1>5. \A e \in Catalogs \ {c} : Midway(e)' <=> Midway(e)
  BY <1>1, <1>4, MidwayPut
<1>6. d = "delete" => Midway(c)'
  BY <1>1, <1>4, MidwayPut
<1>7. \A e \in Catalogs : Written(e)
  BY <1>3, <1>5, <1>6 DEF Written
<1>0. /\ source \in Nat /\ snaps \in Nat /\ cut \subseteq 0..snaps
      /\ \A e \in Catalogs : table[e].snap <= snaps /\ table[e].snap \in Nat
  BY SourceIs DEF TypeInv, TypeOK, Table
<1>8. ClaimsCarry
  BY <1>0, <1>3, <1>7, ClaimsGo
<1>9. table'["main"].snap # table'["candidate"].snap
  BY <1>0, <1>3, CatalogsAre
<1>10. MidInv'
  <2>1. table'[c].snap \notin cut
    BY <1>0, <1>3
  <2>2. c # "main" /\ Midway("main")' => table'["main"].snap \notin cut
    BY <1>3, <1>5, CatalogsAre DEF MidInv, ClaimCore
  <2> QED
    BY <1>9, <2>1, <2>2, CatalogsAre DEF MidInv
<1>11. run[x].version <= source /\ run[x].version \in Nat /\ run[x] \in Run
  BY RunFields, RunVersion DEF TypeInv, Executing, ClaimCore, ClaimFine
<1>12. ClaimFine(r)'
  <2>1. r.at # "idle" => r.version <= source' /\ Catalog(r.label) = c
    BY <1>1, <1>11 DEF Kept4
  <2>2. r.at = "built" => Stands(c, r.version)'
    <3> SUFFICES ASSUME r.at = "built" PROVE Stands(c, r.version)'
      OBVIOUS
    <3>1. 1..r.version \subseteq 1..source /\ r.version <= source'
      BY <1>0, <1>11, <2>1 DEF Kept4
    <3>2. Up(c, r.version)'
      BY <1>1, <1>3, <3>1 DEF Up
    <3>3. cut = {} => c # "candidate"
      BY <1>1, RunIsFine, CatalogsAre DEF RunFine, Executing
    <3>4. table'[c].snap \notin cut
      BY <1>0, <1>3
    <3> QED
      BY <3>2, <3>3, <3>4 DEF Stands
  <2> QED
    BY <2>1, <2>2 DEF ClaimFine
<1>13. RecordsNext
  BY DEF RecordsNext
<1>14. source <= source' /\ source' \in Nat
  BY <1>0
<1> QED
  BY <1>8, <1>10, <1>12, <1>13, <1>14, ClaimStep

LEMMA NotHalf == ASSUME TypeInv, PlansInv, NEW x \in Slots, run[x].at # "work"
                 PROVE  ~Half(run[x])
<1>1. run[x].at # "adopt" => run[x].todo = <<>>
  BY RunFields DEF TypeInv
<1> QED
  BY <1>1 DEF Half, PlansInv, PlanFine
LEMMA IdleClaims == ClaimFine(Idle) /\ ~Half(Idle)
  BY IdleType DEF ClaimFine, Half

\* What is captured of a table that may be written by others.
LEMMA CaptureUp ==
    ASSUME TypeInv, WarehouseInv, MidInv, NEW c \in Catalogs, NEW v, Up(c, v)
    PROVE  SnapUp(Identity(c), v)
<1>1. Identity(c) # 0 => /\ Identity(c) = table[c].snap /\ table[c].there
                         /\ table[c].snap <= snaps
  BY IdentityIs DEF TypeInv, TypeOK
<1>2. ASSUME Identity(c) # 0, NEW d \in Catalogs, table[d].snap = Identity(c)
      PROVE  Up(d, v)
  <2>1. table[d] = table[c]
    BY <1>1, <1>2, CatalogsAre DEF WarehouseInv, SameInv
  <2>2. d # c => ~Midway(c)
    BY <1>1, <1>2, CatalogsAre DEF MidInv
  <2> QED
    BY <2>1, <2>2 DEF Up, Present
<1> QED
  BY <1>1, <1>2 DEF SnapUp

LEMMA ClaimStart ==
    ASSUME TypeInv, PlansInv, ClaimCore, NEW x \in Slots, NEW l \in Labels,
           NEW forced \in BOOLEAN, Start(x, l, forced)
    PROVE  ClaimCore'
<1>1. PICK r \in Run : run' = [run EXCEPT ![x] = r] /\ Started(r, l)
  BY StartIs
<1>2. UNCHANGED <<kind, source, tables, cut, record, late>> /\ run[x].at = "idle"
  BY DEF Start, state
<1>3. /\ r.at = "work" \/ (r.at = "adopt" /\ Adopts(r, l))
      /\ r.version = source
  BY <1>1 DEF Started, Works, Adopts
<1>4. ~Half(r)
  <2>1. \A g \in BOOLEAN : Whole(g, l) \in BOOLEAN
    BY DEF Whole
  <2>2. PICK g \in BOOLEAN : r.todo = Statements(g)
    BY <1>1, <2>1 DEF Started, Works, Adopts
  <2> QED
    BY <2>2, StatementsPlan DEF Half
<1>5. Adopts(r, l) => /\ r.snap # 0 /\ SnapUp(r.snap, r.version)
                      /\ Stands(Catalog(r.reuse), r.version)
  BY <1>3 DEF Adopts, Adoptable, ClaimCore
<1>6. ClaimFine(r)
  <2>1. source <= source
    BY SourceIs
  <2> QED
    BY <1>3, <1>5, <2>1 DEF ClaimFine
<1> QED
  BY <1>1, <1>2, <1>4, <1>6, NotHalf, ClaimQuiet DEF RecordsGiven, ClaimCore

LEMMA ClaimExecute ==
    ASSUME TypeInv, KeptCore, PlansInv, ClaimCore, NEW x \in Slots, Execute(x)
    PROVE  ClaimCore'
<1>1. /\ Executing(x) /\ run[x].at = "work" /\ run[x].todo # <<>> /\ Plan(run[x].todo)
      /\ UNCHANGED <<kind, source, cut, record>> /\ late' = {}
      /\ Apply(Does(x), Catalog(run[x].label), run[x].from)
  BY DoesIs DEF Execute, Executing, PlansInv, PlanFine, ClaimCore, state
<1>2. PICK r \in Run : r = Done(x)
  BY <1>1, DoneCases
<1>3. run' = [run EXCEPT ![x] = r]
  BY <1>2 DEF Execute
<1>4. /\ Kept4(r, run[x]) /\ r.at \in {"work", "built"} /\ (r.at = "built" => r.todo = <<>>)
      /\ (r.at = "built" => Len(run[x].todo) = 1)
      /\ (r.at = "work" => r.todo = Tail(run[x].todo) /\ Len(run[x].todo) # 1)
  BY <1>1, <1>2, DoneCases
<1>5. Half(r) <=> Does(x) = "delete"
  <2>1. CASE Len(run[x].todo) = 1
    <3>1. Does(x) # "delete"
      BY <1>1, <2>1, PlanCases DEF Does
    <3>2. r.todo = <<>>
      BY <1>4, <2>1
    <3>3. r.todo # <<"insert">>
      BY <3>2
    <3> QED
      BY <3>1, <3>3 DEF Half
  <2>2. CASE run[x].todo = <<"drop", "create">>
    <3>1. Does(x) = "drop" /\ r.todo = <<"create">>
      BY <1>4, <2>2 DEF Does
    <3> QED
      BY <3>1 DEF Half
  <2>3. CASE run[x].todo = <<"delete", "insert">> /\ kind.strategy \in TwoSteps
    <3>1. Does(x) = "delete" /\ r.todo = <<"insert">>
      BY <1>4, <2>3 DEF Does
    <3> QED
      BY <2>3, <3>1 DEF Half
  <2> QED
    BY <1>1, <2>1, <2>2, <2>3, PlanCases
<1>6. r.at = "built" => Does(x) \notin {"drop", "delete"}
  BY <1>1, <1>4, PlanCases DEF Does
<1> QED
  BY <1>1, <1>3, <1>4, <1>5, <1>6, ClaimWrite

LEMMA ClaimFail ==
    ASSUME TypeInv, KeptCore, PlansInv, ClaimCore, ~HalfCut', NEW x \in Slots,
           NEW applied \in BOOLEAN, NEW again \in BOOLEAN, Fail(x, applied, again)
    PROVE  ClaimCore'
<1>1. /\ Executing(x) /\ run[x].at = "work" /\ run[x].version <= source
      /\ UNCHANGED <<kind, source, cut, record>> /\ late' = {}
  BY DEF Fail, Executing, ClaimCore, ClaimFine, state
<1>2. ~Half(run[x]) /\ (applied => Does(x) # "delete")
  BY HalvesAre DEF Fail, Slip, HalfCut, Happened
<1>3. PICK r \in Run :
        /\ run' = [run EXCEPT ![x] = r]
        /\ \/ /\ r.at = "work" /\ Kept4(r, run[x])
              /\ r.todo = IF Does(x) \in {"drop", "create", "replace"}
                          THEN Statements(TRUE) ELSE Statements(FALSE)
           \/ r = Idle
  BY AgainCases
<1>4. ~Half(r) /\ r.at \in {"idle", "work"} /\ (r.at = "idle" => r.todo = <<>>)
      /\ (r.at # "idle" => Kept4(r, run[x]))
  BY <1>3, StatementsPlan, IdleClaims, IdleType DEF Half
<1>5. CASE applied
  BY <1>1, <1>2, <1>3, <1>4, <1>5, ClaimWrite DEF Fail
<1>6. CASE ~applied
  <2>1. UNCHANGED tables
    BY <1>6 DEF Fail
  <2>2. ClaimFine(r)
    BY <1>1, <1>4 DEF ClaimFine, Kept4
  <2> QED
    BY <1>1, <1>2, <1>3, <1>4, <2>1, <2>2, ClaimQuiet DEF RecordsGiven
<1> QED
  BY <1>5, <1>6

LEMMA ClaimEnds ==
    ASSUME TypeInv, PlansInv, ClaimCore, ~HalfCut', NEW x \in Slots,
           \/ Refuse(x) \/ End(x) \/ CopyMark(x) \/ Stop(x)
    PROVE  ClaimCore'
<1>1. /\ run' = [run EXCEPT ![x] = Idle] /\ late' = {}
      /\ UNCHANGED <<kind, source, tables, cut>>
  BY DEF Refuse, End, CopyMark, Stop, ClaimCore
<1>2. ~Half(run[x])
  <2>1. CASE Refuse(x) \/ Stop(x)
    BY <2>1, HalvesAre DEF Refuse, Stop, Slip, HalfCut, Happened
  <2>2. CASE End(x) \/ CopyMark(x)
    BY <2>2, NotHalf DEF End, CopyMark
  <2> QED
    BY <2>1, <2>2
<1>3. RecordsGiven
  <2>1. CASE UNCHANGED record
    BY <2>1 DEF RecordsGiven
  <2>2. CASE End(x)
    <3>1. PICK r \in Run : r = run[x]
      BY RunFields DEF TypeInv
    <3>2. Stands(Catalog(r.label), r.version) /\ SnapUp(r.snap, r.version)
      BY <2>2, <3>1 DEF End, ClaimCore, ClaimFine
    <3>3. record' \in {record, Recorded(r)}
      BY <2>2, <3>1 DEF End
    <3>4. \A l \in Labels : \/ record'[l] = record[l]
                            \/ /\ l = r.label
                               /\ record'[l].version = r.version /\ record'[l].snap = r.snap
      BY <3>3, RecordedCases
    <3> QED
      BY <3>2, <3>4 DEF RecordsGiven
  <2> QED
    BY <2>1, <2>2 DEF Refuse, CopyMark, Stop, state
<1> QED
  BY <1>1, <1>2, <1>3, IdleClaims, IdleFine, ClaimQuiet

LEMMA ClaimCaptures ==
    ASSUME TypeInv, KeptCore, PlansInv, ClaimCore, NEW x \in Slots, Join(x) \/ Drain(x)
    PROVE  ClaimCore'
<1>1. /\ run[x].at = "built" /\ ClaimFine(run[x]) /\ late' = {}
      /\ UNCHANGED <<kind, source, tables, cut, record>>
  BY DEF Join, Drain, state, ClaimCore
<1>2. PICK r \in Run : /\ run' = [run EXCEPT ![x] = r] /\ Kept4(r, run[x]) /\ r.todo = <<>>
                       /\ r.snap = Identity(Catalog(run[x].label))
                       /\ r.at \in {"mark", "end"}
  BY JoinIs, DrainIs
<1>3. SnapUp(r.snap, r.version)
  BY <1>1, <1>2, CatalogsAre, CaptureUp DEF KeptCore, ClaimCore, ClaimFine, Stands, Kept4
<1>4. ClaimFine(r)
  BY <1>1, <1>2, <1>3 DEF ClaimFine, Kept4
<1>5. ~Half(r) /\ ~Half(run[x])
  BY <1>1, <1>2, NotHalf DEF Half
<1> QED
  BY <1>1, <1>2, <1>4, <1>5, ClaimQuiet DEF RecordsGiven

LEMMA ClaimSetMark ==
    ASSUME TypeInv, PlansInv, ClaimCore, NEW x \in Slots, SetMark(x) \/ Finish(x)
    PROVE  ClaimCore'
<1>1. /\ run[x].at \in {"mark", "end"} /\ ClaimFine(run[x]) /\ late' = {}
      /\ UNCHANGED <<kind, source, tables, cut, record>>
  BY DEF SetMark, Finish, ClaimCore
<1>2. PICK r \in Run : /\ run' = [run EXCEPT ![x] = r] /\ Kept4(r, run[x]) /\ r.todo = <<>>
                       /\ r.snap = run[x].snap /\ r.at = "end"
  BY SetMarkIs, FinishIs
<1>3. ClaimFine(r)
  BY <1>1, <1>2 DEF ClaimFine, Kept4
<1>4. ~Half(r) /\ ~Half(run[x])
  BY <1>1, <1>2, NotHalf DEF Half
<1> QED
  BY <1>1, <1>2, <1>3, <1>4, ClaimQuiet DEF RecordsGiven

\* What is adopted stands for the catalog of the run as well.
LEMMA ClaimAdopt ==
    ASSUME TypeInv, KeptCore, PlansInv, ClaimCore, NEW x \in Slots, Adopt(x)
    PROVE  ClaimCore'
<1>1. /\ run[x].at = "adopt" /\ ClaimFine(run[x]) /\ late' = {}
      /\ UNCHANGED <<kind, source, tables, cut>>
  BY DEF Adopt, ClaimCore
<1>2. PICK r \in Run :
        /\ run' = [run EXCEPT ![x] = r]
        /\ \/ /\ r.at = "work" /\ Kept4(r, run[x]) /\ r.todo = run[x].todo
           \/ /\ r.at = "copy" /\ Kept4(r, run[x]) /\ r.todo = <<>>
           \/ r = Idle
  BY AdoptIs
<1>3. ~Half(run[x]) /\ ~Half(r)
  BY <1>1, <1>2, NotHalf, IdleClaims DEF Half
<1>4. ClaimFine(r)
  BY <1>1, <1>2, IdleClaims DEF ClaimFine, Kept4
<1>5. PICK q \in Run : q = run[x]
  BY RunFields DEF TypeInv
<1>6. ASSUME Identity(Catalog(q.label)) = q.snap
      PROVE  Stands(Catalog(q.label), q.version) /\ SnapUp(q.snap, q.version)
  <2> DEFINE c == Catalog(q.label)
  <2>1. SnapUp(q.snap, q.version) /\ q.snap # 0 /\ Stands(Catalog(q.reuse), q.version)
    BY <1>1, <1>5 DEF ClaimFine
  <2>2. table[c].snap = q.snap
    BY <1>6, <2>1, IdentityIs, CatalogsAre DEF TypeInv
  <2>3. Up(c, q.version)
    BY <2>1, <2>2, CatalogsAre DEF SnapUp
  <2>4. cut = {} => c # "candidate"
    BY <1>1, <1>5, RunIsFine, CatalogsAre DEF RunFine
  <2>5. table["main"].snap \in cut => Up("candidate", q.version)
    <3>1. Catalog(q.reuse) \in {"main", "candidate"}
      BY CatalogsAre
    <3> QED
      BY <2>1, <3>1 DEF Stands
  <2> QED
    BY <2>1, <2>3, <2>4, <2>5 DEF Stands
<1>7. \/ Identity(Catalog(q.label)) = q.snap /\ record' = Recorded(q)
      \/ record' = record
  BY <1>5 DEF Adopt
<1>8. \A l \in Labels : \/ record'[l] = record[l]
                        \/ /\ l = q.label /\ Identity(Catalog(q.label)) = q.snap
                           /\ record'[l].version = q.version /\ record'[l].snap = q.snap
  BY <1>7, RecordedCases
<1>9. RecordsGiven
  BY <1>6, <1>8 DEF RecordsGiven
<1> QED
  BY <1>1, <1>2, <1>3, <1>4, <1>9, ClaimQuiet


\* The claims, where the runs and the records stay.
LEMMA ClaimStill ==
    ASSUME TypeInv, ClaimCore, ClaimsCarry, MidInv', UNCHANGED <<run, record, late>>,
           source <= source', source' \in Nat
    PROVE  ClaimCore'
<1>1. \A x \in Slots : ClaimFine(run[x])'
  <2> SUFFICES ASSUME NEW x \in Slots PROVE ClaimFine(run[x])'
    OBVIOUS
  <2>1. PICK q \in Run : q = run[x]
    BY RunFields DEF TypeInv
  <2>2. ClaimFine(q)'
    BY <2>1, SourceIs, FineCarries DEF ClaimCore
  <2>3. run'[x] = q
    BY <2>1
  <2> QED
    BY <2>2, <2>3 DEF ClaimFine
<1>2. RecordsNext
  BY DEF RecordsNext
<1> QED
  BY <1>1, <1>2, ClaimRecords DEF ClaimCore

LEMMA ClaimArrive == ASSUME TypeInv, ClaimCore, Arrive PROVE ClaimCore'
<1>1. /\ UNCHANGED <<kind, cut, table, snaps, run, record, late>> /\ source' = source + 1
      /\ source \in Nat /\ snaps \in Nat
  BY SourceIs DEF Arrive, tables, state, TypeInv, TypeOK
<1>2. \A c : Midway(c)' <=> Midway(c)
  BY <1>1 DEF Midway, Half
<1>3. MidInv'
  BY <1>1, <1>2 DEF MidInv, ClaimCore
<1>4. \A c \in Catalogs : Written(c)
  BY <1>1, <1>2 DEF Written
<1>5. source <= source' /\ source' \in Nat /\ snaps' \in Nat /\ snaps <= snaps'
  BY <1>1
<1>6. ClaimsCarry
  BY <1>1, <1>4, <1>5, ClaimsGo
<1> QED
  BY <1>1, <1>3, <1>5, <1>6, ClaimStill

\* A table is copied to the other catalog, where nobody is midway.
LEMMA ClaimCopied ==
    ASSUME TypeInv, ClaimCore, UNCHANGED <<kind, source, snaps, run, record, late>>,
           \A c \in Catalogs : ~Midway(c), cut' # {}, NEW c \in Catalogs,
           \A d \in Catalogs : table'[d] = table[c],
           \A d \in Catalogs, v \in Nat : Stands(d, v) => Up(c, v) \/ v = 0
    PROVE  ClaimCore'
<1>0. source \in Nat /\ source' = source
  BY SourceIs
<1>1. \A d \in Catalogs : ~Midway(d)'
  BY DEF Midway, Half
<1>2. \A d \in Catalogs : Present(d)' = Present(c)
  BY DEF Present
<1>3. \A d \in Catalogs, v \in Nat : Up(c, v) \/ v = 0 => Up(d, v)'
  <2> SUFFICES ASSUME NEW d \in Catalogs, NEW v \in Nat, Up(c, v) \/ v = 0 PROVE Up(d, v)'
    OBVIOUS
  <2>1. v <= source'
    BY <1>0 DEF Up
  <2>2. table[c].there => 1..v \subseteq Present(c)
    <3>1. 1..0 = {}
      OBVIOUS
    <3> QED
      BY <3>1 DEF Up
  <2> QED
    BY <1>2, <2>1, <2>2 DEF Up
<1>4. \A d \in Catalogs, v \in Nat : Stands(d, v) => Stands(d, v)'
  BY <1>3, CatalogsAre DEF Stands
<1>5. \A s, v \in Nat : SnapUp(s, v) => SnapUp(s, v)'
  BY <1>3 DEF SnapUp
<1>6. MidInv'
  BY <1>1 DEF MidInv
<1> QED
  BY <1>0, <1>4, <1>5, <1>6, ClaimStill DEF ClaimsCarry

LEMMA ClaimCut == ASSUME TypeInv, KeptCore, ClaimCore, ~HalfCut', CutBranch PROVE ClaimCore'
<1>1. /\ cut = {} /\ cut' # {} /\ UNCHANGED <<kind, source, snaps, run, record, late>>
      /\ \A d \in Catalogs : table'[d] = table["main"]
  BY CatalogsAre DEF CutBranch, state, TypeInv, TypeOK
<1>2. ~Midway("main")
  BY HalvesAre DEF CutBranch, Slip, HalfCut, Happened
<1>3. ~Midway("candidate")
  <2> SUFFICES ASSUME NEW x \in Slots, Half(run[x]) PROVE Catalog(run[x].label) = "main"
    BY DEF Midway
  <2>1. run[x].at # "idle"
    <3>1. run[x].todo # <<>>
      BY DEF Half
    <3> QED
      BY <3>1, RunFields DEF TypeInv
  <2> QED
    BY <1>1, <2>1, RunIsFine, CatalogsAre DEF RunFine
<1>4. \A d \in Catalogs, v \in Nat : Stands(d, v) => Up("main", v) \/ v = 0
  BY <1>1, CatalogsAre DEF Stands
<1> QED
  BY <1>1, <1>2, <1>3, <1>4, CatalogsAre, ClaimCopied

LEMMA ClaimPublish == ASSUME TypeInv, ClaimCore, ~HalfCut', Publish PROVE ClaimCore'
<1>1. /\ table["main"].snap \in cut /\ cut' # {}
      /\ UNCHANGED <<kind, source, snaps, run, record, late>>
      /\ \A d \in Catalogs : table'[d] = table["candidate"]
  BY CatalogsAre DEF Publish, state, TypeInv, TypeOK
<1>2. ~Midway("candidate")
  BY HalvesAre DEF Publish, Slip, HalfCut, Happened
<1>3. ~Midway("main")
  BY <1>1, CatalogsAre DEF ClaimCore, MidInv
<1>4. \A d \in Catalogs, v \in Nat : Stands(d, v) => Up("candidate", v) \/ v = 0
  BY <1>1, CatalogsAre DEF Stands
<1> QED
  BY <1>1, <1>2, <1>3, <1>4, CatalogsAre, ClaimCopied

LEMMA ClaimInit == Init => ClaimInv
<1> SUFFICES ASSUME Init PROVE ClaimCore
  BY DEF ClaimInv
<1>0. TypeInv /\ source = 1
  BY TypeInit DEF Init
<1>1. \A x \in Slots : run[x] = Idle
  BY DEF Init
<1>2. \A c : ~Midway(c)
  BY <1>1, IdleClaims DEF Midway
<1>3. \A c \in Catalogs : Up(c, 0) /\ Stands(c, 0)
  <2>1. 1..0 = {} /\ 0 <= source
    BY <1>0
  <2>2. \A c \in Catalogs : Up(c, 0)
    BY <2>1 DEF Up
  <2> QED
    BY <2>2, CatalogsAre DEF Stands
<1>4. \A l \in Labels : record[l].version = 0 /\ record[l].snap = 0
  BY DEF Init, NoRecord
<1> QED
  BY <1>1, <1>2, <1>3, <1>4, IdleClaims, CatalogsAre DEF ClaimCore, MidInv, SnapUp, Init

LEMMA ClaimNext == TypeInv /\ KeptInv /\ PlansInv /\ ClaimInv /\ [Next]_vars => ClaimInv'
<1> SUFFICES ASSUME TypeInv, KeptInv, PlansInv, ClaimInv, [Next]_vars, ~SetBack', ~HalfCut'
             PROVE  ClaimCore'
  BY DEF ClaimInv
<1>1. ClaimCore /\ KeptCore
  BY SlipsGrow, HalfCutGrows DEF ClaimInv, KeptInv, KeptCore
<1>2. CASE UNCHANGED vars
  <2>1. /\ UNCHANGED <<kind, source, table, snaps, cut, record, run, late>>
        /\ \A c : Present(c)' = Present(c)
    BY <1>2 DEF vars, tables, state, Present
  <2>2. \A c : Midway(c)' <=> Midway(c)
    BY <2>1 DEF Midway, Half
  <2>3. \A c, v : Up(c, v)' <=> Up(c, v)
    BY <2>1, <2>2 DEF Up
  <2>4. \A c, v : (Stands(c, v)' <=> Stands(c, v)) /\ (SnapUp(c, v)' <=> SnapUp(c, v))
    BY <2>1, <2>3 DEF Stands, SnapUp
  <2> QED
    BY <1>1, <2>1, <2>2, <2>4 DEF ClaimCore, MidInv, ClaimFine
<1>3. CASE RunStep
  BY <1>1, <1>3, ClaimStart, ClaimExecute, ClaimEnds, ClaimCaptures, ClaimSetMark, ClaimAdopt
     DEF RunStep
<1>4. CASE FaultStep
  <2>1. \A x \in Slots : ~Abandon(x)
    BY DEF Abandon, Slip, HalfCut, Happened
  <2>2. late = {}
    BY <1>1 DEF ClaimCore
  <2> QED
    BY <1>1, <1>4, <2>1, <2>2, ClaimFail, ClaimEnds, ClaimCaptures DEF FaultStep
<1>5. CASE WorldStep
  <2>1. ~Rollback
    BY DEF Rollback, Slip, SetBack, Happened
  <2> QED
    BY <1>1, <1>5, <2>1, ClaimArrive, ClaimCut, ClaimPublish DEF WorldStep
<1> QED
  BY <1>2, <1>3, <1>4, <1>5 DEF Next

LEMMA ClaimAlways == Spec => []ClaimInv
<1>1. TypeInv /\ KeptInv /\ PlansInv /\ ClaimInv /\ [Next]_vars => ClaimInv'
  BY ClaimNext
<1> QED
  BY <1>1, ClaimInit, TypeAlways, KeptAlways, PlansAlways, PTL DEF Spec

\* A model the planner would leave unbuilt has every row there was when its
\* recorded version was compiled, unless an operation of two statements was cut
\* in two, or somebody is between the two; and then only where the record has
\* no identity to compare, or runs were beside each other.
THEOREM SkippedIsCompleteHolds == Spec => []SkippedIsComplete
<1>1. TypeInv /\ StampInv /\ TrueInv /\ ClaimInv => SkippedIsComplete
  <2> SUFFICES ASSUME TypeInv, StampInv, TrueInv, ClaimInv, ~SetBack, NEW l \in Labels, Unchanged(l),
                      ~(1..source \subseteq Present(Catalog(l)))
               PROVE  /\ Current(l).snap = 0 \/ Crowded
                      /\ HalfCut \/ Halves(Catalog(l)) # {}
    BY DEF SkippedIsComplete, SetBack, Crowded, HalfCut
  <2>1. PICK k \in Labels : Current(l) = record[k] /\ Catalog(k) = Catalog(l)
    BY CurrentIs
  <2>2. PICK c \in Catalogs : c = Catalog(l)
    BY CatalogsAre
  <2>3. /\ table[c].there /\ record[k].version = source
        /\ record[k].snap # 0 => Identity(c) = record[k].snap
    BY <2>1, <2>2 DEF Unchanged
  <2>4. Current(l).snap = 0 \/ Crowded
    <3> SUFFICES ASSUME record[k].snap # 0, ~Crowded PROVE FALSE
      BY <2>1
    <3>1. Tells(record[k].snap, source)
      BY <2>3 DEF TrueInv, TrueCore
    <3>2. table[c].snap = record[k].snap
      BY <2>3, IdentityIs DEF TypeInv
    <3> QED
      BY <2>2, <3>1, <3>2 DEF Tells
  <2>5. HalfCut \/ Midway(c)
    <3> SUFFICES ASSUME ~HalfCut PROVE Midway(c)
      OBVIOUS
    <3>1. Stands(c, source)
      BY <2>1, <2>2, <2>3 DEF ClaimInv, ClaimCore
    <3> QED
      BY <2>2, <2>3, <3>1 DEF Stands, Up
  <2> QED
    BY <2>2, <2>4, <2>5, HalvesAre
<1> QED
  BY <1>1, TypeAlways, StampAlways, TrueAlways, ClaimAlways, PTL

-----------------------------------------------------------------------------
(***************************************************************************)
(* No row is there twice.  First what holds of any table there is, main as *)
(* it was before its last commit included: it has rows of the source only, *)
(* and what has one snapshot is one table.                                 *)
(***************************************************************************)
Contents == {table[c] : c \in Catalogs} \cup {before}
Upto(t, v) == \A n \in Rows : n > v => t.rows[n] = 0
CopyInv ==
    /\ \A t \in Contents : Upto(t, source) /\ (~t.there => Upto(t, 0))
    /\ \A t, u \in Contents : t.snap = u.snap => t = u

LEMMA ContentsAre ==
    ASSUME TypeInv
    PROVE  /\ \A t \in Contents : t \in Table /\ t.snap \in Nat /\ t.snap <= snaps
           /\ \A c \in Catalogs : table[c] \in Contents
           /\ before \in Contents /\ "main" \in Catalogs /\ "candidate" \in Catalogs
  BY DEF TypeInv, TypeOK, Contents, Table, Catalogs

LEMMA CountsAre ==
    ASSUME TypeInv, NEW t \in Contents, NEW n \in Rows
    PROVE  t.rows[n] \in 0..2 /\ n \in Nat /\ n > 0
<1>1. t \in Table
  BY ContentsAre
<1> QED
  BY <1>1, MaxRowsIs DEF Table, Held, Rows

\* What a statement makes of a table, and of the contents there are.
LEMMA MadeIs ==
    ASSUME TypeInv, NEW does \in Statement, NEW c \in Catalogs, NEW n, Apply(does, c, n)
    PROVE  /\ table'[c].snap = snaps + 1 /\ snaps' = snaps + 1
           /\ table'[c].there <=> does # "drop"
           /\ \A k \in Rows : table'[c].rows[k] = Makes(does, table[c].rows[k], k, n)
           /\ \A d \in Catalogs \ {c} : table'[d] = table[d]
           /\ before' = IF c = "main" THEN table["main"] ELSE before
           /\ Contents' \subseteq Contents \cup {table'[c]}
<1>0. table \in [Catalogs -> Table]
  BY DEF TypeInv, TypeOK
<1>1. /\ snaps' = snaps + 1 /\ \A d \in Catalogs \ {c} : table'[d] = table[d]
      /\ before' = IF c = "main" THEN table["main"] ELSE before
  BY <1>0 DEF Apply
<1>2. /\ table'[c].snap = snaps + 1 /\ (table'[c].there <=> does # "drop")
      /\ \A k \in Rows : table'[c].rows[k] = Makes(does, table[c].rows[k], k, n)
  <2>1. CASE does = "drop"
    <3>1. table'[c] = [Absent EXCEPT !.snap = snaps + 1]
      BY <1>0, <2>1 DEF Apply
    <3> QED
      BY <2>1, <3>1 DEF Absent, Makes
  <2>2. CASE does # "drop"
    BY <1>0, <2>2 DEF Apply
  <2> QED
    BY <2>1, <2>2
<1>3. Contents' \subseteq Contents \cup {table'[c]}
  BY <1>1 DEF Contents, Catalogs
<1> QED
  BY <1>1, <1>2, <1>3

\* A statement leaves a table of its own.
LEMMA NewIsOwn ==
    ASSUME TypeInv, NEW does \in Statement, NEW c \in Catalogs, NEW n, Apply(does, c, n),
           NEW t \in Contents'
    PROVE  (t \in Contents /\ t.snap <= snaps) \/ (t = table'[c] /\ t.snap > snaps)
<1>1. snaps \in Nat
  BY DEF TypeInv, TypeOK
<1> QED
  BY <1>1, MadeIs, ContentsAre

LEMMA CopyApply ==
    ASSUME TypeInv, CopyInv, source' = source,
           NEW does \in Statement, NEW c \in Catalogs, NEW n \in 0..MaxRows, Apply(does, c, n)
    PROVE  CopyInv'
<1>0. source \in Nat /\ table[c] \in Contents
  BY SourceIs, ContentsAre
<1>1. \A k \in Rows : k > source => table'[c].rows[k] = 0
  <2> SUFFICES ASSUME NEW k \in Rows, k > source PROVE table'[c].rows[k] = 0
    OBVIOUS
  <2>1. table[c].rows[k] = 0 /\ k \in Nat
    BY <1>0, CountsAre DEF CopyInv, Upto
  <2>2. table'[c].rows[k] = Makes(does, 0, k, n)
    BY <2>1, MadeIs
  <2> QED
    BY <1>0, <2>1, <2>2 DEF Makes, Statement
<1>2. ~table'[c].there => \A k \in Rows : table'[c].rows[k] = 0
  BY MadeIs DEF Makes
<1>3. \A t \in Contents' : \A k \in Rows : /\ k > source => t.rows[k] = 0
                                           /\ ~t.there /\ k > 0 => t.rows[k] = 0
  BY <1>1, <1>2, MadeIs DEF CopyInv, Upto
<1>4. \A t, u \in Contents' : t.snap = u.snap => t = u
  <2> SUFFICES ASSUME NEW t \in Contents', NEW u \in Contents', t.snap = u.snap PROVE t = u
    OBVIOUS
  <2>1. /\ (t \in Contents /\ t.snap <= snaps) \/ (t = table'[c] /\ t.snap > snaps)
        /\ (u \in Contents /\ u.snap <= snaps) \/ (u = table'[c] /\ u.snap > snaps)
        /\ snaps \in Nat /\ snaps' = snaps + 1 /\ table'[c].snap = snaps + 1
    BY NewIsOwn, MadeIs DEF TypeInv, TypeOK
  <2> QED
    BY <2>1, ContentsAre DEF CopyInv
<1> QED
  BY <1>3, <1>4 DEF CopyInv, Upto

LEMMA CopyStays ==
    ASSUME TypeInv, CopyInv, Contents' \subseteq Contents, source <= source', source' \in Nat
    PROVE  CopyInv'
<1>1. \A t \in Contents' : \A k \in Rows : k > source' => t.rows[k] = 0
  <2> SUFFICES ASSUME NEW t \in Contents', NEW k \in Rows, k > source' PROVE t.rows[k] = 0
    OBVIOUS
  <2>1. k > source
    BY CountsAre, SourceIs
  <2> QED
    BY <2>1 DEF CopyInv, Upto
<1> QED
  BY <1>1 DEF CopyInv, Upto

\* A step writes one table, by a statement somebody is at or that was left
\* running, or shows no other contents than there were.
Doing(does, c, n) ==
    \/ \E x \in Slots : /\ Executing(x) /\ does = Does(x)
                        /\ c = Catalog(run[x].label) /\ n = run[x].from
    \/ \E s \in late : does = s.does /\ c = s.catalog /\ n = s.from
Writes(does, c, n) == /\ does \in Statement /\ c \in Catalogs /\ n \in 0..MaxRows
                      /\ Doing(does, c, n)
                      /\ Apply(does, c, n) /\ source' = source /\ kind' = kind
LEMMA StepWrites ==
    ASSUME TypeInv, [Next]_vars
    PROVE  /\ kind' = kind /\ source <= source' /\ source' \in Nat
           /\ \/ \E does, c, n : Writes(does, c, n)
              \/ Contents' \subseteq Contents /\ snaps' = snaps
<1>0. source \in Nat
  BY SourceIs
<1>1. ASSUME UNCHANGED <<kind, source, tables>>
      PROVE  /\ kind' = kind /\ source <= source' /\ source' \in Nat
             /\ Contents' \subseteq Contents /\ snaps' = snaps
  BY <1>0, <1>1 DEF tables, Contents
<1>2. CASE UNCHANGED vars
  BY <1>1, <1>2 DEF vars
<1>3. CASE RunStep
  <2>1. ASSUME NEW x \in Slots, Execute(x)
        PROVE  Writes(Does(x), Catalog(run[x].label), run[x].from)
    BY <2>1, DoesIs DEF Execute, Writes, Doing
  <2>2. ASSUME NEW x \in Slots,
               \/ \E l \in Labels, forced \in BOOLEAN : Start(x, l, forced)
               \/ Refuse(x) \/ Join(x) \/ SetMark(x) \/ Finish(x) \/ End(x) \/ Adopt(x)
               \/ CopyMark(x)
        PROVE  UNCHANGED <<kind, source, tables>>
    BY <2>2 DEF Start, Refuse, Join, SetMark, Finish, End, Adopt, CopyMark
  <2> QED
    BY <1>0, <1>1, <1>3, <2>1, <2>2 DEF RunStep, Writes
<1>4. CASE FaultStep
  <2>1. ASSUME NEW x \in Slots, NEW applied \in BOOLEAN, NEW again \in BOOLEAN,
               Fail(x, applied, again)
        PROVE  \/ Writes(Does(x), Catalog(run[x].label), run[x].from)
               \/ UNCHANGED <<kind, source, tables>>
    BY <2>1, DoesIs DEF Fail, Writes, Doing
  <2>2. ASSUME NEW x \in Slots, Abandon(x) \/ Drain(x) \/ Stop(x)
        PROVE  UNCHANGED <<kind, source, tables>>
    BY <2>2 DEF Abandon, Drain, Stop
  <2>3. ASSUME NEW s \in late, ExecuteLate(s) PROVE Writes(s.does, s.catalog, s.from)
    BY <2>3, LateIs DEF ExecuteLate, Writes, Late, Doing
  <2> QED
    BY <1>0, <1>1, <1>4, <2>1, <2>2, <2>3 DEF FaultStep, Writes
<1>5. CASE WorldStep
  <2>1. table \in [Catalogs -> Table]
    BY DEF TypeInv, TypeOK
  <2>2. /\ kind' = kind /\ snaps' = snaps /\ source' \in {source, source + 1}
        /\ Contents' \subseteq Contents
    BY <1>5, <2>1 DEF WorldStep, Arrive, CutBranch, Publish, Rollback, tables, Contents, Catalogs
  <2> QED
    BY <1>0, <2>2
<1> QED
  BY <1>2, <1>3, <1>4, <1>5 DEF Next

LEMMA CopyNext == TypeInv /\ CopyInv /\ [Next]_vars => CopyInv'
<1> SUFFICES ASSUME TypeInv, CopyInv, [Next]_vars PROVE CopyInv'
  OBVIOUS
<1>1. ASSUME NEW does, NEW c, NEW n, Writes(does, c, n) PROVE CopyInv'
  BY <1>1, CopyApply DEF Writes
<1>2. ASSUME Contents' \subseteq Contents PROVE CopyInv'
  BY <1>2, StepWrites, CopyStays
<1> QED
  BY <1>1, <1>2, StepWrites

LEMMA CopyInit == Init => CopyInv
<1> SUFFICES ASSUME Init PROVE CopyInv
  OBVIOUS
<1>1. \A t \in Contents : t = Absent
  BY DEF Init, Contents
<1>2. \A n \in Rows : Absent.rows[n] = 0
  BY DEF Absent
<1> QED
  BY <1>1, <1>2 DEF CopyInv, Upto

LEMMA CopyAlways == Spec => []CopyInv
<1>1. TypeInv /\ CopyInv /\ [Next]_vars => CopyInv'
  BY CopyNext
<1> QED
  BY <1>1, CopyInit, TypeAlways, PTL DEF Spec

Once(t) == \A n \in Rows : t.rows[n] <= 1
AllOnce == \A t \in Contents : Once(t)

\* Only an insertion can repeat a row: one above its bound.
LEMMA OnceStep ==
    ASSUME TypeInv, AllOnce, [Next]_vars,
           \A c \in Catalogs, n \in 0..MaxRows :
               Doing("insert", c, n) => \A k \in Rows : k > n => table[c].rows[k] = 0
    PROVE  AllOnce'
<1>1. ASSUME NEW does, NEW c, NEW n, Writes(does, c, n) PROVE AllOnce'
  <2>0. /\ does \in Statement /\ c \in Catalogs /\ n \in 0..MaxRows /\ Apply(does, c, n)
        /\ source' = source /\ table[c] \in Contents
    BY <1>1, ContentsAre DEF Writes
  <2>1. ASSUME NEW k \in Rows PROVE table'[c].rows[k] <= 1
    <3>1. /\ table[c].rows[k] \in 0..2 /\ table[c].rows[k] <= 1 /\ k \in Nat
          /\ table'[c].rows[k] = Makes(does, table[c].rows[k], k, n)
      BY <2>0, CountsAre, MadeIs DEF AllOnce, Once
    <3>2. CASE does = "insert"
      <4>1. k > n => table[c].rows[k] = 0
        BY <1>1, <2>0, <3>2 DEF Writes
      <4>2. table'[c].rows[k] = IF k \in n + 1..source THEN Least(table[c].rows[k] + 1, 2)
                                ELSE table[c].rows[k]
        BY <3>1, <3>2 DEF Makes
      <4>3. n \in Nat /\ source \in Nat
        BY <2>0, SourceIs, MaxRowsIs
      <4> QED
        BY <3>1, <4>1, <4>2, <4>3 DEF Least
    <3>3. CASE does # "insert"
      BY <2>0, <3>1, <3>3 DEF Makes, Statement
    <3> QED
      BY <3>2, <3>3
  <2> QED
    BY <2>0, <2>1, MadeIs DEF AllOnce, Once
<1>2. ASSUME Contents' \subseteq Contents PROVE AllOnce'
  BY <1>2 DEF AllOnce, Once
<1> QED
  BY <1>1, <1>2, StepWrites

LEMMA OnceInit == Init => AllOnce
<1> SUFFICES ASSUME Init PROVE AllOnce
  OBVIOUS
<1>1. \A t \in Contents : t = Absent
  BY DEF Init, Contents
<1>2. \A n \in Rows : Absent.rows[n] = 0
  BY DEF Absent
<1> QED
  BY <1>1, <1>2 DEF AllOnce, Once

\* Who is at an insertion has nothing else left to do.
LEMMA InsertIs ==
    ASSUME TypeInv, PlansInv, NEW x \in Slots, Executing(x), Does(x) = "insert"
    PROVE  run[x].todo = <<"insert">> /\ ~OneStatement
<1>1. Plan(run[x].todo) /\ run[x].todo # <<>>
  BY DoesIs DEF PlansInv, PlanFine
<1> QED
  BY <1>1, PlanCases DEF Does, Plan

\* A key that is merged never repeats a row, whoever is beside.
MergedInv == OneStatement => AllOnce
LEMMA MergedAlways == Spec => []MergedInv
<1>1. Init => MergedInv
  BY OnceInit DEF MergedInv
<1>2. TypeInv /\ PlansInv /\ MergedInv /\ [Next]_vars => MergedInv'
  <2> SUFFICES ASSUME TypeInv, PlansInv, MergedInv, [Next]_vars, OneStatement' PROVE AllOnce'
    BY DEF MergedInv
  <2>1. OneStatement /\ AllOnce
    BY StepWrites DEF MergedInv, OneStatement
  <2>2. \A c, n : ~Doing("insert", c, n)
    BY <2>1, InsertIs DEF Doing, PlansInv
  <2> QED
    BY <2>1, <2>2, OnceStep
<1> QED
  BY <1>1, <1>2, TypeAlways, PlansAlways, PTL DEF Spec

\* Nobody runs in the candidate, and no watermark is left there, before it is
\* cut.
Unread(l) == mark[l].value = 0 /\ \A x \in Slots : run[x].at = "idle" \/ run[x].label # l
UnreadInv == cut = {} => \A l \in Labels \ Shared : Unread(l)

LEMMA UnreadPut ==
    ASSUME TypeInv, UnreadInv, cut' = cut, NEW x \in Slots, NEW r \in Run,
           run' = [run EXCEPT ![x] = r], r.at = "idle" \/ r.label \in Shared \/ cut # {},
           \A l \in Labels : \/ mark'[l] = mark[l]
                             \/ l \in Shared \/ cut # {}
    PROVE  UnreadInv'
<1>1. run'[x] = r /\ \A y \in Slots \ {x} : run'[y] = run[y]
  BY PutIs
<1> QED
  BY <1>1 DEF UnreadInv, Unread

LEMMA UnreadNext == TypeInv /\ UnreadInv /\ [Next]_vars => UnreadInv'
<1> SUFFICES ASSUME TypeInv, UnreadInv, [Next]_vars PROVE UnreadInv'
  OBVIOUS
<1>1. CASE run' = run /\ mark' = mark /\ (cut' = {} => cut = {})
  BY <1>1 DEF UnreadInv, Unread
<1>2. ASSUME NEW x \in Slots, run[x].at # "idle"
      PROVE  run[x].label \in Shared \/ cut # {}
  BY <1>2, RunFields DEF TypeInv, UnreadInv, Unread
<1>3. ASSUME NEW x \in Slots, NEW r \in Run, run' = [run EXCEPT ![x] = r],
             r.at = "idle" \/ r.label \in Shared \/ cut # {}, mark' = mark, cut' = cut
      PROVE  UnreadInv'
  BY <1>3, UnreadPut
<1>4. ASSUME NEW x \in Slots, NEW l \in Labels, NEW forced \in BOOLEAN, Start(x, l, forced)
      PROVE  UnreadInv'
  <2>1. PICK r \in Run : run' = [run EXCEPT ![x] = r] /\ Started(r, l)
    BY <1>4, StartIs
  <2>2. r.label = l /\ (l \in Shared \/ cut # {}) /\ mark' = mark /\ cut' = cut
    BY <1>4, <2>1 DEF Started, Start, state
  <2> QED
    BY <1>3, <2>1, <2>2
<1>5. ASSUME NEW x \in Slots, Execute(x) PROVE UnreadInv'
  <2>1. Executing(x) /\ run[x].at # "idle" /\ mark' = mark /\ cut' = cut
    BY <1>5 DEF Execute, Executing, state
  <2>2. PICK r \in Run : r = Done(x) /\ r.label = run[x].label
    BY <2>1, DoneCases DEF Kept4
  <2>3. run' = [run EXCEPT ![x] = r]
    BY <1>5, <2>2 DEF Execute
  <2> QED
    BY <1>2, <1>3, <2>1, <2>2, <2>3
<1>6. ASSUME NEW x \in Slots, NEW applied \in BOOLEAN, NEW again \in BOOLEAN,
             Fail(x, applied, again)
      PROVE  UnreadInv'
  <2>1. run[x].at # "idle" /\ mark' = mark /\ cut' = cut
    BY <1>6 DEF Fail, Executing, state
  <2>2. PICK r \in Run : run' = [run EXCEPT ![x] = r] /\ (r.label = run[x].label \/ r = Idle)
    BY <1>6, AgainCases DEF Kept4
  <2> QED
    BY <1>2, <1>3, <2>1, <2>2, IdleType
<1>7. ASSUME NEW x \in Slots, \/ Refuse(x) \/ End(x) \/ Stop(x) \/ Abandon(x) PROVE UnreadInv'
  BY <1>3, <1>7, IdleType DEF Refuse, End, Stop, Abandon, state
<1>8. ASSUME NEW x \in Slots, Join(x) \/ Drain(x) \/ Finish(x) PROVE UnreadInv'
  <2>1. run[x].at # "idle" /\ mark' = mark /\ cut' = cut
    BY <1>8 DEF Join, Drain, Finish, state
  <2>2. PICK r \in Run : run' = [run EXCEPT ![x] = r] /\ r.label = run[x].label
    BY <1>8, JoinIs, DrainIs, FinishIs DEF Kept4
  <2> QED
    BY <1>2, <1>3, <2>1, <2>2
<1>9. ASSUME NEW x \in Slots, Adopt(x) PROVE UnreadInv'
  <2>1. run[x].at # "idle" /\ mark' = mark /\ cut' = cut
    BY <1>9 DEF Adopt
  <2>2. PICK r \in Run : run' = [run EXCEPT ![x] = r] /\ (r.label = run[x].label \/ r = Idle)
    BY <1>9, AdoptIs DEF Kept4
  <2> QED
    BY <1>2, <1>3, <2>1, <2>2, IdleType
<1>10. ASSUME NEW x \in Slots, NEW n, NEW b, mark' = mark \/ mark' = Later(run[x].label, n, b)
       PROVE  \A l \in Labels : mark'[l] = mark[l] \/ l = run[x].label
  BY <1>10, TypeParts DEF Later, StateType
<1>11. ASSUME NEW x \in Slots, SetMark(x) PROVE UnreadInv'
  <2>1. run[x].at # "idle" /\ cut' = cut
    BY <1>11 DEF SetMark
  <2>2. PICK r \in Run : run' = [run EXCEPT ![x] = r] /\ r.label = run[x].label
    BY <1>11, SetMarkIs DEF Kept4
  <2>3. \A l \in Labels : mark'[l] = mark[l] \/ l = run[x].label
    BY <1>10, <1>11 DEF SetMark
  <2> QED
    BY <1>2, <2>1, <2>2, <2>3, UnreadPut
<1>12. ASSUME NEW x \in Slots, CopyMark(x) PROVE UnreadInv'
  <2>1. run[x].at # "idle" /\ cut' = cut /\ run' = [run EXCEPT ![x] = Idle]
    BY <1>12 DEF CopyMark
  <2>2. \A l \in Labels : mark'[l] = mark[l] \/ l = run[x].label
    BY <1>10, <1>12 DEF CopyMark
  <2> QED
    BY <1>2, <2>1, <2>2, IdleType, UnreadPut
<1>13. CASE UNCHANGED vars
  BY <1>1, <1>13 DEF vars, state
<1>14. CASE RunStep
  BY <1>4, <1>5, <1>7, <1>8, <1>9, <1>11, <1>12, <1>14 DEF RunStep
<1>15. CASE FaultStep
  <2>1. ASSUME NEW s \in late, ExecuteLate(s) PROVE UnreadInv'
    BY <1>1, <2>1 DEF ExecuteLate, state
  <2> QED
    BY <1>6, <1>7, <1>8, <1>15, <2>1 DEF FaultStep
<1>16. CASE WorldStep
  BY <1>1, <1>16 DEF WorldStep, Arrive, CutBranch, Publish, Rollback, state
<1> QED
  BY <1>13, <1>14, <1>15, <1>16 DEF Next

LEMMA UnreadAlways == Spec => []UnreadInv
<1>1. Init => UnreadInv
  BY IdleType DEF Init, UnreadInv, Unread, NoMark
<1>2. TypeInv /\ UnreadInv /\ [Next]_vars => UnreadInv'
  BY UnreadNext
<1> QED
  BY <1>1, <1>2, TypeAlways, PTL DEF Spec

\* Who has deleted is alone, and has left nothing to be repeated.
EmptyFine(r) == Half(r) => Upto(table[Catalog(r.label)], 0)
EmptiedCore == Lone /\ late = {} /\ AllOnce /\ \A x \in Slots : EmptyFine(run[x])
EmptiedInv == kind.strategy \in TwoSteps => Crowded \/ EmptiedCore

LEMMA EmptyIdle == EmptyFine(Idle)'
<1>1. Idle.todo # <<"insert">>
  <2>1. <<>> # <<"insert">>
    OBVIOUS
  <2> QED
    BY <2>1, IdleType
<1> QED
  BY <1>1 DEF EmptyFine, Half

LEMMA EmptyPut ==
    ASSUME TypeInv, EmptiedCore, NEW x \in Slots, NEW r \in Run,
           run' = [run EXCEPT ![x] = r], run[x].at # "idle" \/ Beside = {},
           EmptyFine(r)', kind' = kind
    PROVE  Lone' /\ \A y \in Slots : EmptyFine(run[y])'
<1>1. Lone'
  BY LoneStays DEF EmptiedCore
<1>2. \A y \in Slots \ {x} : run'[y] = run[y] /\ run[y].at = "idle"
  BY PutIs DEF EmptiedCore, Lone, Beside
<1>3. \A y \in Slots \ {x} : run'[y].todo = <<>>
  BY <1>2, RunFields DEF TypeInv
<1>4. \A y \in Slots \ {x} : EmptyFine(run[y])'
  BY <1>3 DEF EmptyFine, Half
<1>5. run'[x] = r
  BY PutIs
<1>6. EmptyFine(run[x])'
  BY <1>5 DEF EmptyFine, Half
<1> QED
  BY <1>1, <1>4, <1>6

LEMMA EmptyExecute ==
    ASSUME TypeInv, PlansInv, CopyInv, EmptiedCore, NEW x \in Slots, Execute(x)
    PROVE  Lone' /\ \A y \in Slots : EmptyFine(run[y])'
<1>1. /\ Executing(x) /\ run[x].at = "work" /\ run[x].todo # <<>> /\ Plan(run[x].todo)
      /\ Apply(Does(x), Catalog(run[x].label), run[x].from) /\ kind' = kind /\ source' = source
  BY DoesIs DEF Execute, Executing, PlansInv, PlanFine
<1>2. PICK r \in Run : r = Done(x)
  BY <1>1, DoneCases
<1>3. PICK c \in Catalogs : c = Catalog(run[x].label)
  BY CatalogsAre
<1>4. Kept4(r, run[x]) /\ (r.todo = <<>> \/ (r.todo = Tail(run[x].todo) /\ Len(run[x].todo) # 1))
  BY <1>1, <1>2, DoneCases
<1>5. Half(r) => Does(x) = "delete"
  <2>1. CASE Len(run[x].todo) = 1
    <3>1. r.todo = <<>>
      BY <1>4, <2>1
    <3>2. r.todo # <<"insert">>
      BY <3>1
    <3> QED
      BY <3>2 DEF Half
  <2>2. CASE Tail(run[x].todo) = <<"create">>
    <3>1. <<>> # <<"insert">> /\ <<"create">> # <<"insert">>
      OBVIOUS
    <3> QED
      BY <1>4, <2>2, <3>1 DEF Half
  <2> QED
    BY <1>1, <2>1, <2>2, PlanCases DEF Does
<1>6. Does(x) = "delete" => \A k \in Rows : table'[c].rows[k] = 0
  <2> SUFFICES ASSUME Does(x) = "delete", NEW k \in Rows PROVE table'[c].rows[k] = 0
    OBVIOUS
  <2>1. table'[c].rows[k] = Makes("delete", table[c].rows[k], k, run[x].from)
    BY <1>1, <1>3, MadeIs DEF Statement
  <2>2. k > source => table[c].rows[k] = 0
    BY ContentsAre DEF CopyInv, Upto
  <2>3. k \in Nat /\ source \in Nat
    BY CountsAre, ContentsAre, SourceIs
  <2> QED
    BY <2>1, <2>2, <2>3 DEF Makes
<1>7. EmptyFine(r)'
  BY <1>1, <1>3, <1>4, <1>5, <1>6 DEF EmptyFine, Half, Upto, Kept4
<1>8. run' = [run EXCEPT ![x] = r]
  BY <1>2 DEF Execute
<1> QED
  BY <1>1, <1>7, <1>8, EmptyPut

LEMMA EmptyRuns ==
    ASSUME TypeInv, PlansInv, EmptiedCore, kind.strategy \in TwoSteps, ~Crowded',
           NEW x \in Slots,
           \/ \E l \in Labels, forced \in BOOLEAN : Start(x, l, forced)
           \/ \E applied, again \in BOOLEAN : Fail(x, applied, again)
           \/ Refuse(x) \/ Join(x) \/ SetMark(x) \/ Finish(x) \/ End(x) \/ Adopt(x)
           \/ CopyMark(x) \/ Drain(x) \/ Stop(x)
    PROVE  Lone' /\ \A y \in Slots : EmptyFine(run[y])'
<1>1. ASSUME NEW r \in Run, run' = [run EXCEPT ![x] = r], r.todo # <<"insert">>, kind' = kind,
             run[x].at # "idle" \/ Beside = {}
      PROVE  Lone' /\ \A y \in Slots : EmptyFine(run[y])'
  <2>1. EmptyFine(r)'
    BY <1>1 DEF EmptyFine, Half
  <2> QED
    BY <1>1, <2>1, EmptyPut
<1>2. \A f \in BOOLEAN : Statements(f) # <<"insert">>
  BY StatementsPlan
<1>3. <<>> # <<"insert">>
  OBVIOUS
<1>4. ASSUME NEW l \in Labels, NEW forced \in BOOLEAN, Start(x, l, forced)
      PROVE  Lone' /\ \A y \in Slots : EmptyFine(run[y])'
  <2>1. PICK r \in Run : run' = [run EXCEPT ![x] = r] /\ Started(r, l)
    BY <1>4, StartIs
  <2>2. PICK f \in BOOLEAN : r.todo = Statements(f)
    BY <2>1, StartPlans
  <2>3. Beside = {} /\ kind' = kind
    BY <1>4 DEF Start, Slip, Beside, Crowded, Happened
  <2> QED
    BY <1>1, <1>2, <2>1, <2>2, <2>3
<1>5. ASSUME NEW applied \in BOOLEAN, NEW again \in BOOLEAN, Fail(x, applied, again)
      PROVE  Lone' /\ \A y \in Slots : EmptyFine(run[y])'
  <2>1. PICK r \in Run : /\ run' = [run EXCEPT ![x] = r]
                         /\ \/ r.todo \in {Statements(TRUE), Statements(FALSE)}
                            \/ r = Idle
    BY <1>5, AgainCases
  <2>2. run[x].at # "idle" /\ kind' = kind /\ r.todo # <<"insert">>
    BY <1>2, <1>3, <1>5, <2>1, IdleType DEF Fail, Executing
  <2> QED
    BY <1>1, <2>1, <2>2
<1>6. CASE Refuse(x) \/ End(x) \/ CopyMark(x) \/ Stop(x)
  <2>1. run' = [run EXCEPT ![x] = Idle] /\ run[x].at # "idle" /\ kind' = kind
    BY <1>6 DEF Refuse, End, CopyMark, Stop, Executing
  <2> QED
    BY <1>1, <1>3, <2>1, IdleType
<1>7. CASE Join(x) \/ Drain(x) \/ SetMark(x) \/ Finish(x)
  <2>1. PICK r \in Run : run' = [run EXCEPT ![x] = r] /\ r.todo = <<>>
    BY <1>7, JoinIs, DrainIs, SetMarkIs, FinishIs
  <2>2. run[x].at # "idle" /\ kind' = kind
    BY <1>7 DEF Join, Drain, SetMark, Finish
  <2> QED
    BY <1>1, <1>3, <2>1, <2>2
<1>8. CASE Adopt(x)
  <2>1. PICK r \in Run : run' = [run EXCEPT ![x] = r] /\ r.todo \in {run[x].todo, <<>>}
    BY <1>8, AdoptIs, IdleType
  <2>2. run[x].at # "idle" /\ kind' = kind /\ run[x].todo # <<"insert">>
    BY <1>8 DEF Adopt, PlansInv, PlanFine
  <2> QED
    BY <1>1, <1>3, <2>1, <2>2
<1> QED
  BY <1>4, <1>5, <1>6, <1>7, <1>8

LEMMA EmptyWorld ==
    ASSUME TypeInv, UnreadInv, EmptiedCore, ~Crowded', WorldStep
    PROVE  Lone' /\ \A y \in Slots : EmptyFine(run[y])'
<1>1. run' = run /\ kind' = kind
  BY DEF WorldStep, Arrive, CutBranch, Publish, Rollback
<1>2. Lone'
  BY <1>1 DEF EmptiedCore, Lone
<1>3. ASSUME NEW y \in Slots, Half(run[y])
      PROVE  table'[Catalog(run[y].label)] = table[Catalog(run[y].label)]
  <2>1. run[y].at # "idle" /\ run[y].label \in Labels
    <3>1. run[y].todo # <<>>
      BY <1>3 DEF Half
    <3> QED
      BY <3>1, RunFields DEF TypeInv
  <2>2. ~Publish /\ ~Rollback
    BY <2>1 DEF Publish, Rollback, Slip, Beside, Crowded, Happened
  <2>3. CutBranch => Catalog(run[y].label) = "main"
    BY <2>1, CatalogsAre DEF CutBranch, UnreadInv, Unread
  <2> QED
    BY <2>2, <2>3, CatalogsAre DEF WorldStep, Arrive, CutBranch, tables, TypeInv, TypeOK
<1>4. \A y \in Slots : EmptyFine(run[y])'
  BY <1>1, <1>3 DEF EmptiedCore, EmptyFine, Half, Upto
<1> QED
  BY <1>2, <1>4

LEMMA EmptiedNext ==
    TypeInv /\ PlansInv /\ CopyInv /\ UnreadInv /\ EmptiedInv /\ [Next]_vars => EmptiedInv'
<1> SUFFICES ASSUME TypeInv, PlansInv, CopyInv, UnreadInv, EmptiedInv, [Next]_vars,
                    kind'.strategy \in TwoSteps, ~Crowded'
             PROVE  EmptiedCore'
  BY DEF EmptiedInv
<1>1. kind' = kind /\ kind.strategy \in TwoSteps /\ EmptiedCore
  BY StepWrites, CrowdGrows DEF EmptiedInv
<1>2. AllOnce'
  <2>1. ASSUME NEW c \in Catalogs, NEW n \in 0..MaxRows, Doing("insert", c, n),
               NEW k \in Rows, k > n
        PROVE  table[c].rows[k] = 0
    <3>1. PICK x \in Slots : Executing(x) /\ Does(x) = "insert" /\ c = Catalog(run[x].label)
      BY <1>1, <2>1 DEF Doing, EmptiedCore
    <3>2. Upto(table[c], 0)
      BY <1>1, <3>1, InsertIs DEF EmptiedCore, EmptyFine, Half
    <3> QED
      BY <2>1, <3>2, MaxRowsIs DEF Upto, Rows
  <2> QED
    BY <1>1, <2>1, OnceStep DEF EmptiedCore
<1>3. ASSUME Lone' /\ \A y \in Slots : EmptyFine(run[y])', late' = {} PROVE EmptiedCore'
  BY <1>2, <1>3 DEF EmptiedCore
<1>4. \A x \in Slots : ~Abandon(x)
  BY DEF Abandon, Slip, Crowded, Happened
<1>5. late = {}
  BY <1>1 DEF EmptiedCore
<1>6. CASE UNCHANGED vars
  <2>1. Lone' /\ \A y \in Slots : EmptyFine(run[y])'
    BY <1>1, <1>6 DEF vars, tables, EmptiedCore, Lone, EmptyFine, Half, Upto
  <2> QED
    BY <1>3, <1>5, <1>6, <2>1 DEF vars
<1>7. CASE RunStep
  <2>1. late' = {}
    <3>1. late' = late
      BY <1>7 DEF RunStep, Start, Execute, Refuse, Join, SetMark, Finish, End, Adopt,
                    CopyMark
    <3> QED
      BY <1>5, <3>1
  <2> QED
    BY <1>1, <1>3, <1>7, <2>1, EmptyExecute, EmptyRuns DEF RunStep
<1>8. CASE FaultStep
  <2>1. PICK x \in Slots : \/ \E applied, again \in BOOLEAN : Fail(x, applied, again)
                           \/ Drain(x) \/ Stop(x)
    BY <1>4, <1>5, <1>8 DEF FaultStep
  <2>2. late' = {}
    BY <1>5, <2>1 DEF Fail, Drain, Stop
  <2> QED
    BY <1>1, <1>3, <2>1, <2>2, EmptyRuns
<1>9. CASE WorldStep
  <2>1. late' = {}
    BY <1>5, <1>9 DEF WorldStep, Arrive, CutBranch, Publish, Rollback
  <2> QED
    BY <1>1, <1>3, <1>9, <2>1, EmptyWorld
<1> QED
  BY <1>6, <1>7, <1>8, <1>9 DEF Next

LEMMA EmptiedAlways == Spec => []EmptiedInv
<1>1. Init => EmptiedInv
  <2> SUFFICES ASSUME Init PROVE EmptiedCore
    BY DEF EmptiedInv
  <2>1. <<>> # <<"insert">>
    OBVIOUS
  <2> QED
    BY <2>1, OnceInit, IdleType DEF Init, EmptiedCore, Lone, EmptyFine, Half
<1>2. TypeInv /\ PlansInv /\ CopyInv /\ UnreadInv /\ EmptiedInv /\ [Next]_vars => EmptiedInv'
  BY EmptiedNext
<1> QED
  BY <1>1, <1>2, TypeAlways, PlansAlways, CopyAlways, UnreadAlways, PTL DEF Spec

-----------------------------------------------------------------------------
(***************************************************************************)
(* A window, while every append is followed by its watermark and runs      *)
(* follow each other.  No table has rows above the highest watermark of    *)
(* its labels, nor has the one a reference can be set back to, unless a    *)
(* run is between its append and its watermark; and no table with the      *)
(* snapshot of a record has rows above the watermark of its label, so that *)
(* who adopts the record may copy the watermark.                           *)
(***************************************************************************)
Windows == kind.strategy = "window" /\ kind.overlap = 0
Unrecorded == Happened(Slips \ {"half done", "set back", "copied"})

\* Of the one run r there may be.
Numbers(r) ==
    /\ \A l \in Labels : mark[l].by <= runs /\ record[l].snap <= snaps
    /\ r.at # "idle" => r.by = runs /\ r.version > 0
    /\ r.at = "end" /\ r.stamp # 0 => r.stamp = clock
    /\ r.at = "adopt" => r.stamp # 0
Busy(c, r) == r.at \in {"built", "mark"} /\ Catalog(r.label) = c
Ending(l, r) == r.at = "end" /\ r.label = l
Top(t, c) == \E l \in Labels : Catalog(l) = c /\ Upto(t, mark[l].value)
Blank(c) == \A l \in Labels : Catalog(l) = c => mark[l].value = 0
Reach(r) ==
    /\ Shared = {} \/ Busy("main", r) \/ (Top(table["main"], "main") /\ Top(before, "main"))
    /\ Busy("candidate", r) \/ Blank("candidate") \/ Top(table["candidate"], "candidate")
OnRecord(r) == \A l \in Labels : mark[l].value # 0 => record[l].version # 0 \/ Ending(l, r)
Tell(r) ==
    \A l \in Labels : mark[l].value # 0 /\ record[l].snap # 0 /\ ~Ending(l, r) =>
        \A t \in Contents : t.snap = record[l].snap => Upto(t, mark[l].value)
Goes(r) ==
    LET c == Catalog(r.label)
    IN  /\ r.at = "work" => /\ r.from = mark[r.label].value
                            /\ r.todo = <<"insert">> => Upto(table[c], r.from)
        /\ r.at \in {"adopt", "copy"} => /\ mark[r.label].value = 0
                                         /\ r.snap # 0 /\ record[r.reuse].snap = r.snap
        /\ r.at = "adopt" => /\ record[r.label].version = 0
                             /\ r.from = 0 /\ r.todo # <<"insert">>
        /\ r.at = "copy" => /\ record[r.label].version # 0 /\ record[r.label].snap = r.snap
                            /\ table[c].snap = r.snap
        /\ Busy("main", r) =>
               \A n \in Rows : before.rows[n] > 0 => table["main"].rows[n] > 0
        /\ r.at = "mark" => Upto(table[c], r.seen) /\ r.seen > 0
        /\ r.at \in {"mark", "end"} /\ r.snap # 0 => Identity(c) = r.snap
        /\ r.at = "end" => Upto(table[c], mark[r.label].value)
RunC(r) == Numbers(r) /\ Reach(r) /\ OnRecord(r) /\ Tell(r) /\ Goes(r)
Alone(x) == \A y \in Slots \ {x} : run[y].at = "idle"
WindowCore == Lone /\ late = {} /\ AllOnce /\ \A x \in Slots : Alone(x) => RunC(run[x])
WindowInv == Windows => Unrecorded \/ WindowCore

LEMMA StateIs ==
    ASSUME TypeInv, NEW l \in Labels
    PROVE  /\ mark[l].value \in Nat /\ mark[l].value <= MaxRows /\ mark[l].by \in Nat
           /\ record[l].version \in Nat /\ record[l].snap \in Nat /\ record[l].at \in Nat
<1>1. mark[l] \in Mark /\ record[l] \in Record
  BY TypeParts DEF StateType
<1> QED
  BY <1>1, MaxRowsIs DEF Mark, Record

LEMMA RunIs ==
    ASSUME NEW r \in Run
    PROVE  /\ r.label \in Labels /\ r.reuse \in Labels /\ r.by \in Nat /\ r.version \in Nat
           /\ r.from \in Nat /\ r.seen \in Nat /\ r.snap \in Nat /\ r.stamp \in Nat
           /\ r.at \in {"idle", "work", "built", "mark", "end", "adopt", "copy"}
           /\ Catalog(r.label) \in Catalogs /\ Catalog(r.reuse) \in Catalogs
           /\ Catalog(r.label) = "main" => Shared # {}
  BY MaxRowsIs, CatalogsAre DEF Run

LEMMA UptoLess ==
    ASSUME NEW t, NEW v \in Nat, NEW w \in Nat, v <= w, Upto(t, v)
    PROVE  Upto(t, w)
  BY MaxRowsIs DEF Upto, Rows
LEMMA UptoZero ==
    ASSUME NEW t, NEW w \in Nat, \A n \in Rows : t.rows[n] = 0
    PROVE  Upto(t, w)
  BY DEF Upto

LEMMA UnrecordedGrows == [Next]_vars /\ Unrecorded => Unrecorded'
  BY SlipsStay DEF Unrecorded, Happened
\* What has not happened.
LEMMA RecordedIs ==
    ~Unrecorded' => \A what \in {"lost answer", "left running", "no watermark", "no record",
                                  "side by side", "other label", "published"} : what \notin slips'
<1>1. {"lost answer", "left running", "no watermark", "no record", "side by side",
       "other label", "published"} \subseteq Slips \ {"half done", "set back", "copied"}
  BY DEF Slips
<1> QED
  BY <1>1 DEF Unrecorded, Happened

LEMMA IdleSame ==
    ASSUME NEW r, NEW s, r.at = "idle", s.at = "idle", RunC(r)'
    PROVE  RunC(s)'
  BY DEF RunC, Numbers, Reach, Busy, OnRecord, Tell, Ending, Goes

LEMMA RunHas ==
    ASSUME NEW y, NEW q, q = run'[y], RunC(q)'
    PROVE  RunC(run[y])'
<1>1. Numbers(run[y])'
  BY DEF RunC, Numbers
<1>2. Reach(run[y])'
  BY DEF RunC, Reach, Busy
<1>3. OnRecord(run[y])'
  BY DEF RunC, OnRecord, Ending
<1>4. Tell(run[y])'
  BY DEF RunC, Tell, Ending
<1>5. Goes(run[y])'
  BY DEF RunC, Goes, Busy
<1> QED
  BY <1>1, <1>2, <1>3, <1>4, <1>5 DEF RunC

LEMMA WindowPut ==
    ASSUME TypeInv, WindowCore, NEW x \in Slots, NEW r \in Run, run' = [run EXCEPT ![x] = r],
           run[x].at # "idle" \/ Beside = {}, late' = {}, AllOnce', RunC(r)'
    PROVE  WindowCore'
<1>1. Lone'
  BY LoneStays DEF WindowCore
<1>2. run'[x] = r /\ \A y \in Slots \ {x} : run'[y] = run[y] /\ run[y].at = "idle"
  BY PutIs DEF WindowCore, Lone, Beside
<1>3. ASSUME NEW y \in Slots, Alone(y)' PROVE RunC(run[y])'
  <2>1. PICK q \in Run : q = run'[y] /\ RunC(q)'
    <3>1. CASE y = x
      BY <1>2, <3>1
    <3>2. CASE y # x
      <4>1. PICK q \in Run : q = run[y]
        BY RunFields DEF TypeInv
      <4>2. r.at = "idle" /\ q.at = "idle" /\ q = run'[y]
        BY <1>2, <1>3, <3>2, <4>1 DEF Alone
      <4> QED
        BY <4>1, <4>2, IdleSame
    <3> QED
      BY <3>1, <3>2
  <2> QED
    BY <2>1, RunHas
<1> QED
  BY <1>1, <1>3 DEF WindowCore

\* The one run.
LEMMA WindowRun ==
    ASSUME TypeInv, WindowCore, NEW x \in Slots, run[x].at # "idle" \/ Beside = {}
    PROVE  \E q \in Run : q = run[x] /\ RunC(q)
<1>1. Alone(x)
  BY DEF WindowCore, Lone, Alone, Beside
<1> QED
  BY <1>1, RunFields DEF WindowCore, TypeInv

\* What stays as tables, watermarks and records do.
LEMMA QuietParts ==
    ASSUME NEW q, NEW r, UNCHANGED <<tables, mark, record>>, RunC(q), q.at # "end"
    PROVE  /\ OnRecord(r)' /\ Tell(r)'
           /\ q.at \notin {"built", "mark"} => Reach(r)'
<1>1. UNCHANGED <<table, before>> /\ Contents' = Contents
  BY DEF tables, Contents
<1>2. OnRecord(r)'
  BY DEF RunC, OnRecord, Ending
<1>3. Tell(r)'
  BY <1>1 DEF RunC, Tell, Ending, Upto
<1>4. \A c : Blank(c)' <=> Blank(c)
  BY DEF Blank
<1>5. /\ \A c \in Catalogs : Top(table[c], c) => Top(table[c], c)'
      /\ Top(before, "main") => Top(before, "main")'
  BY <1>1 DEF Top, Upto
<1>6. q.at \notin {"built", "mark"} => Reach(r)'
  BY <1>4, <1>5, CatalogsAre DEF RunC, Reach, Busy
<1> QED
  BY <1>2, <1>3, <1>6

LEMMA NumbersStay ==
    ASSUME TypeInv, UNCHANGED <<mark, record, runs>>, snaps' \in Nat, snaps <= snaps',
           NEW q, NEW r, Numbers(q),
           r.at # "idle" => q.at # "idle" /\ r.by = q.by /\ r.version = q.version,
           r.at = "end" => r.stamp \in {0, clock'},
           r.at = "adopt" => r.stamp # 0
    PROVE  Numbers(r)'
<1>1. \A l \in Labels : record[l].snap \in Nat /\ snaps \in Nat
  BY StateIs DEF TypeInv, TypeOK
<1> QED
  BY <1>1 DEF Numbers

LEMMA IdleGoes == Goes(Idle)' /\ Goes(Idle)
  BY IdleType DEF Goes, Busy

LEMMA WindowBound ==
    ASSUME TypeInv, Windows, NEW l \in Labels
    PROVE  Bound(l) = mark[l].value
  BY StateIs DEF Windows, Bound

LEMMA WindowStart ==
    ASSUME TypeInv, StampInv, Windows, WindowCore, ~Unrecorded', AllOnce', NEW x \in Slots,
           NEW l \in Labels, NEW forced \in BOOLEAN, Start(x, l, forced)
    PROVE  WindowCore'
<1>1. PICK r \in Run : run' = [run EXCEPT ![x] = r] /\ Started(r, l)
  BY StartIs
<1>2. /\ UNCHANGED <<kind, source, tables, mark, record, late>> /\ run[x].at = "idle"
      /\ snaps' = snaps
  BY DEF Start, state, tables
<1>3. Beside = {} /\ ~Behind(l)
  <2>1. /\ "side by side" \notin slips' /\ "other label" \notin slips'
        /\ slips' = slips \cup (Beside \cup IF Behind(l) THEN {"other label"} ELSE {})
    BY RecordedIs DEF Start, Slip
  <2>2. Beside = {} \/ Beside = {"side by side"}
    BY DEF Beside
  <2> QED
    BY <2>1, <2>2
<1>4. PICK q \in Run : q = run[x] /\ RunC(q)
  BY <1>3, WindowRun
<1>5. OnRecord(r)' /\ Tell(r)' /\ Reach(r)'
  BY <1>2, <1>4, QuietParts
<1>6. runs \in Nat /\ runs' \in Nat /\ runs < runs' /\ source > 0
  <2>1. runs \in Nat /\ runs' = runs + IF Beside = {} THEN 1 ELSE 2
    BY DEF Start, TypeInv, TypeOK
  <2> QED
    BY <1>3, <2>1, SourceIs
<1>7. Numbers(r)'
  <2>1. r.by = runs' /\ r.version > 0 /\ r.at \in {"work", "adopt"}
    BY <1>1, <1>6 DEF Started, Works, Adopts
  <2>2. ASSUME NEW k \in Labels
        PROVE  mark'[k].by <= runs' /\ record'[k].snap <= snaps'
    <3>1. mark[k].by <= runs /\ record[k].snap <= snaps
      BY <1>4 DEF RunC, Numbers
    <3> QED
      BY <1>2, <1>6, <3>1, StateIs
  <2>3. r.at = "adopt" => r.stamp # 0
    <3> SUFFICES ASSUME Adopts(r, l) PROVE r.stamp # 0
      BY <1>1 DEF Started, Works
    <3>1. r.reuse \in Labels /\ record[r.reuse].version # 0 /\ r.stamp = record[r.reuse].at
      BY <1>6 DEF Adopts, Adoptable
    <3> QED
      BY <3>1 DEF StampInv, Dated
  <2> QED
    BY <2>1, <2>2, <2>3 DEF Numbers
<1>8. r.label = l /\ r.from = mark[l].value
  BY <1>1, WindowBound DEF Started
<1>9. \A g \in BOOLEAN : mark[l].value = 0 => Statements(Whole(g, l)) # <<"insert">>
  <2>1. \A g \in BOOLEAN : Whole(g, l) \in BOOLEAN /\ (mark[l].value = 0 => Whole(g, l))
    BY DEF Whole, Windows
  <2>2. <<"drop", "create">> # <<"insert">> /\ <<"replace">> # <<"insert">>
    OBVIOUS
  <2> QED
    BY <2>1, <2>2, StatementsPlan
<1>10. CASE Works(r, l)
  <2>1. PICK g \in BOOLEAN : r.todo = Statements(Whole(g, l))
    BY <1>10 DEF Works
  <2>2. r.todo = <<"insert">> => Upto(table[Catalog(l)], mark[l].value)
    <3> SUFFICES ASSUME r.todo = <<"insert">> PROVE Upto(table[Catalog(l)], mark[l].value)
      OBVIOUS
    <3>1. mark[l].value # 0
      BY <1>9, <2>1
    <3>2. Top(table[Catalog(l)], Catalog(l))
      <4>1. ~Blank(Catalog(l)) /\ (Catalog(l) = "main" => Shared # {})
        BY <3>1, CatalogsAre DEF Blank
      <4> QED
        BY <1>2, <1>4, <4>1, CatalogsAre DEF RunC, Reach, Busy
    <3>3. PICK k \in Labels : Catalog(k) = Catalog(l) /\ Upto(table[Catalog(l)], mark[k].value)
      BY <3>2 DEF Top
    <3>4. mark[k].value <= mark[l].value
      BY <1>3, <3>3, StateIs DEF Behind
    <3> QED
      BY <3>3, <3>4, StateIs, UptoLess
  <2>3. Goes(r)'
    BY <1>2, <1>8, <1>10, <2>2 DEF Goes, Busy, Works, Upto, tables
  <2> QED
    BY <1>1, <1>2, <1>3, <1>5, <1>7, <2>3, WindowPut DEF RunC, WindowCore
<1>11. CASE Adopts(r, l)
  <2>1. /\ r.at = "adopt" /\ r.todo = Statements(TRUE) /\ r.reuse \in Adoptable(l)
        /\ r.snap = record[r.reuse].snap
    BY <1>11 DEF Adopts
  <2>2. r.snap # 0 /\ record[l].version = 0
    <3>1. r.snap # 0 /\ Current(l).version = 0
      BY <2>1 DEF Adoptable
    <3>2. PICK k \in Labels : Current(l) = record[k] /\ record[l].at <= record[k].at
      BY CurrentIs
    <3>3. record[k].at = 0 /\ record[l].at \in Nat
      BY <3>1, <3>2, StateIs DEF StampInv, Dated
    <3> QED
      BY <3>1, <3>2, <3>3 DEF StampInv, Dated
  <2>3. mark[l].value = 0
    BY <1>2, <1>4, <2>2 DEF RunC, OnRecord, Ending
  <2>4. r.todo # <<"insert">>
    BY <1>9, <2>1, <2>3 DEF Whole
  <2>5. Goes(r)'
    BY <1>2, <1>8, <2>1, <2>2, <2>3, <2>4 DEF Goes, Busy
  <2> QED
    BY <1>1, <1>2, <1>3, <1>5, <1>7, <2>5, WindowPut DEF RunC, WindowCore
<1> QED
  BY <1>1, <1>10, <1>11 DEF Started

LEMMA WindowExecute ==
    ASSUME TypeInv, PlansInv, CopyInv, Windows, WindowCore, AllOnce', NEW x \in Slots, Execute(x)
    PROVE  WindowCore'
<1>1. /\ Executing(x) /\ run[x].at = "work" /\ run[x].todo # <<>> /\ Plan(run[x].todo)
      /\ UNCHANGED <<kind, source, mark, record, runs, late>>
  BY DoesIs DEF Execute, Executing, PlansInv, PlanFine, state
<1>2. PICK q \in Run : q = run[x] /\ RunC(q)
  BY <1>1, WindowRun
<1>3. PICK r \in Run : r = Done(x)
  BY <1>1, DoneCases
<1>4. PICK c \in Catalogs, d \in Statement, n \in 0..MaxRows :
        c = Catalog(q.label) /\ d = Does(x) /\ n = q.from
  BY <1>1, <1>2, DoesIs
<1>5. /\ r.label = q.label /\ r.by = q.by /\ r.version = q.version /\ r.from = q.from
      /\ \/ r.at = "built" /\ d \notin {"drop", "delete"}
         \/ r.at = "work" /\ d = "drop" /\ r.todo = <<"create">>
  <2>1. Kept4(r, q) /\ \/ Len(q.todo) = 1 /\ r.at = "built"
                       \/ Len(q.todo) # 1 /\ r.at = "work" /\ r.todo = Tail(q.todo)
    BY <1>1, <1>2, <1>3, DoneCases
  <2>2. kind.strategy \notin TwoSteps
    BY DEF Windows, TwoSteps
  <2> QED
    BY <1>1, <1>2, <1>4, <2>1, <2>2, PlanCases DEF Does, Kept4
<1>6. Apply(d, c, n)
  BY <1>2, <1>4 DEF Execute
<1>7. /\ table'[c].snap = snaps + 1 /\ snaps' = snaps + 1 /\ snaps \in Nat
      /\ \A k \in Rows : table'[c].rows[k] = Makes(d, table[c].rows[k], k, n)
      /\ \A e \in Catalogs \ {c} : table'[e] = table[e]
      /\ before' = IF c = "main" THEN table["main"] ELSE before
  BY <1>6, MadeIs DEF TypeInv, TypeOK
<1>8. Numbers(r)'
  <2>1. snaps' \in Nat /\ snaps <= snaps'
    BY <1>7
  <2> QED
    BY <1>1, <1>2, <1>5, <2>1, NumbersStay DEF RunC
<1>9. OnRecord(r)'
  BY <1>1, <1>2 DEF RunC, OnRecord, Ending
<1>10. Tell(r)'
  <2> SUFFICES ASSUME NEW l \in Labels, mark'[l].value # 0, record'[l].snap # 0,
                      NEW t \in Contents', t.snap = record'[l].snap
               PROVE  Upto(t, mark[l].value)'
    BY DEF Tell
  <2>1. record[l].snap <= snaps /\ record[l].snap \in Nat
    BY <1>2, StateIs DEF RunC, Numbers
  <2>2. t \in Contents
    BY <1>1, <1>6, <1>7, <2>1, NewIsOwn
  <2>3. Upto(t, mark[l].value)
    BY <1>1, <1>2, <2>2 DEF RunC, Tell, Ending
  <2> QED
    BY <1>1, <2>3 DEF Upto
<1>11. Reach(q) /\ \A e : ~Busy(e, q)
  BY <1>1, <1>2 DEF RunC, Busy
<1>12. \A e \in Catalogs : Blank(e)' <=> Blank(e)
  BY <1>1 DEF Blank
<1>13. \A e \in Catalogs \ {c} : Top(table[e], e) => Top(table[e], e)'
  BY <1>1, <1>7 DEF Top, Upto
<1>14. c # "main" => (Top(before, "main") => Top(before, "main")')
  BY <1>1, <1>7 DEF Top, Upto
<1>15. c = "main" => (Top(table["main"], "main") => Top(before, "main")')
  BY <1>1, <1>7 DEF Top, Upto
<1>16. r.at = "work" => Top(table[c], c)'
  <2> SUFFICES ASSUME r.at = "work" PROVE Top(table[c], c)'
    OBVIOUS
  <2>1. \A k \in Rows : table'[c].rows[k] = 0
    BY <1>5, <1>7 DEF Makes
  <2>2. q.label \in Labels /\ Catalog(q.label) = c
    BY <1>4, RunIs
  <2> QED
    BY <2>1, <2>2 DEF Top, Upto
<1>17. r.at = "built" => Busy(c, r)
  BY <1>4, <1>5 DEF Busy
<1>18. Reach(r)'
  <2>1. CASE c = "main"
    <3>1. Shared # {}
      BY <1>4, <2>1, RunIs
    <3>2. Busy("main", r)' \/ (Top(table["main"], "main")' /\ Top(before, "main")')
      BY <1>5, <1>11, <1>15, <1>16, <1>17, <2>1, <3>1 DEF Reach, Busy
    <3>3. Blank("candidate")' \/ Top(table["candidate"], "candidate")'
      BY <1>11, <1>12, <1>13, <2>1, CatalogsAre DEF Reach
    <3> QED
      BY <3>2, <3>3 DEF Reach
  <2>2. CASE c = "candidate"
    <3>1. Shared = {} \/ (Top(table["main"], "main")' /\ Top(before, "main")')
      BY <1>11, <1>13, <1>14, <2>2, CatalogsAre DEF Reach
    <3>2. Busy("candidate", r)' \/ Top(table["candidate"], "candidate")'
      BY <1>5, <1>16, <1>17, <2>2 DEF Busy
    <3> QED
      BY <3>1, <3>2 DEF Reach
  <2> QED
    BY <2>1, <2>2, CatalogsAre
<1>19. Busy("main", r) => \A k \in Rows : before'.rows[k] > 0 => table'["main"].rows[k] > 0
  <2> SUFFICES ASSUME r.at = "built", c = "main", NEW k \in Rows, table["main"].rows[k] > 0
               PROVE  table'["main"].rows[k] > 0
    BY <1>4, <1>5, <1>7 DEF Busy
  <2>1. table["main"] \in Contents
    BY ContentsAre
  <2>2. table["main"].rows[k] \in 0..2 /\ k \in Nat /\ source \in Nat
    BY <2>1, CountsAre, SourceIs
  <2>3. k <= source
    BY <2>1, <2>2 DEF CopyInv, Upto
  <2>4. table'["main"].rows[k] = Makes(d, table["main"].rows[k], k, n)
    BY <1>7
  <2> QED
    BY <1>5, <2>2, <2>3, <2>4 DEF Makes, Least, Statement
<1>20. Goes(r)'
  <2>1. r.at = "work" => r.from = mark'[r.label].value /\ r.todo # <<"insert">>
    <3>1. <<"create">> # <<"insert">>
      OBVIOUS
    <3> QED
      BY <1>1, <1>2, <1>5, <3>1 DEF RunC, Goes
  <2> QED
    BY <1>5, <1>19, <2>1 DEF Goes, Busy
<1>21. run' = [run EXCEPT ![x] = r] /\ late' = {}
  BY <1>1, <1>3 DEF Execute, WindowCore
<1> QED
  BY <1>1, <1>8, <1>9, <1>10, <1>18, <1>20, <1>21, WindowPut DEF RunC

\* A failure that left no trace.
LEMMA WindowFail ==
    ASSUME TypeInv, PlansInv, Windows, WindowCore, ~Unrecorded', AllOnce', NEW x \in Slots,
           NEW applied \in BOOLEAN, NEW again \in BOOLEAN, Fail(x, applied, again)
    PROVE  WindowCore'
<1>1. /\ Executing(x) /\ run[x].at = "work" /\ run[x].todo # <<>> /\ Plan(run[x].todo)
      /\ UNCHANGED <<kind, source, mark, record, runs, late>>
  BY DoesIs DEF Fail, Executing, PlansInv, PlanFine, state
<1>2. ~applied
  BY RecordedIs DEF Fail, Slip
<1>3. UNCHANGED tables /\ snaps' = snaps
  BY <1>2 DEF Fail, tables
<1>4. PICK q \in Run : q = run[x] /\ RunC(q)
  BY <1>1, WindowRun
<1>5. PICK r \in Run :
        /\ run' = [run EXCEPT ![x] = r]
        /\ \/ /\ r.at = "work" /\ Kept4(r, q)
              /\ r.todo = IF Does(x) \in {"drop", "create", "replace"}
                          THEN Statements(TRUE) ELSE Statements(FALSE)
           \/ r = Idle
  BY <1>4, AgainCases
<1>6. OnRecord(r)' /\ Tell(r)' /\ Reach(r)'
  BY <1>1, <1>3, <1>4, QuietParts
<1>7. Numbers(r)'
  <2>1. snaps' \in Nat /\ snaps <= snaps'
    BY <1>3 DEF TypeInv, TypeOK
  <2> QED
    BY <1>1, <1>4, <1>5, <2>1, IdleType, NumbersStay DEF RunC, Kept4
<1>8. Goes(r)'
  <2>1. CASE r = Idle
    BY <2>1, IdleGoes
  <2>2. CASE r # Idle
    <3>1. r.todo = <<"insert">> => Does(x) = "insert"
      <4>1. <<"drop", "create">> # <<"insert">> /\ <<"replace">> # <<"insert">>
        OBVIOUS
      <4>2. r.todo = <<"insert">> => Does(x) \notin {"drop", "create", "replace"}
        BY <1>5, <2>2, <4>1, StatementsPlan
      <4>3. Does(x) \notin {"delete", "merge"}
        BY <1>1, PlanCases DEF Does, Plan, Windows, TwoSteps, OneStatement
      <4> QED
        BY <1>1, <4>2, <4>3, PlanCases DEF Does
    <3>2. Does(x) = "insert" => q.todo = <<"insert">>
      BY <1>1, <1>4, InsertIs
    <3>3. /\ r.at = "work" /\ r.label = q.label /\ r.from = q.from
          /\ q.from = mark[q.label].value
          /\ q.todo = <<"insert">> => Upto(table[Catalog(q.label)], q.from)
      BY <1>1, <1>4, <1>5, <2>2 DEF Kept4, RunC, Goes
    <3>4. table' = table
      BY <1>3 DEF tables
    <3> QED
      BY <1>1, <3>1, <3>2, <3>3, <3>4 DEF Goes, Busy, Upto
  <2> QED
    BY <2>1, <2>2
<1>9. late' = {}
  BY <1>1 DEF WindowCore
<1> QED
  BY <1>1, <1>5, <1>6, <1>7, <1>8, <1>9, WindowPut DEF RunC

LEMMA WindowEnds ==
    ASSUME TypeInv, Windows, WindowCore, ~Unrecorded', AllOnce', NEW x \in Slots,
           Refuse(x) \/ Stop(x)
    PROVE  WindowCore'
<1>1. /\ UNCHANGED <<tables, mark, record, runs, late>> /\ snaps' = snaps
      /\ run' = [run EXCEPT ![x] = Idle]
  BY DEF Refuse, Stop, state, tables
<1>2. run[x].at \in {"work", "adopt"}
  <2>1. run[x].at \in {"idle", "work", "built", "mark", "end", "adopt", "copy"}
    BY RunFields DEF TypeInv, Run
  <2> QED
    BY <2>1, RecordedIs DEF Refuse, Executing, Stop, Slip
<1>3. PICK q \in Run : q = run[x] /\ RunC(q)
  BY <1>2, WindowRun
<1>4. OnRecord(Idle)' /\ Tell(Idle)' /\ Reach(Idle)'
  BY <1>1, <1>2, <1>3, QuietParts
<1>5. Numbers(Idle)'
  <2>1. snaps' \in Nat /\ snaps <= snaps'
    BY <1>1 DEF TypeInv, TypeOK
  <2> QED
    BY <1>1, <1>3, <2>1, IdleType, NumbersStay DEF RunC
<1> QED
  BY <1>1, <1>2, <1>4, <1>5, IdleGoes, IdleType, WindowPut DEF RunC, WindowCore

LEMMA WindowJoin ==
    ASSUME TypeInv, StampInv, Windows, WindowCore, AllOnce', NEW x \in Slots, Join(x)
    PROVE  WindowCore'
<1>1. /\ run[x].at = "built" /\ UNCHANGED <<kind, source, tables, mark, record, runs, late>>
      /\ snaps' = snaps /\ table' = table /\ before' = before
  BY DEF Join, state, tables
<1>2. PICK q \in Run : q = run[x] /\ RunC(q)
  BY <1>1, WindowRun
<1>3. PICK c \in Catalogs : c = Catalog(q.label)
  BY RunIs
<1>4. PICK r \in Run :
        /\ run' = [run EXCEPT ![x] = r] /\ Kept4(r, q)
        /\ r.snap = Identity(c) /\ r.seen = Highest(c) /\ r.stamp = 0
        /\ r.at = IF Highest(c) > 0 THEN "mark" ELSE "end"
  BY <1>1, <1>2, <1>3, JoinIs DEF Windows, StampInv, Stamped
<1>5. OnRecord(r)' /\ Tell(r)'
  BY <1>1, <1>2, QuietParts
<1>6. Numbers(r)'
  <2>1. snaps' \in Nat /\ snaps <= snaps' /\ q.at # "idle"
    BY <1>1, <1>2 DEF TypeInv, TypeOK
  <2> QED
    BY <1>1, <1>2, <1>4, <2>1, NumbersStay DEF RunC, Kept4
<1>7. Upto(table[c], Highest(c)) /\ Highest(c) \in Nat
  <2>1. Highest(c) \in Nat /\ \A n \in Present(c) : n <= Highest(c)
    BY HighestIs, MaxRowsIs DEF TypeInv
  <2>2. ASSUME NEW n \in Rows, n > Highest(c) PROVE table[c].rows[n] = 0
    <3>1. n \notin Present(c) /\ table[c].rows[n] \in 0..2
      BY <2>1, <2>2, ContentsAre, CountsAre
    <3> QED
      BY <3>1 DEF Present
  <2> QED
    BY <2>1, <2>2 DEF Upto
<1>8. Busy("main", q) => \A n \in Rows : before.rows[n] > 0 => table["main"].rows[n] > 0
  BY <1>2 DEF RunC, Goes
<1>9. r.label = q.label /\ r.label \in Labels /\ Catalog(r.label) = c /\ q.at = "built"
  BY <1>1, <1>2, <1>3, <1>4, RunIs DEF Kept4
<1>10. r.at = "end" => Upto(table[c], 0)
  BY <1>4, <1>7
<1>11. c = "main" /\ r.at = "end" => Upto(before, 0)
  <2> SUFFICES ASSUME c = "main", r.at = "end", NEW n \in Rows PROVE before.rows[n] = 0
    BY DEF Upto
  <2>1. table["main"].rows[n] = 0 /\ before.rows[n] \in 0..2
    BY <1>10, ContentsAre, CountsAre DEF Upto
  <2> QED
    BY <1>8, <1>9, <2>1 DEF Busy
<1>12. \A t : Upto(t, 0) => Upto(t, mark[r.label].value)
  <2>1. mark[r.label].value \in Nat
    BY <1>9, StateIs
  <2> QED
    BY <2>1, UptoLess
<1>13. Reach(q) /\ \A e \in Catalogs \ {c} : ~Busy(e, q)
  BY <1>2, <1>3 DEF RunC, Busy
<1>14. Reach(r)
  <2>1. r.at = "mark" => \A e \in Catalogs : Busy(e, q) => Busy(e, r)
    BY <1>9 DEF Busy
  <2>2. r.at = "end" => Top(table[c], c)
    BY <1>9, <1>10, <1>12 DEF Top
  <2>3. r.at = "end" /\ c = "main" => Top(before, "main")
    BY <1>9, <1>11, <1>12 DEF Top
  <2>4. r.at \in {"mark", "end"}
    BY <1>4
  <2> QED
    BY <1>13, <2>1, <2>2, <2>3, <2>4, CatalogsAre DEF Reach
<1>15. Reach(r)'
  BY <1>1, <1>14 DEF Reach, Busy, Top, Blank, Upto
<1>16. Identity(c)' = Identity(c)
  BY <1>1 DEF Identity
<1>17. Goes(r)'
  <2>1. Busy("main", r) => \A n \in Rows : before'.rows[n] > 0 => table'["main"].rows[n] > 0
    BY <1>1, <1>8, <1>9 DEF Busy
  <2>2. r.at = "mark" => Upto(table[c], r.seen)' /\ r.seen > 0
    BY <1>1, <1>4, <1>7 DEF Upto
  <2>3. r.at = "end" => Upto(table[c], mark[r.label].value)'
    BY <1>1, <1>10, <1>12 DEF Upto
  <2> QED
    BY <1>4, <1>9, <1>16, <2>1, <2>2, <2>3 DEF Goes
<1>18. late' = {}
  BY <1>1 DEF WindowCore
<1> QED
  BY <1>1, <1>4, <1>5, <1>6, <1>15, <1>17, <1>18, WindowPut DEF RunC

\* A watermark of the one run, which started later than any other.
LEMMA LaterIs ==
    ASSUME TypeInv, NEW q \in Run, Numbers(q), q.at # "idle", NEW v \in Nat,
           mark' = Later(q.label, v, q.by)
    PROVE  /\ mark'[q.label].value = v /\ mark'[q.label].by = runs
           /\ \A l \in Labels \ {q.label} : mark'[l] = mark[l]
  BY RunIs, TypeParts DEF Numbers, Later, StateType

LEMMA WindowSetMark ==
    ASSUME TypeInv, StampInv, Windows, WindowCore, AllOnce', NEW x \in Slots, SetMark(x)
    PROVE  WindowCore'
<1>1. /\ run[x].at = "mark" /\ UNCHANGED <<kind, source, tables, record, runs, late>>
      /\ snaps' = snaps /\ table' = table /\ before' = before /\ Contents' = Contents
  BY DEF SetMark, tables, Contents
<1>2. PICK q \in Run : q = run[x] /\ RunC(q)
  BY <1>1, WindowRun
<1>3. PICK c \in Catalogs : c = Catalog(q.label)
  BY RunIs
<1>4. PICK r \in Run :
        /\ run' = [run EXCEPT ![x] = r] /\ Kept4(r, q)
        /\ r.snap = q.snap /\ r.seen = q.seen /\ r.at = "end" /\ r.stamp = 0
  BY <1>1, <1>2, SetMarkIs DEF StampInv, Stamped
<1>5. /\ r.label = q.label /\ r.label \in Labels /\ Catalog(r.label) = c /\ q.at = "mark"
      /\ r.by = q.by /\ r.version = q.version /\ q.seen \in Nat
  BY <1>1, <1>2, <1>3, <1>4, RunIs DEF Kept4
<1>6. /\ mark'[r.label].value = q.seen /\ mark'[r.label].by = runs
      /\ \A l \in Labels \ {r.label} : mark'[l] = mark[l]
  <2>1. Numbers(q) /\ q.at # "idle"
    BY <1>2, <1>5 DEF RunC
  <2>2. mark' = Later(q.label, q.seen, q.by)
    BY <1>2 DEF SetMark
  <2> QED
    BY <1>5, <2>1, <2>2, LaterIs
<1>7. Numbers(r)'
  <2>1. Numbers(q) /\ runs \in Nat
    BY <1>2 DEF RunC, TypeInv, TypeOK
  <2>2. \A l \in Labels : mark'[l].by <= runs
    BY <1>6, <2>1 DEF Numbers
  <2> QED
    BY <1>1, <1>4, <1>5, <2>1, <2>2 DEF Numbers
<1>8. OnRecord(r)'
  BY <1>1, <1>2, <1>4, <1>5, <1>6 DEF RunC, OnRecord, Ending
<1>9. Tell(r)'
  BY <1>1, <1>2, <1>4, <1>5, <1>6 DEF RunC, Tell, Ending, Upto
<1>10. Upto(table[c], q.seen)
  BY <1>2, <1>3, <1>5 DEF RunC, Goes
<1>11. c = "main" => Upto(before, q.seen)
  <2> SUFFICES ASSUME c = "main", NEW n \in Rows, n > q.seen PROVE before.rows[n] = 0
    BY DEF Upto
  <2>1. table["main"].rows[n] = 0 /\ before.rows[n] \in 0..2
    BY <1>10, ContentsAre, CountsAre DEF Upto
  <2>2. before.rows[n] > 0 => table["main"].rows[n] > 0
    BY <1>2, <1>3, <1>5 DEF RunC, Goes, Busy
  <2> QED
    BY <2>1, <2>2
<1>12. Top(table[c], c)' /\ (c = "main" => Top(before, "main")')
  BY <1>1, <1>5, <1>6, <1>10, <1>11 DEF Top, Upto
<1>13. ASSUME NEW e \in Catalogs, e # c
       PROVE  /\ ~Busy(e, q) /\ (Blank(e) => Blank(e)')
              /\ Top(table[e], e) => Top(table[e], e)'
              /\ Top(before, e) => Top(before, e)'
  <2>1. \A l \in Labels : Catalog(l) = e => mark'[l] = mark[l]
    BY <1>5, <1>6, <1>13
  <2> QED
    BY <1>1, <1>3, <1>13, <2>1 DEF Busy, Blank, Top, Upto
<1>14. Reach(r)'
  <2>1. Reach(q)
    BY <1>2 DEF RunC
  <2>2. CASE c = "main"
    BY <1>12, <1>13, <2>1, <2>2, CatalogsAre DEF Reach
  <2>3. CASE c = "candidate"
    BY <1>12, <1>13, <2>1, <2>3, CatalogsAre DEF Reach
  <2> QED
    BY <2>2, <2>3, CatalogsAre
<1>15. Goes(r)'
  <2>1. q.snap # 0 => Identity(c) = q.snap
    BY <1>2, <1>3, <1>5 DEF RunC, Goes
  <2>2. Identity(c)' = Identity(c)
    BY <1>1 DEF Identity
  <2>3. Upto(table[c], mark[r.label].value)'
    BY <1>1, <1>6, <1>10 DEF Upto
  <2> QED
    BY <1>4, <1>5, <2>1, <2>2, <2>3 DEF Goes, Busy
<1>16. late' = {}
  BY <1>1 DEF WindowCore
<1> QED
  BY <1>1, <1>4, <1>7, <1>8, <1>9, <1>14, <1>15, <1>16, WindowPut DEF RunC

\* Where the watermarks stay, so does what is known of the tables.
LEMMA ReachStays ==
    ASSUME UNCHANGED <<table, before, mark>>, NEW q, NEW r, Reach(q),
           q.at \notin {"built", "mark"}
    PROVE  Reach(r)'
<1>1. /\ \A c : Blank(c)' <=> Blank(c)
      /\ \A c \in Catalogs : Top(table[c], c) => Top(table[c], c)'
      /\ Top(before, "main") => Top(before, "main")'
  BY DEF Top, Blank, Upto
<1> QED
  BY <1>1, CatalogsAre DEF Reach, Busy

\* The time at which it has finished.
LEMMA WindowFinish ==
    ASSUME TypeInv, WindowCore, AllOnce', NEW x \in Slots, Finish(x)
    PROVE  WindowCore'
<1>1. /\ run[x].at = "end" /\ UNCHANGED <<kind, source, tables, mark, record, runs, late>>
      /\ snaps' = snaps /\ table' = table /\ before' = before /\ Contents' = Contents
      /\ clock' = clock + 1
  BY DEF Finish, tables, Contents
<1>2. PICK q \in Run : q = run[x] /\ RunC(q) /\ q.at = "end"
  BY <1>1, WindowRun
<1>3. PICK r \in Run :
        /\ run' = [run EXCEPT ![x] = r] /\ Kept4(r, q)
        /\ r.snap = q.snap /\ r.at = "end" /\ r.stamp = clock + 1
  BY <1>2, FinishIs
<1>4. r.label = q.label /\ r.by = q.by /\ r.version = q.version
  BY <1>3 DEF Kept4
<1>5. Numbers(r)'
  <2>1. snaps' \in Nat /\ snaps <= snaps'
    BY <1>1 DEF TypeInv, TypeOK
  <2> QED
    BY <1>1, <1>2, <1>3, <1>4, <2>1, NumbersStay DEF RunC
<1>6. OnRecord(r)'
  BY <1>1, <1>2, <1>3, <1>4 DEF RunC, OnRecord, Ending
<1>7. Tell(r)'
  BY <1>1, <1>2, <1>3, <1>4 DEF RunC, Tell, Ending, Upto
<1>8. Reach(r)'
  BY <1>1, <1>2, <1>3, ReachStays DEF RunC
<1>9. Goes(r)'
  <2>1. \A c : Identity(c)' = Identity(c)
    BY <1>1 DEF Identity
  <2> QED
    BY <1>1, <1>2, <1>3, <1>4, <2>1 DEF RunC, Goes, Busy, Upto
<1>10. late' = {}
  BY <1>1 DEF WindowCore
<1> QED
  BY <1>1, <1>3, <1>5, <1>6, <1>7, <1>8, <1>9, <1>10, WindowPut DEF RunC

LEMMA WindowEnd ==
    ASSUME TypeInv, StampInv, CopyInv, Windows, WindowCore, AllOnce', NEW x \in Slots, End(x)
    PROVE  WindowCore'
<1>1. /\ run[x].at = "end" /\ UNCHANGED <<kind, source, tables, mark, runs, late>>
      /\ snaps' = snaps /\ table' = table /\ before' = before /\ Contents' = Contents
      /\ run' = [run EXCEPT ![x] = Idle]
  BY DEF End, tables, Contents
<1>2. PICK q \in Run : q = run[x] /\ RunC(q)
  BY <1>1, WindowRun
<1>3. PICK c \in Catalogs, l \in Labels : l = q.label /\ c = Catalog(l)
  BY RunIs
<1>4. /\ q.at = "end" /\ q.stamp = clock /\ q.by = runs /\ q.version > 0 /\ q.version \in Nat /\ q.snap \in Nat
      /\ q.snap # 0 => Identity(c) = q.snap
      /\ Upto(table[c], mark[l].value)
  BY <1>1, <1>2, <1>3, RunIs DEF RunC, Numbers, Goes, End
<1>5. /\ record'[l].version = q.version /\ record'[l].snap = q.snap
      /\ \A k \in Labels \ {l} : record'[k] = record[k]
  <2>1. Claims(x) /\ q.stamp >= record[l].at
    BY <1>2, <1>3, <1>4 DEF Claims, StampInv, Dated, TypeInv, TypeOK
  <2>2. record' = [record EXCEPT ![l] = [version |-> q.version, snap |-> q.snap,
                                         at |-> q.stamp]]
    BY <1>2, <1>3, <2>1 DEF End, Recorded
  <2>3. record \in [Labels -> Record]
    BY TypeParts DEF StateType
  <2> QED
    BY <2>2, <2>3
<1>6. q.snap # 0 => table[c].snap = q.snap /\ table[c] \in Contents /\ q.snap <= snaps
  BY <1>4, IdentityIs, ContentsAre DEF TypeInv
<1>7. Numbers(Idle)'
  <2>1. /\ \A k \in Labels : mark[k].by <= runs
        /\ \A k \in Labels \ {l} : record'[k].snap <= snaps
    BY <1>2, <1>5 DEF RunC, Numbers
  <2>2. record'[l].snap <= snaps
    BY <1>5, <1>6 DEF TypeInv, TypeOK
  <2> QED
    BY <1>1, <2>1, <2>2, IdleType DEF Numbers
<1>8. OnRecord(Idle)'
  <2>1. \A k \in Labels \ {l} : mark[k].value # 0 => record'[k].version # 0
    BY <1>2, <1>3, <1>5 DEF RunC, OnRecord, Ending
  <2>2. record'[l].version # 0
    BY <1>4, <1>5
  <2> QED
    BY <1>1, <2>1, <2>2 DEF OnRecord
<1>9. Tell(Idle)'
  <2> SUFFICES ASSUME NEW k \in Labels, mark[k].value # 0, record'[k].snap # 0,
                      NEW t \in Contents, t.snap = record'[k].snap
               PROVE  Upto(t, mark[k].value)
    BY <1>1 DEF Tell, Upto
  <2>1. CASE k = l
    <3>1. t = table[c]
      BY <1>5, <1>6, <2>1 DEF CopyInv
    <3> QED
      BY <1>4, <2>1, <3>1
  <2>2. CASE k # l
    BY <1>2, <1>3, <1>5, <2>2 DEF RunC, Tell, Ending
  <2> QED
    BY <2>1, <2>2
<1>10. Reach(Idle)'
  BY <1>1, <1>2, <1>4, ReachStays DEF RunC
<1>11. late' = {}
  BY <1>1 DEF WindowCore
<1> QED
  BY <1>1, <1>7, <1>8, <1>9, <1>10, <1>11, IdleGoes, IdleType, WindowPut DEF RunC

LEMMA WindowAdopt ==
    ASSUME TypeInv, StampInv, Windows, WindowCore, AllOnce', NEW x \in Slots, Adopt(x)
    PROVE  WindowCore'
<1>1. /\ run[x].at = "adopt" /\ UNCHANGED <<kind, source, tables, mark, runs, late>>
      /\ snaps' = snaps /\ table' = table /\ before' = before /\ Contents' = Contents
  BY DEF Adopt, tables, Contents
<1>2. PICK q \in Run : q = run[x] /\ RunC(q)
  BY <1>1, WindowRun
<1>3. PICK c \in Catalogs, l \in Labels : l = q.label /\ c = Catalog(l)
  BY RunIs
<1>4. /\ q.at = "adopt" /\ q.by = runs /\ q.version > 0 /\ q.version \in Nat /\ q.snap \in Nat
      /\ q.reuse \in Labels /\ mark[l].value = 0 /\ q.snap # 0 /\ record[q.reuse].snap = q.snap
      /\ record[l].version = 0 /\ q.from = 0 /\ q.todo # <<"insert">>
  BY <1>1, <1>2, <1>3, RunIs DEF RunC, Numbers, Goes
<1>5. PICK r \in Run :
        /\ run' = [run EXCEPT ![x] = r] /\ Kept4(r, q)
        /\ \/ /\ r.at = "work" /\ r.todo = q.todo /\ Identity(c) # q.snap
           \/ /\ r.at = "copy" /\ r.snap = q.snap /\ r.reuse = q.reuse /\ Identity(c) = q.snap
  BY <1>2, <1>3, AdoptIs DEF Windows
<1>6. r.label = l /\ r.by = q.by /\ r.version = q.version /\ r.from = q.from
  BY <1>3, <1>5 DEF Kept4
<1>7. /\ \A k \in Labels \ {l} : record'[k] = record[k]
      /\ \/ /\ r.at = "work" /\ record'[l] = record[l]
         \/ /\ r.at = "copy" /\ record'[l].version = q.version /\ record'[l].snap = q.snap
  <2>1. record \in [Labels -> Record] /\ record[l].at = 0
    BY <1>4, TypeParts DEF StateType, StampInv, Dated
  <2>2. CASE r.at = "work"
    <3>1. Identity(c) # q.snap
      BY <1>5, <2>2
    <3>2. record' = record
      BY <1>2, <1>3, <3>1 DEF Adopt
    <3> QED
      BY <2>2, <3>2
  <2>3. CASE r.at = "copy"
    <3>1. Identity(c) = q.snap /\ q.stamp \in Nat
      BY <1>5, <2>3, RunIs
    <3>2. record' = [record EXCEPT ![l] = [version |-> q.version, snap |-> q.snap,
                                           at |-> q.stamp]]
      BY <1>2, <1>3, <2>1, <3>1 DEF Adopt, Recorded
    <3> QED
      BY <2>1, <2>3, <3>2
  <2> QED
    BY <1>5, <2>2, <2>3
<1>8. Numbers(r)'
  <2>1. \A k \in Labels : mark[k].by <= runs /\ record[k].snap <= snaps
    BY <1>2 DEF RunC, Numbers
  <2>2. \A k \in Labels : record'[k].snap <= snaps
    BY <1>4, <1>7, <2>1
  <2> QED
    BY <1>1, <1>4, <1>5, <1>6, <2>1, <2>2 DEF Numbers
<1>9. OnRecord(r)'
  <2>1. \A k \in Labels : mark[k].value # 0 => record[k].version # 0 /\ k # l
    BY <1>2, <1>4 DEF RunC, OnRecord, Ending
  <2> QED
    BY <1>1, <1>7, <2>1 DEF OnRecord
<1>10. Tell(r)'
  <2> SUFFICES ASSUME NEW k \in Labels, mark[k].value # 0, record'[k].snap # 0,
                      NEW t \in Contents, t.snap = record'[k].snap
               PROVE  Upto(t, mark[k].value)
    BY <1>1 DEF Tell, Upto
  <2>1. k # l
    BY <1>4
  <2> QED
    BY <1>2, <1>4, <1>7, <2>1 DEF RunC, Tell, Ending
<1>11. Reach(r)'
  BY <1>1, <1>2, <1>4, ReachStays DEF RunC
<1>12. Goes(r)'
  <2>1. CASE r.at = "work"
    BY <1>1, <1>4, <1>5, <1>6, <2>1 DEF Goes, Busy
  <2>2. CASE r.at = "copy"
    <3>1. r.snap = q.snap /\ r.reuse = q.reuse /\ Identity(c) = q.snap
      BY <1>5, <2>2
    <3>2. table[c].snap = q.snap
      BY <1>4, <3>1, IdentityIs DEF TypeInv
    <3>3. record'[q.reuse].snap = q.snap
      BY <1>4, <1>7, <2>2
    <3>4. record'[l].version # 0 /\ record'[l].snap = q.snap
      BY <1>4, <1>7, <2>2
    <3> QED
      BY <1>1, <1>3, <1>4, <1>6, <2>2, <3>1, <3>2, <3>3, <3>4 DEF Goes, Busy
  <2> QED
    BY <1>5, <2>1, <2>2
<1>13. late' = {}
  BY <1>1 DEF WindowCore
<1> QED
  BY <1>1, <1>5, <1>8, <1>9, <1>10, <1>11, <1>12, <1>13, WindowPut DEF RunC

\* The watermark copied is one of the output that was adopted.
LEMMA WindowCopyMark ==
    ASSUME TypeInv, Windows, WindowCore, AllOnce', NEW x \in Slots, CopyMark(x)
    PROVE  WindowCore'
<1>1. /\ run[x].at = "copy" /\ UNCHANGED <<kind, source, tables, record, runs, late>>
      /\ snaps' = snaps /\ table' = table /\ before' = before /\ Contents' = Contents
      /\ run' = [run EXCEPT ![x] = Idle]
  BY DEF CopyMark, tables, Contents
<1>2. PICK q \in Run : q = run[x] /\ RunC(q)
  BY <1>1, WindowRun
<1>3. PICK c \in Catalogs, l \in Labels : l = q.label /\ c = Catalog(l)
  BY RunIs
<1>4. /\ q.at = "copy" /\ q.by = runs /\ q.reuse \in Labels /\ mark[l].value = 0
      /\ q.snap # 0 /\ record[q.reuse].snap = q.snap
      /\ record[l].version # 0 /\ record[l].snap = q.snap /\ table[c].snap = q.snap
  BY <1>1, <1>2, <1>3, RunIs DEF RunC, Numbers, Goes
<1>5. PICK v \in Nat : v = mark[q.reuse].value
  BY <1>4, StateIs
<1>6. CASE v = 0
  <2>1. mark' = mark
    BY <1>2, <1>5, <1>6 DEF CopyMark
  <2>2. OnRecord(Idle)' /\ Tell(Idle)' /\ Reach(Idle)'
    BY <1>1, <1>2, <1>4, <2>1, QuietParts
  <2>3. Numbers(Idle)'
    <3>1. snaps' \in Nat /\ snaps <= snaps'
      BY <1>1 DEF TypeInv, TypeOK
    <3> QED
      BY <1>1, <1>2, <2>1, <3>1, IdleType, NumbersStay DEF RunC
  <2> QED
    BY <1>1, <2>2, <2>3, IdleGoes, IdleType, WindowPut DEF RunC, WindowCore
<1>7. CASE v # 0
  <2>1. /\ mark'[l].value = v /\ mark'[l].by = runs
        /\ \A k \in Labels \ {l} : mark'[k] = mark[k]
    <3>1. Numbers(q) /\ q.at # "idle"
      BY <1>2, <1>4 DEF RunC
    <3>2. mark' = Later(q.label, v, q.by)
      BY <1>2, <1>5, <1>7 DEF CopyMark
    <3> QED
      BY <1>3, <3>1, <3>2, LaterIs
  <2>2. \A t \in Contents : t.snap = q.snap => Upto(t, v)
    BY <1>2, <1>4, <1>5, <1>7 DEF RunC, Tell, Ending
  <2>3. Numbers(Idle)'
    <3>1. Numbers(q) /\ runs \in Nat
      BY <1>2 DEF RunC, TypeInv, TypeOK
    <3>2. \A k \in Labels : mark'[k].by <= runs
      BY <2>1, <3>1 DEF Numbers
    <3> QED
      BY <1>1, <3>1, <3>2, IdleType DEF Numbers
  <2>4. OnRecord(Idle)'
    BY <1>1, <1>2, <1>4, <2>1 DEF RunC, OnRecord, Ending
  <2>5. Tell(Idle)'
    <3> SUFFICES ASSUME NEW k \in Labels, mark'[k].value # 0, record[k].snap # 0,
                        NEW t \in Contents, t.snap = record[k].snap
                 PROVE  Upto(t, mark'[k].value)
      BY <1>1 DEF Tell, Upto
    <3>1. CASE k = l
      BY <1>4, <2>1, <2>2, <3>1
    <3>2. CASE k # l
      <4>1. mark'[k] = mark[k]
        BY <2>1, <3>2
      <4>2. Upto(t, mark[k].value)
        BY <1>2, <1>4, <4>1 DEF RunC, Tell, Ending
      <4> QED
        BY <4>1, <4>2
    <3> QED
      BY <3>1, <3>2
  <2>6. Reach(Idle)'
    <3>0. Reach(q) /\ \A e : ~Busy(e, q)
      BY <1>2, <1>4 DEF RunC, Busy
    <3>1. Top(table[c], c)'
      <4>1. Upto(table[c], v)
        BY <1>4, <2>2, ContentsAre
      <4> QED
        BY <1>1, <1>3, <2>1, <4>1 DEF Top, Upto
    <3>2. Top(before, "main") => Top(before, "main")'
      <4> SUFFICES ASSUME NEW k \in Labels, Catalog(k) = "main", Upto(before, mark[k].value)
                   PROVE  Top(before, "main")'
        BY DEF Top
      <4>1. CASE k = l
        <5>1. Upto(before, v)
          BY <1>4, <1>5, <4>1, UptoLess
        <5> QED
          BY <1>1, <2>1, <4>1, <5>1 DEF Top, Upto
      <4>2. CASE k # l
        BY <1>1, <2>1, <4>2 DEF Top, Upto
      <4> QED
        BY <4>1, <4>2
    <3>3. ASSUME NEW e \in Catalogs, e # c
          PROVE  (Blank(e) => Blank(e)') /\ (Top(table[e], e) => Top(table[e], e)')
      <4>1. \A k \in Labels : Catalog(k) = e => mark'[k] = mark[k]
        BY <1>3, <2>1, <3>3
      <4> QED
        BY <1>1, <4>1 DEF Blank, Top, Upto
    <3>4. CASE c = "main"
      <4>1. Shared # {}
        BY <1>3, <3>4, RunIs
      <4> QED
        BY <3>0, <3>1, <3>2, <3>3, <3>4, <4>1, CatalogsAre DEF Reach
    <3>5. CASE c = "candidate"
      BY <3>0, <3>1, <3>2, <3>3, <3>5, CatalogsAre DEF Reach
    <3> QED
      BY <3>4, <3>5, CatalogsAre
  <2> QED
    BY <1>1, <2>3, <2>4, <2>5, <2>6, IdleGoes, IdleType, WindowPut DEF RunC, WindowCore
<1> QED
  BY <1>6, <1>7

\* What happens around the run there may be.
LEMMA WindowHold ==
    ASSUME TypeInv, WindowCore, run' = run, late' = late, AllOnce',
           \A q \in Run : (\E x \in Slots : q = run[x]) /\ RunC(q) => RunC(q)'
    PROVE  WindowCore'
<1>1. Lone' /\ late' = {}
  BY DEF WindowCore, Lone
<1>2. ASSUME NEW x \in Slots, Alone(x)' PROVE RunC(run[x])'
  <2>1. Alone(x)
    BY <1>2 DEF Alone
  <2>2. PICK q \in Run : q = run[x] /\ RunC(q)
    BY <2>1, RunFields DEF WindowCore, TypeInv
  <2>3. RunC(q)' /\ q = run'[x]
    BY <2>2
  <2> QED
    BY <2>3, RunHas
<1> QED
  BY <1>1, <1>2 DEF WindowCore

LEMMA WindowStill ==
    ASSUME TypeInv, WindowCore, AllOnce',
           UNCHANGED <<kind, tables, mark, record, clock, run, runs, late>>
    PROVE  WindowCore'
<1>1. UNCHANGED <<kind, table, before, snaps, mark, record, clock, run, runs, late>>
  BY DEF tables
<1>2. ASSUME NEW q \in Run, RunC(q) PROVE RunC(q)'
  <2>1. Numbers(q)' /\ OnRecord(q)'
    BY <1>1, <1>2 DEF RunC, Numbers, OnRecord, Ending
  <2>2. Reach(q)'
    BY <1>1, <1>2 DEF RunC, Reach, Busy, Top, Blank, Upto
  <2>3. Tell(q)'
    BY <1>1, <1>2 DEF RunC, Tell, Contents, Ending, Upto
  <2>4. Goes(q)'
    BY <1>1, <1>2 DEF RunC, Goes, Busy, Upto, Identity
  <2> QED
    BY <2>1, <2>2, <2>3, <2>4 DEF RunC
<1> QED
  BY <1>1, <1>2, WindowHold

\* The candidate has no watermarks yet when it is cut.
LEMMA WindowCut ==
    ASSUME TypeInv, UnreadInv, WindowCore, AllOnce', CutBranch
    PROVE  WindowCore'
<1>1. /\ UNCHANGED <<kind, before, snaps, mark, record, clock, run, runs, late>> /\ cut = {}
      /\ table'["main"] = table["main"] /\ table'["candidate"] = table["main"]
      /\ Contents' \subseteq Contents
  BY DEF CutBranch, state, TypeInv, TypeOK, Catalogs, Contents
<1>2. Blank("candidate")'
  BY <1>1 DEF UnreadInv, Unread, Blank, Catalog
<1>3. ASSUME NEW x \in Slots, NEW q \in Run, q = run[x], q.at # "idle"
      PROVE  Catalog(q.label) = "main"
  BY <1>1, <1>3, RunIs DEF UnreadInv, Unread, Catalog
<1>4. ASSUME NEW x \in Slots, NEW q \in Run, q = run[x], RunC(q) PROVE RunC(q)'
  <2>1. Numbers(q)' /\ OnRecord(q)'
    BY <1>1, <1>4 DEF RunC, Numbers, OnRecord, Ending
  <2>2. Reach(q)'
    BY <1>1, <1>2, <1>4 DEF RunC, Reach, Busy, Top, Upto
  <2>3. Tell(q)'
    BY <1>1, <1>4 DEF RunC, Tell, Ending, Upto
  <2>4. CASE q.at = "idle"
    BY <2>1, <2>2, <2>3, <2>4 DEF RunC, Goes, Busy
  <2>5. CASE q.at # "idle"
    <3>1. Catalog(q.label) = "main"
      BY <1>3, <1>4, <2>5
    <3>2. Goes(q)'
      BY <1>1, <1>4, <3>1 DEF RunC, Goes, Busy, Upto, Identity
    <3> QED
      BY <2>1, <2>2, <2>3, <3>2 DEF RunC
  <2> QED
    BY <2>4, <2>5
<1> QED
  BY <1>1, <1>4, WindowHold

\* Main is set back to what its labels have told of as well.
LEMMA WindowRollback ==
    ASSUME TypeInv, WindowCore, ~Unrecorded', AllOnce', Rollback
    PROVE  WindowCore'
<1>1. /\ UNCHANGED <<kind, before, snaps, mark, record, clock, run, runs, late>>
      /\ table'["main"] = before /\ table'["candidate"] = table["candidate"]
      /\ Contents' \subseteq Contents
  BY DEF Rollback, state, TypeInv, TypeOK, Catalogs, Contents
<1>2. \A x \in Slots : run[x].at = "idle"
  BY RecordedIs DEF Rollback, Slip, Beside
<1>3. ASSUME NEW q \in Run, q.at = "idle", RunC(q) PROVE RunC(q)'
  <2>1. Numbers(q)' /\ OnRecord(q)'
    BY <1>1, <1>3 DEF RunC, Numbers, OnRecord, Ending
  <2>2. Reach(q)'
    BY <1>1, <1>3 DEF RunC, Reach, Busy, Top, Blank, Upto
  <2>3. Tell(q)'
    BY <1>1, <1>3 DEF RunC, Tell, Ending, Upto
  <2> QED
    BY <1>3, <2>1, <2>2, <2>3 DEF RunC, Goes, Busy
<1> QED
  BY <1>1, <1>2, <1>3, WindowHold

LEMMA WindowNext ==
    TypeInv /\ StampInv /\ PlansInv /\ CopyInv /\ UnreadInv /\ WindowInv /\ [Next]_vars => WindowInv'
<1> SUFFICES ASSUME TypeInv, StampInv, PlansInv, CopyInv, UnreadInv, WindowInv, [Next]_vars,
                    Windows', ~Unrecorded'
             PROVE  WindowCore'
  BY DEF WindowInv
<1>1. Windows /\ WindowCore /\ late = {}
  BY StepWrites, UnrecordedGrows DEF WindowInv, WindowCore, Windows
<1>2. AllOnce'
  <2>1. ASSUME NEW c \in Catalogs, NEW n \in 0..MaxRows, Doing("insert", c, n),
               NEW k \in Rows, k > n
        PROVE  table[c].rows[k] = 0
    <3>1. PICK x \in Slots : /\ Executing(x) /\ Does(x) = "insert"
                             /\ c = Catalog(run[x].label) /\ n = run[x].from
      BY <1>1, <2>1 DEF Doing
    <3>2. PICK q \in Run : q = run[x] /\ RunC(q)
      BY <1>1, <3>1, WindowRun DEF Executing
    <3>3. Upto(table[c], n)
      BY <3>1, <3>2, InsertIs DEF RunC, Goes, Executing
    <3> QED
      BY <2>1, <3>3 DEF Upto
  <2> QED
    BY <1>1, <2>1, OnceStep DEF WindowCore
<1>3. CASE UNCHANGED vars
  <2>1. UNCHANGED <<kind, tables, mark, record, clock, run, runs, late>>
    BY <1>3 DEF vars, state
  <2> QED
    BY <1>1, <1>2, <2>1, WindowStill
<1>4. CASE RunStep
  BY <1>1, <1>2, <1>4, WindowStart, WindowExecute, WindowEnds, WindowJoin, WindowSetMark,
     WindowFinish, WindowEnd, WindowAdopt, WindowCopyMark
     DEF RunStep
<1>5. CASE FaultStep
  <2>1. \A x \in Slots : ~Abandon(x) /\ ~Drain(x)
    BY RecordedIs DEF Abandon, Drain, Slip
  <2> QED
    BY <1>1, <1>2, <1>5, <2>1, WindowFail, WindowEnds DEF FaultStep
<1>6. CASE WorldStep
  <2>1. ~Publish
    BY RecordedIs DEF Publish, Slip
  <2>2. Arrive => UNCHANGED <<kind, tables, mark, record, clock, run, runs, late>>
    BY DEF Arrive, state
  <2> QED
    BY <1>1, <1>2, <1>6, <2>1, <2>2, WindowStill, WindowCut, WindowRollback DEF WorldStep
<1> QED
  BY <1>3, <1>4, <1>5, <1>6 DEF Next

LEMMA WindowInit == Init => WindowInv
<1> SUFFICES ASSUME Init PROVE WindowCore
  BY DEF WindowInv
<1>1. /\ table["main"] = Absent /\ table["candidate"] = Absent /\ before = Absent
      /\ \A l \in Labels : /\ mark[l].value = 0 /\ mark[l].by = 0
                           /\ record[l].version = 0 /\ record[l].snap = 0
      /\ \A x \in Slots : run[x] = Idle
      /\ runs = 0 /\ snaps = 0 /\ late = {}
  BY DEF Init, Catalogs, NoMark, NoRecord
<1>2. Shared # {} => Top(Absent, "main")
  BY LabelAssumption DEF Top, Upto, Absent, Catalog
<1>3. RunC(Idle)
  <2>1. Reach(Idle)
    BY <1>1, <1>2 DEF Reach, Blank
  <2>2. Numbers(Idle) /\ OnRecord(Idle) /\ Tell(Idle)
    BY <1>1, IdleType DEF Numbers, OnRecord, Tell
  <2> QED
    BY <2>1, <2>2, IdleGoes DEF RunC
<1>4. Lone
  BY <1>1, IdleType DEF Lone
<1> QED
  BY <1>1, <1>3, <1>4, OnceInit DEF WindowCore

LEMMA WindowAlways == Spec => []WindowInv
<1>1. TypeInv /\ StampInv /\ PlansInv /\ CopyInv /\ UnreadInv /\ WindowInv /\ [Next]_vars => WindowInv'
  BY WindowNext
<1> QED
  BY <1>1, WindowInit, TypeAlways, StampAlways, PlansAlways, CopyAlways, UnreadAlways, PTL DEF Spec

\* No row is appended twice: never where a key is merged, with runs that follow
\* each other where a deletion and an insertion replace rows, and in a window
\* where also every append is followed by its watermark.
THEOREM RowsAreSingleHolds == Spec => []RowsAreSingle
<1>1. TypeInv /\ MergedInv /\ EmptiedInv /\ WindowInv => RowsAreSingle
  <2> SUFFICES ASSUME TypeInv, MergedInv, EmptiedInv, WindowInv,
                      kind.strategy # "append", ~(kind.overlap > 0), ~Happened(Excuses),
                      NEW c \in Catalogs, NEW n \in Rows
               PROVE  table[c].rows[n] <= 1
    BY DEF RowsAreSingle
  <2>1. /\ kind.strategy \in {"append", "key", "partition", "window"}
        /\ kind.overlap \in Nat
    BY KindAssumption DEF TypeInv, TypeOK
  <2>2. AllOnce
    <3>1. CASE kind.strategy = "window"
      <4>1. Windows
        BY <2>1, <3>1 DEF Windows
      <4>2. Excuses = Slips \ {"half done", "set back", "copied"}
        BY <3>1 DEF Excuses
      <4>3. ~Unrecorded
        BY <4>2 DEF Unrecorded, Happened
      <4> QED
        BY <4>1, <4>3 DEF WindowInv, WindowCore
    <3>2. CASE OneStatement
      BY <3>2 DEF MergedInv
    <3>3. CASE kind.strategy # "window" /\ ~OneStatement
      <4>1. kind.strategy \in TwoSteps /\ ~Crowded
        BY <2>1, <3>3 DEF TwoSteps, Crowded, Excuses, OneStatement
      <4> QED
        BY <4>1 DEF EmptiedInv, EmptiedCore
    <3> QED
      BY <3>1, <3>2, <3>3
  <2> QED
    BY <2>2, ContentsAre DEF AllOnce, Once
<1> QED
  BY <1>1, TypeAlways, MergedAlways, EmptiedAlways, WindowAlways, PTL
=============================================================================
