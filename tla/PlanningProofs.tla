--------------------------- MODULE PlanningProofs ---------------------------
(***************************************************************************)
(* Theorems about Planning, for any files, readings, selections and        *)
(* warehouses.                                                             *)
(***************************************************************************)
EXTENDS Planning, FiniteSetTheorems, SequenceTheorems, TLAPS

-----------------------------------------------------------------------------
(***************************************************************************)
(* The inductive invariant.                                                *)
(***************************************************************************)
Black == {m \in Models : colour[m] = "black"}
Emitted == {order[i] : i \in 1..Len(order)}

\* No set of these models is a knot: one of it depends on none of it.
Founded(S) == \A T \in SUBSET S : T # {} => \E m \in T : deps[m] \cap T = {}

\* The stack is a path of the grey models; what was left depends on what was
\* left, and has no knot.
SearchInv ==
    /\ phase = "compile" => /\ stack = <<>> /\ cycle = <<>>
                            /\ \A m \in Models : colour[m] = "white"
    /\ phase = "cycle" => /\ cycle = <<>>
                          /\ \A i, j \in 1..Len(stack) : stack[i] = stack[j] => i = j
                          /\ \A m \in Models : colour[m] = "grey"
                                <=> \E i \in 1..Len(stack) : stack[i] = m
    /\ \A i \in 1..Len(stack) - 1 : stack[i + 1] \in deps[stack[i]]
    /\ \A m \in Black : deps[m] \subseteq Black
    /\ Founded(Black)
    /\ phase \notin {"compile", "cycle"} =>
        /\ cycle = <<>> => Black = Models
        /\ cycle # <<>> => IsCycle(cycle)
    /\ cycle # <<>> => errors

\* What was emitted depends on what was emitted before, and what may be
\* emitted next is exactly what depends on nothing else.
SortInv ==
    /\ phase \in {"compile", "cycle"} => order = <<>>
    /\ \A i, j \in 1..Len(order) : order[i] = order[j] => i = j
    /\ \A i \in 1..Len(order) : \A d \in deps[order[i]] :
        \E j \in 1..i - 1 : order[j] = d
    /\ Founded(Emitted)
    /\ Len(order) = Cardinality(Emitted)
    /\ phase = "sort" =>
        /\ \A m \in Models : remaining[m] = Cardinality(deps[m] \ Emitted)
        /\ ready = {m \in Models \ Emitted : deps[m] \subseteq Emitted}
    /\ phase \notin {"compile", "cycle", "sort"} =>
        \A m \in Models \ Emitted : ~(deps[m] \subseteq Emitted)

PlanInv ==
    /\ members \cap excluded = {}
    /\ phase \in {"seeds", "models", "over"} =>
        /\ planned = Closure /\ ~Unsafe(planned) /\ ~errors
        /\ \A s \in Seeds : s \in Needed(planned) => loaded[s] # "none"

IInv == TypeOK /\ SearchInv /\ SortInv /\ PlanInv

-----------------------------------------------------------------------------
(***************************************************************************)
(* Finite sets, and closures.                                              *)
(***************************************************************************)
LEMMA ModelsFinite == IsFiniteSet(Models)
<1> DEFINE f == [x \in Files |-> Identity(x)]
<1>1. f \in Surjection(Files, Models)
  BY DEF Surjection, Models
<1> QED
  BY <1>1, FS_Surjection, FileAssumption

LEMMA SubsetFinite ==
    ASSUME NEW S \in SUBSET Models
    PROVE  IsFiniteSet(S) /\ Cardinality(S) \in Nat
  BY ModelsFinite, FS_Subset, FS_CardinalityType

LEMMA ReachIn == ASSUME NEW S, NEW next PROVE Reach(S, next) \subseteq Models
  BY DEF Reach

\* A closure holds what it starts from and what follows from that.
LEMMA ReachClosed ==
    ASSUME NEW S \in SUBSET Models, NEW next \in [Models -> SUBSET Models]
    PROVE  /\ S \subseteq Reach(S, next)
           /\ \A m \in Reach(S, next) : next[m] \subseteq Reach(S, next)
  BY DEF Reach

\* It is in every set that does.
LEMMA ReachLeast ==
    ASSUME NEW S, NEW next, NEW T \in SUBSET Models,
           S \subseteq T, \A k \in T : next[k] \subseteq T
    PROVE  Reach(S, next) \subseteq T
  BY DEF Reach

\* A model with no dependency among them can be put after models without a knot.
LEMMA FoundedAdd ==
    ASSUME TypeOK, NEW S \in SUBSET Models, Founded(S),
           \A m \in S : deps[m] \subseteq S,
           NEW x \in Models \ S, deps[x] \subseteq S
    PROVE  Founded(S \cup {x}) /\ \A m \in S \cup {x} : deps[m] \subseteq S \cup {x}
<1>1. Founded(S \cup {x})
  <2> SUFFICES ASSUME NEW T \in SUBSET (S \cup {x}), T # {}
               PROVE  \E m \in T : deps[m] \cap T = {}
    BY DEF Founded
  <2>1. CASE T \ {x} = {}
    <3>1. T = {x}
      BY <2>1
    <3> QED
      BY <3>1
  <2>2. CASE T \ {x} # {}
    <3>1. T \ {x} \in SUBSET S
      OBVIOUS
    <3>2. PICK m \in T \ {x} : deps[m] \cap (T \ {x}) = {}
      BY <2>2, <3>1 DEF Founded
    <3>3. x \notin deps[m]
      BY <3>1
    <3> QED
      BY <3>2, <3>3
  <2> QED
    BY <2>1, <2>2
<1> QED
  BY <1>1

-----------------------------------------------------------------------------
(***************************************************************************)
(* Selections are sets of models.                                          *)
(***************************************************************************)
LEMMA BaseIn ==
    ASSUME NEW t \in Term, NEW changed \in SUBSET Models
    PROVE  BaseMatch(t, changed) \subseteq Models
<1>1. t.kind \in {"all", "name", "glob", "tag", "namespace", "source", "changed"}
  BY DEF Term
<1>2. Named(t.name) \subseteq Models
  BY DEF Named
<1> QED
  BY <1>1, <1>2 DEF BaseMatch

LEMMA ExpandedIn ==
    ASSUME NEW S, NEW up, NEW down
    PROVE  Expanded(S, up, down) \subseteq Models
  BY ReachIn DEF Expanded, Upstream, Downstream

LEMMA IncludedIn ==
    ASSUME NEW r, NEW changed
    PROVE  Included(r, changed) \subseteq Models
  BY ExpandedIn DEF Included

LEMMA ExcludedIn ==
    ASSUME NEW r \in Requests, NEW changed \in SUBSET Models
    PROVE  Excluded(r, changed) \subseteq Models
<1> SUFFICES ASSUME NEW t \in r.exclude
             PROVE  LET base == BaseMatch(t, changed)
                        up == base \cup Expanded(base, t.upstream, FALSE)
                    IN  up \cup Expanded(up, FALSE, t.downstream) \subseteq Models
  BY DEF Excluded
<1>1. t \in Term
  BY RequestAssumption DEF IsRequest
<1> QED
  BY <1>1, BaseIn, ExpandedIn

LEMMA ChangedIn ==
    ASSUME NEW edited, NEW tables \in SUBSET Models
    PROVE  Changed(edited, tables) \subseteq Models /\ Downstream(edited) \subseteq Models
  BY ReachIn DEF Changed, Downstream

-----------------------------------------------------------------------------
(***************************************************************************)
(* The invariant holds at the start.                                       *)
(***************************************************************************)
LEMMA Start_ == Init => IInv
<1> SUFFICES ASSUME Init PROVE IInv
  OBVIOUS
<1>1. TypeOK
  <2>1. <<>> \in Seq(Models)
    BY EmptySeq
  <2> QED
    BY <2>1 DEF Init, TypeOK, Phase, Status
<1>2. Black = {} /\ Emitted = {} /\ Len(order) = 0
  BY DEF Init, Black, Emitted
<1>3. Founded({})
  BY DEF Founded
<1>4. SearchInv
  BY <1>2, <1>3 DEF Init, SearchInv
<1>5. SortInv
  BY <1>2, <1>3, FS_EmptySet DEF Init, SortInv
<1>6. PlanInv
  BY DEF Init, PlanInv
<1> QED
  BY <1>1, <1>4, <1>5, <1>6 DEF IInv

-----------------------------------------------------------------------------
(***************************************************************************)
(* Types.                                                                  *)
(***************************************************************************)
\* What is still to be counted of a dependency that was not emitted.
LEMMA Counted ==
    ASSUME TypeOK, SortInv, phase = "sort", NEW m \in ready, NEW k \in Models
    PROVE  /\ m \in Models \ Emitted
           /\ m \in deps[k] =>
                /\ remaining[k] - 1 \in Nat
                /\ remaining[k] - 1 = Cardinality(deps[k] \ (Emitted \cup {m}))
           /\ m \notin deps[k] =>
                remaining[k] = Cardinality(deps[k] \ (Emitted \cup {m}))
<1>1. m \in Models \ Emitted
  BY DEF SortInv
<1>2. remaining[k] = Cardinality(deps[k] \ Emitted)
  BY DEF SortInv
<1>3. deps[k] \in SUBSET Models
  BY DEF TypeOK
<1>4. IsFiniteSet(deps[k] \ Emitted)
  BY <1>3, SubsetFinite
<1>5. ASSUME m \in deps[k]
      PROVE  /\ remaining[k] - 1 \in Nat
             /\ remaining[k] - 1 = Cardinality(deps[k] \ (Emitted \cup {m}))
  <2>1. m \in deps[k] \ Emitted
    BY <1>1, <1>5
  <2>2. Cardinality((deps[k] \ Emitted) \ {m}) = Cardinality(deps[k] \ Emitted) - 1
    BY <1>4, <2>1, FS_RemoveElement
  <2>3. (deps[k] \ Emitted) \ {m} = deps[k] \ (Emitted \cup {m})
    OBVIOUS
  <2>4. Cardinality(deps[k] \ (Emitted \cup {m})) \in Nat
    BY <1>3, SubsetFinite
  <2> QED
    BY <1>2, <2>2, <2>3, <2>4
<1>6. m \notin deps[k] => deps[k] \ (Emitted \cup {m}) = deps[k] \ Emitted
  OBVIOUS
<1> QED
  BY <1>1, <1>2, <1>5, <1>6

LEMMA Slice ==
    ASSUME NEW s \in Seq(Models), NEW i \in 1..Len(s) + 1, NEW j \in 0..Len(s)
    PROVE  /\ SubSeq(s, i, j) \in Seq(Models)
           /\ Len(SubSeq(s, i, j)) = IF i <= j THEN j - i + 1 ELSE 0
           /\ \A k \in 1..j - i + 1 : SubSeq(s, i, j)[k] = s[i + k - 1]
<1>1. Len(s) \in Nat
  BY LenProperties
<1>2. \A k \in i..j : s[k] \in Models
  BY <1>1, ElementOfSeq
<1>3. i \in Int /\ j \in Int
  BY <1>1
<1> QED
  BY <1>2, <1>3, SubSeqProperties

LEMMA TypeStep ==
    ASSUME TypeOK, SearchInv, SortInv, [Next]_vars
    PROVE  TypeOK'
<1> USE DEF Phase, Status
<1>1. CASE Compile
  BY <1>1 DEF Compile, TypeOK, workspace, search, sorting, selection, run
<1>2. ASSUME NEW m \in Models, Visit(m) PROVE TypeOK'
  <2>1. stack' \in Seq(Models) /\ colour' \in [Models -> {"white", "grey", "black"}]
    BY <1>2, AppendProperties DEF Visit, TypeOK
  <2> QED
    BY <1>2, <2>1 DEF Visit, TypeOK, workspace, compiled, sorting, selection, run
<1>3. ASSUME StartSort PROVE remaining' \in [Models -> Nat] /\ ready' \subseteq Models
  <2>1. \A k \in Models : Cardinality(deps[k]) \in Nat
    BY SubsetFinite DEF TypeOK
  <2> QED
    BY <1>3, <2>1 DEF StartSort
<1>4. ASSUME NEW m \in Models, BackEdge(m) PROVE TypeOK'
  <2>1. remaining' \in [Models -> Nat] /\ ready' \subseteq Models
    BY <1>3, <1>4 DEF BackEdge
  <2>2. cycle' \in Seq(Models)
    <3> DEFINE i == CHOOSE i \in 1..Len(stack) : stack[i] = m
    <3>1. cycle' = Append(SubSeq(stack, i, Len(stack)), m)
      BY <1>4 DEF BackEdge
    <3>2. PICK k \in 1..Len(stack) : stack[k] = m
      BY <1>4 DEF BackEdge, SearchInv
    <3>3. i \in 1..Len(stack)
      BY <3>2
    <3>4. stack \in Seq(Models) /\ Len(stack) \in Nat
      BY LenProperties DEF TypeOK
    <3> HIDE DEF i
    <3>5. SubSeq(stack, i, Len(stack)) \in Seq(Models)
      BY <3>3, <3>4, Slice
    <3> QED
      BY <3>1, <3>5, AppendProperties
  <2> QED
    BY <1>4, <2>1, <2>2
       DEF BackEdge, StartSort, TypeOK, workspace, compiled, sorting, selection, run
<1>5. CASE Leave
  <2>1. stack' \in Seq(Models) /\ colour' \in [Models -> {"white", "grey", "black"}]
    <3>1. Len(stack) \in Nat /\ Len(stack) # 0
      BY <1>5, EmptySeq, LenProperties DEF Leave, TypeOK
    <3>2. SubSeq(stack, 1, Len(stack) - 1) \in Seq(Models)
      BY <3>1, Slice DEF TypeOK
    <3> QED
      BY <1>5, <3>2 DEF Leave, TypeOK
  <2> QED
    BY <1>5, <2>1 DEF Leave, TypeOK, workspace, compiled, sorting, selection, run
<1>6. CASE NoCycle
  <2>1. remaining' \in [Models -> Nat] /\ ready' \subseteq Models
    BY <1>3, <1>6 DEF NoCycle
  <2> QED
    BY <1>6, <2>1
       DEF NoCycle, StartSort, TypeOK, workspace, compiled, search, selection, run
<1>7. ASSUME NEW m \in Models, Emit(m) PROVE TypeOK'
  <2>1. order' \in Seq(Models)
    BY <1>7, AppendProperties DEF Emit, TypeOK
  <2>2. remaining' \in [Models -> Nat]
    BY <1>7, Counted DEF Emit, TypeOK
  <2>3. ready' \subseteq Models
    BY <1>7 DEF Emit, TypeOK
  <2> QED
    BY <1>7, <2>1, <2>2, <2>3
       DEF Emit, TypeOK, workspace, compiled, search, selection, run
<1>8. CASE Sorted
  BY <1>8 DEF Sorted, TypeOK, workspace, compiled, search, sorting, selection, run
<1>9. ASSUME NEW r \in Requests, NEW tables \in Warehouses, NEW edited \in Edits,
             Select(r, tables, edited)
      PROVE  TypeOK'
  <2>1. tables \in SUBSET Models
    BY WorkspaceAssumption
  <2>2. Changed(edited, tables) \subseteq Models /\ Downstream(edited) \subseteq Models
    BY <2>1, ChangedIn
  <2>3. /\ Included(r, Changed(edited, tables)) \subseteq Models
        /\ Excluded(r, Changed(edited, tables)) \subseteq Models
    BY <2>2, IncludedIn, ExcludedIn
  <2>4. /\ present' \subseteq Models /\ stale' \subseteq Models
        /\ members' \subseteq Models /\ excluded' \subseteq Models
        /\ phase' \in Phase
    BY <1>9, <2>1, <2>2, <2>3 DEF Select, TypeOK
  <2> QED
    BY <1>9, <2>4 DEF Select, TypeOK, workspace, compiled, search, sorting, run
<1>10. CASE Plan
  BY <1>10, ReachIn DEF Plan, Closure, TypeOK, workspace, compiled, search, sorting, selection
<1>11. ASSUME NEW s \in Seeds, NEW result \in {"passed", "failed", "skipped"},
              LoadSeed(s, result)
       PROVE  TypeOK'
  BY <1>11 DEF LoadSeed, TypeOK, workspace, compiled, search, sorting, selection
<1>12. CASE StartModels
  BY <1>12 DEF StartModels, TypeOK, workspace, compiled, search, sorting, selection
<1>13. ASSUME NEW m \in Models, Start(m) PROVE TypeOK'
  BY <1>13 DEF Start, TypeOK, workspace, compiled, search, sorting, selection
<1>14. ASSUME NEW m \in Models, NEW passed \in BOOLEAN, Finish(m, passed)
       PROVE  TypeOK'
  BY <1>14 DEF Finish, TypeOK, workspace, compiled, search, sorting, selection
<1>15. CASE EndRun
  BY <1>15 DEF EndRun, TypeOK, workspace, compiled, search, sorting, selection, run
<1>16. CASE UNCHANGED vars
  BY <1>16 DEF vars, TypeOK, workspace, compiled, search, sorting, selection, run
<1> QED
  BY <1>1, <1>2, <1>4, <1>5, <1>6, <1>7, <1>8, <1>9, <1>10, <1>11, <1>12,
     <1>13, <1>14, <1>15, <1>16 DEF Next

-----------------------------------------------------------------------------
(***************************************************************************)
(* The search.                                                             *)
(***************************************************************************)
LEMMA VisitSearch ==
    ASSUME TypeOK, SearchInv, NEW m \in Models, Visit(m)
    PROVE  SearchInv'
<1> DEFINE n == Len(stack)
<1>1. /\ n \in Nat /\ Len(stack') = n + 1
      /\ \A i \in 1..n : stack'[i] = stack[i]
      /\ stack'[n + 1] = m
  BY AppendProperties, LenProperties DEF Visit, TypeOK
<1>2. phase = "cycle" /\ phase' = "cycle" /\ cycle = <<>> /\ cycle' = <<>> /\ deps' = deps
  BY DEF Visit, SearchInv, compiled
<1>3. \A i \in 1..n : stack[i] # m
  BY <1>2 DEF Visit, SearchInv
<1>4. \A i, j \in 1..n + 1 : stack'[i] = stack'[j] => i = j
  <2>1. \A i, j \in 1..n : stack[i] = stack[j] => i = j
    BY <1>2 DEF SearchInv
  <2> QED
    BY <1>1, <1>3, <2>1
<1>5. \A k \in Models : colour'[k] = "grey" <=> \E i \in 1..n + 1 : stack'[i] = k
  <2>1. \A k \in Models : colour[k] = "grey" <=> \E i \in 1..n : stack[i] = k
    BY <1>2 DEF SearchInv
  <2>2. colour' = [colour EXCEPT ![m] = "grey"] /\ DOMAIN colour = Models
    BY DEF Visit, TypeOK
  <2>3. ASSUME NEW k \in Models, k # m
        PROVE  colour'[k] = "grey" <=> \E i \in 1..n + 1 : stack'[i] = k
    <3>1. colour'[k] = colour[k]
      BY <2>2, <2>3
    <3>2. (\E i \in 1..n + 1 : stack'[i] = k) <=> \E i \in 1..n : stack[i] = k
      BY <1>1, <2>3
    <3> QED
      BY <2>1, <3>1, <3>2
  <2>4. colour'[m] = "grey" /\ \E i \in 1..n + 1 : stack'[i] = m
    BY <1>1, <2>2
  <2> QED
    BY <2>3, <2>4
<1>6. \A i \in 1..n : stack'[i + 1] \in deps[stack'[i]]
  <2>1. \A i \in 1..n - 1 : stack[i + 1] \in deps[stack[i]]
    BY DEF SearchInv
  <2>2. n > 0 => m \in deps[stack[n]]
    BY <1>1 DEF Visit, Top
  <2> QED
    BY <1>1, <2>1, <2>2
<1>7. Black' = Black
  BY DEF Black, Visit, TypeOK
<1>8. Founded(Black)' /\ \A k \in Black' : deps'[k] \subseteq Black'
  BY <1>2, <1>7 DEF SearchInv, Founded
<1> QED
  BY <1>1, <1>2, <1>4, <1>5, <1>6, <1>8 DEF SearchInv

LEMMA BackEdgeSearch ==
    ASSUME TypeOK, SearchInv, NEW m \in Models, BackEdge(m)
    PROVE  SearchInv'
<1> DEFINE n == Len(stack)
           i == CHOOSE i \in 1..Len(stack) : stack[i] = m
           s == SubSeq(stack, i, n)
<1>1. /\ phase = "cycle" /\ m \in deps[stack[n]] /\ colour[m] = "grey"
      /\ cycle' = Append(s, m) /\ errors'
      /\ phase' = "sort" /\ deps' = deps /\ colour' = colour /\ stack' = stack
  BY DEF BackEdge, StartSort, Top, compiled
<1>2. n \in Nat /\ stack \in Seq(Models)
  BY LenProperties DEF TypeOK
<1>3. i \in 1..n /\ stack[i] = m
  BY <1>1 DEF SearchInv
<1> HIDE DEF i
<1>4. /\ s \in Seq(Models) /\ Len(s) = n - i + 1
      /\ \A k \in 1..n - i + 1 : s[k] = stack[i + k - 1]
  BY <1>2, <1>3, Slice
<1> HIDE DEF s
<1>5. /\ Len(cycle') = n - i + 2
      /\ \A k \in 1..n - i + 1 : cycle'[k] = stack[i + k - 1]
      /\ cycle'[n - i + 2] = m
      /\ cycle' # <<>>
  <2>1. /\ Len(Append(s, m)) = Len(s) + 1 /\ Append(s, m) # <<>>
        /\ \A k \in 1..Len(s) : Append(s, m)[k] = s[k]
        /\ Append(s, m)[Len(s) + 1] = m
    BY <1>4, AppendProperties
  <2>2. n - i + 1 \in Nat
    BY <1>2, <1>3
  <2> QED
    BY <1>1, <1>2, <1>3, <1>4, <2>1, <2>2
<1>6. IsCycle(cycle)'
  <2>1. Len(cycle') > 1 /\ cycle'[1] = cycle'[Len(cycle')]
    BY <1>2, <1>3, <1>5
  <2>2. ASSUME NEW k \in 1..n - i + 1 PROVE cycle'[k + 1] \in deps[cycle'[k]]
    <3>1. CASE k = n - i + 1
      BY <1>1, <1>2, <1>3, <1>5, <3>1
    <3>2. CASE k < n - i + 1
      <4>1. cycle'[k] = stack[i + k - 1] /\ cycle'[k + 1] = stack[(i + k - 1) + 1]
        BY <1>2, <1>3, <1>5, <3>2
      <4>2. i + k - 1 \in 1..n - 1
        BY <1>2, <1>3, <3>2
      <4> QED
        BY <4>1, <4>2 DEF SearchInv
    <3> QED
      BY <1>2, <1>3, <3>1, <3>2
  <2>3. Len(cycle') - 1 = n - i + 1 /\ deps' = deps
    BY <1>1, <1>2, <1>3, <1>5
  <2> QED
    BY <2>1, <2>2, <2>3 DEF IsCycle
<1>7. Black' = Black
  BY <1>1 DEF Black
<1>8. Founded(Black)' /\ \A k \in Black' : deps'[k] \subseteq Black'
  BY <1>1, <1>7 DEF SearchInv, Founded
<1>9. \A k \in 1..Len(stack') - 1 : stack'[k + 1] \in deps'[stack'[k]]
  BY <1>1 DEF SearchInv
<1> QED
  BY <1>1, <1>5, <1>6, <1>8, <1>9 DEF SearchInv

LEMMA LeaveSearch ==
    ASSUME TypeOK, SearchInv, Leave
    PROVE  SearchInv'
<1> DEFINE n == Len(stack)
<1>1. /\ phase = "cycle" /\ phase' = "cycle" /\ deps' = deps
      /\ cycle = <<>> /\ cycle' = <<>>
      /\ \A m \in deps[stack[n]] : colour[m] = "black"
      /\ colour' = [colour EXCEPT ![stack[n]] = "black"]
  BY DEF Leave, SearchInv, Top, compiled
<1>2. n \in Nat /\ n > 0 /\ stack[n] \in Models
  BY EmptySeq, LenProperties, ElementOfSeq DEF Leave, TypeOK
<1>3. Len(stack') = n - 1 /\ \A i \in 1..n - 1 : stack'[i] = stack[i]
  <2>1. 1 \in 1..n + 1 /\ n - 1 \in 0..n
    BY <1>2
  <2>2. stack' = SubSeq(stack, 1, n - 1)
    BY DEF Leave
  <2>3. /\ Len(stack') = IF 1 <= n - 1 THEN (n - 1) - 1 + 1 ELSE 0
        /\ \A k \in 1..(n - 1) - 1 + 1 : stack'[k] = stack[1 + k - 1]
    BY <2>1, <2>2, Slice DEF TypeOK
  <2> HIDE DEF n
  <2> QED
    BY <1>2, <2>3
<1>4. \A i, j \in 1..n : stack[i] = stack[j] => i = j
  BY <1>1 DEF SearchInv
<1>5. \A m \in Models : colour[m] = "grey" <=> \E i \in 1..n : stack[i] = m
  BY <1>1 DEF SearchInv
<1>6. ASSUME NEW m \in Models
      PROVE  colour'[m] = "grey" <=> \E i \in 1..n - 1 : stack'[i] = m
  <2>1. CASE m = stack[n]
    BY <1>1, <1>2, <1>3, <1>4, <2>1 DEF TypeOK
  <2>2. CASE m # stack[n]
    <3>1. colour'[m] = colour[m]
      BY <1>1, <2>2 DEF TypeOK
    <3>2. (\E i \in 1..n : stack[i] = m) <=> \E i \in 1..n - 1 : stack'[i] = m
      BY <1>2, <1>3, <2>2
    <3> QED
      BY <1>5, <3>1, <3>2
  <2> QED
    BY <2>1, <2>2
<1>7. /\ \A i, j \in 1..n - 1 : stack'[i] = stack'[j] => i = j
      /\ \A i \in 1..n - 2 : stack'[i + 1] \in deps'[stack'[i]]
  BY <1>1, <1>2, <1>3, <1>4 DEF SearchInv
<1>8. Black' = Black \cup {stack[n]} /\ stack[n] \in Models \ Black
  BY <1>1, <1>2, <1>5 DEF Black, TypeOK
<1>9. deps[stack[n]] \subseteq Black
  BY <1>1, <1>2 DEF Black, TypeOK
<1>10. Black \in SUBSET Models
  BY DEF Black
<1>11. /\ Founded(Black \cup {stack[n]})
       /\ \A m \in Black \cup {stack[n]} : deps[m] \subseteq Black \cup {stack[n]}
  BY <1>8, <1>9, <1>10, FoundedAdd DEF SearchInv
<1>12. Founded(Black)' /\ \A k \in Black' : deps'[k] \subseteq Black'
  BY <1>1, <1>8, <1>11 DEF Founded
<1> QED
  BY <1>1, <1>2, <1>3, <1>6, <1>7, <1>12 DEF SearchInv

LEMMA SearchStep ==
    ASSUME TypeOK, SearchInv, [Next]_vars
    PROVE  SearchInv'
<1>1. CASE Compile
  <2>1. /\ phase = "compile" /\ phase' = "cycle" /\ stack' = <<>> /\ cycle' = <<>>
        /\ \A m \in Models : colour'[m] = "white"
    BY <1>1 DEF Compile, SearchInv, search
  <2>2. Black' = {} /\ Len(stack') = 0
    BY <2>1 DEF Black
  <2>3. Founded(Black)'
    BY <2>2 DEF Founded
  <2> QED
    BY <2>1, <2>2, <2>3 DEF SearchInv
<1>2. CASE NoCycle
  <2>1. /\ phase = "cycle" /\ phase' = "sort" /\ Black = Models
        /\ deps' = deps /\ colour' = colour /\ stack' = stack /\ cycle' = cycle
        /\ errors' = errors
    BY <1>2 DEF NoCycle, StartSort, search, compiled, Black
  <2>2. Black' = Black /\ cycle = <<>>
    BY <2>1 DEF Black, SearchInv
  <2>3. Founded(Black)'
    BY <2>1, <2>2 DEF SearchInv, Founded
  <2> QED
    BY <2>1, <2>2, <2>3 DEF SearchInv
<1>3. ASSUME phase \notin {"compile", "cycle"}, phase' \notin {"compile", "cycle"},
             UNCHANGED <<search, compiled, errors>>
      PROVE  SearchInv'
  <2>1. /\ deps' = deps /\ colour' = colour /\ stack' = stack /\ cycle' = cycle
        /\ errors' = errors
    BY <1>3 DEF search, compiled
  <2>2. Black' = Black
    BY <2>1 DEF Black
  <2>3. Founded(Black)' /\ (IsCycle(cycle)' <=> IsCycle(cycle))
    BY <2>1, <2>2 DEF SearchInv, Founded, IsCycle
  <2> QED
    BY <1>3, <2>1, <2>2, <2>3 DEF SearchInv
<1>4. ASSUME NEW m \in Models, Emit(m) PROVE SearchInv'
  BY <1>3, <1>4 DEF Emit
<1>5. CASE Sorted
  BY <1>3, <1>5 DEF Sorted
<1>6. ASSUME NEW r \in Requests, NEW tables \in Warehouses, NEW edited \in Edits,
             Select(r, tables, edited)
      PROVE  SearchInv'
  BY <1>3, <1>6 DEF Select
<1>7. CASE Plan
  BY <1>3, <1>7 DEF Plan
<1>8. ASSUME NEW s \in Seeds, NEW result \in {"passed", "failed", "skipped"},
             LoadSeed(s, result)
      PROVE  SearchInv'
  BY <1>3, <1>8 DEF LoadSeed
<1>9. CASE StartModels
  BY <1>3, <1>9 DEF StartModels
<1>10. ASSUME NEW m \in Models, Start(m) PROVE SearchInv'
  BY <1>3, <1>10 DEF Start
<1>11. ASSUME NEW m \in Models, NEW passed \in BOOLEAN, Finish(m, passed)
       PROVE  SearchInv'
  BY <1>3, <1>11 DEF Finish
<1>12. CASE EndRun
  BY <1>3, <1>12 DEF EndRun
<1>13. CASE UNCHANGED vars
  <2>1. /\ phase' = phase /\ deps' = deps /\ colour' = colour /\ stack' = stack
        /\ cycle' = cycle /\ errors' = errors
    BY <1>13 DEF vars, search, compiled
  <2>2. Black' = Black
    BY <2>1 DEF Black
  <2>3. Founded(Black)' /\ (IsCycle(cycle)' <=> IsCycle(cycle))
    BY <2>1, <2>2 DEF SearchInv, Founded, IsCycle
  <2> QED
    BY <2>1, <2>2, <2>3 DEF SearchInv
<1> QED
  BY <1>1, <1>2, <1>4, <1>5, <1>6, <1>7, <1>8, <1>9, <1>10, <1>11, <1>12,
     <1>13, VisitSearch, BackEdgeSearch, LeaveSearch DEF Next

-----------------------------------------------------------------------------
(***************************************************************************)
(* The sort.                                                               *)
(***************************************************************************)
LEMMA EmittedClosed ==
    ASSUME TypeOK, SortInv
    PROVE  /\ Emitted \in SUBSET Models
           /\ \A k \in Emitted : deps[k] \subseteq Emitted
<1>1. \A i \in 1..Len(order) : order[i] \in Models
  BY ElementOfSeq DEF TypeOK
<1>2. Len(order) \in Nat
  BY LenProperties DEF TypeOK
<1>3. ASSUME NEW i \in 1..Len(order), NEW d \in deps[order[i]] PROVE d \in Emitted
  <2>1. PICK j \in 1..i - 1 : order[j] = d
    BY <1>3 DEF SortInv
  <2>2. j \in 1..Len(order)
    BY <1>2
  <2> QED
    BY <2>1, <2>2 DEF Emitted
<1> QED
  BY <1>1, <1>3 DEF Emitted

LEMMA EmitSort ==
    ASSUME TypeOK, SortInv, NEW m \in Models, Emit(m)
    PROVE  SortInv'
<1> DEFINE n == Len(order)
<1>1. /\ phase = "sort" /\ phase' = "sort" /\ m \in ready /\ deps' = deps
      /\ order' = Append(order, m)
  BY DEF Emit, compiled
<1>2. /\ n \in Nat /\ Len(order') = n + 1
      /\ \A i \in 1..n : order'[i] = order[i]
      /\ order'[n + 1] = m
  BY <1>1, AppendProperties, LenProperties DEF TypeOK
<1>3. m \in Models \ Emitted /\ deps[m] \subseteq Emitted
  BY <1>1 DEF SortInv
<1>4. Emitted' = Emitted \cup {m}
  <2>1. ASSUME NEW k PROVE k \in Emitted' <=> k \in Emitted \cup {m}
    <3>1. (\E i \in 1..n + 1 : order'[i] = k) <=> ((\E i \in 1..n : order[i] = k) \/ k = m)
      BY <1>2
    <3> QED
      BY <1>2, <3>1 DEF Emitted
  <2> QED
    BY <2>1
<1>5. \A i, j \in 1..n + 1 : order'[i] = order'[j] => i = j
  <2>1. \A i, j \in 1..n : order[i] = order[j] => i = j
    BY DEF SortInv
  <2>2. \A i \in 1..n : order[i] # m
    BY <1>3 DEF Emitted
  <2> QED
    BY <1>2, <2>1, <2>2
<1>6. ASSUME NEW i \in 1..n + 1, NEW d \in deps[order'[i]]
      PROVE  \E j \in 1..i - 1 : order'[j] = d
  <2>1. CASE i = n + 1
    <3>1. d \in Emitted
      BY <1>2, <1>3, <1>6, <2>1
    <3>2. PICK j \in 1..n : order[j] = d
      BY <3>1 DEF Emitted
    <3> QED
      BY <1>2, <2>1, <3>2
  <2>2. CASE i \in 1..n
    <3>1. PICK j \in 1..i - 1 : order[j] = d
      BY <1>2, <1>6, <2>2 DEF SortInv
    <3> QED
      BY <1>2, <2>2, <3>1
  <2> QED
    BY <1>2, <2>1, <2>2
<1>7. Founded(Emitted)'
  <2>1. Founded(Emitted \cup {m})
    BY <1>3, EmittedClosed, FoundedAdd DEF SortInv
  <2> QED
    BY <1>1, <1>4, <2>1 DEF Founded
<1>8. Len(order') = Cardinality(Emitted')
  <2>1. IsFiniteSet(Emitted) /\ n = Cardinality(Emitted)
    BY EmittedClosed, SubsetFinite DEF SortInv
  <2>2. Cardinality(Emitted \cup {m}) = Cardinality(Emitted) + 1
    BY <1>3, <2>1, FS_AddElement
  <2> QED
    BY <1>2, <1>4, <2>1, <2>2
<1>9. ASSUME NEW k \in Models
      PROVE  remaining'[k] = Cardinality(deps[k] \ Emitted')
  BY <1>1, <1>4, Counted DEF Emit
<1>10. ASSUME NEW k \in Models
       PROVE  k \in ready' <=> k \notin Emitted' /\ deps[k] \subseteq Emitted'
  <2>1. k \in ready' <=> \/ k \in ready /\ k # m
                         \/ m \in deps[k] /\ remaining'[k] = 0
    BY DEF Emit
  <2>2. k \in ready <=> k \notin Emitted /\ deps[k] \subseteq Emitted
    BY <1>1 DEF SortInv
  <2>3. m \in deps[k] => k \notin Emitted /\ k # m
    BY <1>3, EmittedClosed
  <2>4. remaining'[k] = 0 <=> deps[k] \ Emitted' = {}
    <3>1. deps[k] \in SUBSET Models
      BY DEF TypeOK
    <3>2. IsFiniteSet(deps[k] \ Emitted')
      BY <3>1, SubsetFinite
    <3> QED
      BY <1>9, <3>2, FS_EmptySet
  <2> QED
    BY <1>4, <2>1, <2>2, <2>3, <2>4
<1>11. ready' = {k \in Models \ Emitted' : deps[k] \subseteq Emitted'}
  <2>1. ready' \subseteq Models
    BY DEF Emit, TypeOK
  <2> QED
    BY <1>10, <2>1
<1>12. /\ \A i, j \in 1..Len(order') : order'[i] = order'[j] => i = j
       /\ \A i \in 1..Len(order') : \A d \in deps[order'[i]] :
             \E j \in 1..i - 1 : order'[j] = d
  BY <1>2, <1>5, <1>6
<1> QED
  BY <1>1, <1>7, <1>8, <1>9, <1>11, <1>12 DEF SortInv

LEMMA StartSortSort ==
    ASSUME TypeOK, SortInv, phase = "cycle", StartSort
    PROVE  SortInv'
<1>1. /\ phase' = "sort" /\ deps' = deps /\ order = <<>> /\ order' = <<>>
      /\ remaining' = [k \in Models |-> Cardinality(deps[k])]
      /\ ready' = {k \in Models : deps[k] = {}}
  BY DEF StartSort, SortInv, compiled
<1>2. Emitted' = {} /\ Len(order') = 0
  BY <1>1 DEF Emitted
<1>3. Founded(Emitted)'
  BY <1>2 DEF Founded
<1>4. \A k \in Models : remaining'[k] = Cardinality(deps'[k] \ Emitted')
  <2>1. \A k \in Models : deps[k] \ {} = deps[k]
    OBVIOUS
  <2> QED
    BY <1>1, <1>2, <2>1
<1>5. ready' = {k \in Models \ Emitted' : deps'[k] \subseteq Emitted'}
  BY <1>1, <1>2
<1>6. Len(order') = Cardinality(Emitted')
  BY <1>2, FS_EmptySet
<1> QED
  BY <1>1, <1>2, <1>3, <1>4, <1>5, <1>6 DEF SortInv

LEMMA SortStep ==
    ASSUME TypeOK, SortInv, [Next]_vars
    PROVE  SortInv'
<1>1. CASE Compile
  <2>1. phase' = "cycle" /\ order' = <<>>
    BY <1>1 DEF Compile, SortInv, sorting
  <2>2. Emitted' = {} /\ Len(order') = 0
    BY <2>1 DEF Emitted
  <2>3. Founded(Emitted)'
    BY <2>2 DEF Founded
  <2> QED
    BY <2>1, <2>2, <2>3, FS_EmptySet DEF SortInv
<1>2. ASSUME NEW m \in Models, BackEdge(m) PROVE SortInv'
  BY <1>2, StartSortSort DEF BackEdge
<1>3. CASE NoCycle
  BY <1>3, StartSortSort DEF NoCycle
<1>4. CASE Sorted
  <2>1. /\ phase = "sort" /\ ready = {} /\ phase' = "select"
        /\ order' = order /\ deps' = deps
    BY <1>4 DEF Sorted, sorting, compiled
  <2>2. Emitted' = Emitted
    BY <2>1 DEF Emitted
  <2>3. Founded(Emitted)'
    BY <2>1, <2>2 DEF SortInv, Founded
  <2>4. \A m \in Models \ Emitted : ~(deps[m] \subseteq Emitted)
    BY <2>1 DEF SortInv
  <2> QED
    BY <2>1, <2>2, <2>3, <2>4 DEF SortInv
<1>5. ASSUME UNCHANGED <<compiled, sorting>>,
             \/ phase' = phase
             \/ phase \notin {"compile", "cycle", "sort"}
                /\ phase' \notin {"compile", "cycle", "sort"}
      PROVE  SortInv'
  <2>1. deps' = deps /\ order' = order /\ remaining' = remaining /\ ready' = ready
    BY <1>5 DEF sorting, compiled
  <2>2. Emitted' = Emitted
    BY <2>1 DEF Emitted
  <2>3. Founded(Emitted)'
    BY <2>1, <2>2 DEF SortInv, Founded
  <2> QED
    BY <1>5, <2>1, <2>2, <2>3 DEF SortInv
<1>6. ASSUME NEW m \in Models, Visit(m) PROVE SortInv'
  BY <1>5, <1>6 DEF Visit
<1>7. CASE Leave
  BY <1>5, <1>7 DEF Leave
<1>8. ASSUME NEW r \in Requests, NEW tables \in Warehouses, NEW edited \in Edits,
             Select(r, tables, edited)
      PROVE  SortInv'
  BY <1>5, <1>8 DEF Select
<1>9. CASE Plan
  BY <1>5, <1>9 DEF Plan
<1>10. ASSUME NEW s \in Seeds, NEW result \in {"passed", "failed", "skipped"},
              LoadSeed(s, result)
       PROVE  SortInv'
  BY <1>5, <1>10 DEF LoadSeed
<1>11. CASE StartModels
  BY <1>5, <1>11 DEF StartModels
<1>12. ASSUME NEW m \in Models, Start(m) PROVE SortInv'
  BY <1>5, <1>12 DEF Start
<1>13. ASSUME NEW m \in Models, NEW passed \in BOOLEAN, Finish(m, passed)
       PROVE  SortInv'
  BY <1>5, <1>13 DEF Finish
<1>14. CASE EndRun
  BY <1>5, <1>14 DEF EndRun
<1>15. CASE UNCHANGED vars
  BY <1>5, <1>15 DEF vars
<1> QED
  BY <1>1, <1>2, <1>3, <1>4, <1>6, <1>7, <1>8, <1>9, <1>10, <1>11, <1>12,
     <1>13, <1>14, <1>15, EmitSort DEF Next

-----------------------------------------------------------------------------
(***************************************************************************)
(* The plan and its run.                                                   *)
(***************************************************************************)
LEMMA PlanStep ==
    ASSUME TypeOK, PlanInv, [Next]_vars
    PROVE  PlanInv'
<1> DEFINE Ran == phase \in {"seeds", "models", "over"}
<1>1. ASSUME ~Ran', members' \cap excluded' = {} PROVE PlanInv'
  BY <1>1 DEF PlanInv
<1>2. members \cap excluded = {}
  BY DEF PlanInv
<1>3. ASSUME ~Ran, UNCHANGED <<phase, selection>> PROVE PlanInv'
  BY <1>1, <1>2, <1>3 DEF selection
<1>4. ASSUME Ran, UNCHANGED <<workspace, compiled, errors, selection, planned>>,
             \A s \in Seeds : loaded[s] # "none" => loaded'[s] # "none"
      PROVE  PlanInv'
  <2>1. /\ deps' = deps /\ members' = members /\ excluded' = excluded
        /\ ephemeral' = ephemeral /\ present' = present /\ planned' = planned
        /\ sources' = sources /\ errors' = errors
    BY <1>4 DEF workspace, compiled, selection
  <2>2. Closure' = Closure /\ (Unsafe(planned)' <=> Unsafe(planned))
        /\ Needed(planned)' = Needed(planned)
    BY <2>1 DEF Closure, Unsafe, Needed, Loads, Reach
  <2> QED
    BY <1>4, <2>1, <2>2 DEF PlanInv
<1>5. CASE Compile
  BY <1>1, <1>2, <1>5 DEF Compile, selection
<1>6. ASSUME NEW m \in Models, Visit(m) PROVE PlanInv'
  BY <1>3, <1>6 DEF Visit
<1>7. ASSUME NEW m \in Models, BackEdge(m) PROVE PlanInv'
  BY <1>1, <1>2, <1>7 DEF BackEdge, StartSort, selection
<1>8. CASE Leave
  BY <1>3, <1>8 DEF Leave
<1>9. CASE NoCycle
  BY <1>1, <1>2, <1>9 DEF NoCycle, StartSort, selection
<1>10. ASSUME NEW m \in Models, Emit(m) PROVE PlanInv'
  BY <1>3, <1>10 DEF Emit
<1>11. CASE Sorted
  BY <1>1, <1>2, <1>11 DEF Sorted, selection
<1>12. ASSUME NEW r \in Requests, NEW tables \in Warehouses, NEW edited \in Edits,
              Select(r, tables, edited)
       PROVE  PlanInv'
  BY <1>1, <1>2, <1>12 DEF Select
<1>13. CASE Plan
  <2>1. /\ members' = members /\ excluded' = excluded /\ deps' = deps
        /\ ephemeral' = ephemeral /\ present' = present /\ sources' = sources
        /\ errors' = errors /\ planned' = Closure
        /\ phase' = IF errors \/ Unsafe(planned') THEN "refused" ELSE "seeds"
        /\ loaded' = [s \in Seeds |-> IF s \in Needed(planned') THEN "pending"
                                                                ELSE "none"]
    BY <1>13 DEF Plan, workspace, compiled, selection
  <2>2. Closure' = Closure
    BY <2>1 DEF Closure, Reach
  <2>3. Unsafe(planned)' <=> Unsafe(planned')
    BY <2>1 DEF Unsafe
  <2>4. Needed(planned)' = Needed(planned')
    BY <2>1 DEF Needed, Loads
  <2>5. \A s \in Seeds : s \in Needed(planned)' => loaded'[s] # "none"
    BY <2>1, <2>4
  <2> QED
    BY <1>2, <2>1, <2>2, <2>3, <2>5 DEF PlanInv
<1>14. ASSUME NEW s \in Seeds, NEW result \in {"passed", "failed", "skipped"},
              LoadSeed(s, result)
       PROVE  PlanInv'
  BY <1>4, <1>14 DEF LoadSeed, TypeOK
<1>15. CASE StartModels
  BY <1>4, <1>15 DEF StartModels
<1>16. ASSUME NEW m \in Models, Start(m) PROVE PlanInv'
  BY <1>4, <1>16 DEF Start
<1>17. ASSUME NEW m \in Models, NEW passed \in BOOLEAN, Finish(m, passed)
       PROVE  PlanInv'
  BY <1>4, <1>17 DEF Finish
<1>18. CASE EndRun
  BY <1>4, <1>18 DEF EndRun, run
<1>19. CASE UNCHANGED vars
  BY <1>3, <1>4, <1>19 DEF vars, run
<1> QED
  BY <1>5, <1>6, <1>7, <1>8, <1>9, <1>10, <1>11, <1>12, <1>13, <1>14, <1>15,
     <1>16, <1>17, <1>18, <1>19 DEF Next

-----------------------------------------------------------------------------
(***************************************************************************)
(* What follows.                                                           *)
(***************************************************************************)
LEMMA Invariance == Spec => []IInv
<1>1. IInv /\ [Next]_vars => IInv'
  BY TypeStep, SearchStep, SortStep, PlanStep DEF IInv
<1> QED
  BY Start_, <1>1, PTL DEF Spec

\* Where no knot was found, everything was emitted.
LEMMA AllEmitted ==
    ASSUME IInv, phase \notin {"compile", "cycle", "sort"}, cycle = <<>>
    PROVE  Emitted = Models
<1>1. Founded(Models)
  BY DEF IInv, SearchInv
<1>2. Emitted \in SUBSET Models
  BY EmittedClosed DEF IInv
<1>3. ASSUME Models \ Emitted # {} PROVE FALSE
  <2>1. PICK m \in Models \ Emitted : deps[m] \cap (Models \ Emitted) = {}
    BY <1>1, <1>3 DEF Founded
  <2>2. deps[m] \subseteq Emitted
    BY <2>1 DEF IInv, TypeOK
  <2> QED
    BY <2>1, <2>2 DEF IInv, SortInv
<1> QED
  BY <1>2, <1>3

\* A cycle is a knot, and what was emitted has none.
LEMMA CycleStays ==
    ASSUME IInv, IsCycle(cycle), Emitted = Models
    PROVE  FALSE
<1> DEFINE n == Len(cycle)
           T == {cycle[i] : i \in 1..n}
<1>1. n \in Nat /\ n > 1 /\ cycle[1] = cycle[n]
      /\ \A i \in 1..n - 1 : cycle[i + 1] \in deps[cycle[i]]
  BY LenProperties DEF IInv, TypeOK, IsCycle
<1>2. T \in SUBSET Models /\ T # {}
  BY <1>1, ElementOfSeq DEF IInv, TypeOK
<1>3. PICK m \in T : deps[m] \cap T = {}
  BY <1>2 DEF IInv, SortInv, Founded
<1>4. PICK i \in 1..n : cycle[i] = m
  BY <1>3
<1>5. \E k \in 1..n - 1 : cycle[k] = m
  BY <1>1, <1>4
<1>6. PICK k \in 1..n - 1 : cycle[k] = m
  BY <1>5
<1>7. cycle[k + 1] \in deps[m] /\ k + 1 \in 1..n
  BY <1>1, <1>6
<1>8. cycle[k + 1] \in T
  BY <1>7
<1> QED
  BY <1>3, <1>7, <1>8

\* A model is put after what it depends on.
LEMMA PositionAfter ==
    ASSUME IInv, Emitted = Models, NEW m \in Models
    PROVE  /\ Position(m) \in 1..Len(order)
           /\ \A d \in deps[m] : d \in Models /\ Position(d) < Position(m)
<1>1. ASSUME NEW k \in Models
      PROVE  Position(k) \in 1..Len(order) /\ order[Position(k)] = k
  BY DEF Emitted, Position
<1>2. ASSUME NEW d \in deps[m] PROVE d \in Models /\ Position(d) < Position(m)
  <2>1. d \in Models
    BY <1>2 DEF IInv, TypeOK
  <2>2. PICK j \in 1..Position(m) - 1 : order[j] = d
    BY <1>1, <1>2 DEF IInv, SortInv
  <2>3. Len(order) \in Nat
    BY LenProperties DEF IInv, TypeOK
  <2>4. j \in 1..Len(order)
    BY <1>1, <2>3
  <2>5. Position(d) = j
    BY <1>1, <2>1, <2>2, <2>4 DEF IInv, SortInv
  <2> QED
    BY <1>1, <2>1, <2>3, <2>5
<1> QED
  BY <1>1, <1>2

\* The variables keep their types: every phase of Planning.
THEOREM TypeCorrect == Spec => []TypeOK
<1>1. IInv => TypeOK
  BY DEF IInv
<1> QED
  BY Invariance, <1>1, PTL

\* cycle and topological_order (graph.rs) agree, for every graph: no cycle is
\* reported exactly when every model is in the order, and a reported cycle is one.
THEOREM SortedIffAcyclicHolds == Spec => []SortedIffAcyclic
<1>1. ASSUME IInv, phase \notin {"compile", "cycle", "sort"}
      PROVE  /\ (cycle = <<>>) <=> (Len(order) = Cardinality(Models))
             /\ cycle # <<>> => IsCycle(cycle)
  <2>1. Len(order) = Cardinality(Emitted) /\ Emitted \in SUBSET Models
    BY <1>1, EmittedClosed DEF IInv, SortInv
  <2>2. cycle # <<>> => IsCycle(cycle)
    BY <1>1 DEF IInv, SearchInv
  <2>3. cycle = <<>> => Len(order) = Cardinality(Models)
    BY <1>1, <2>1, AllEmitted
  <2>4. ASSUME Len(order) = Cardinality(Models), cycle # <<>> PROVE FALSE
    <3>1. Emitted = Models
      BY <2>1, <2>4, ModelsFinite, FS_Subset
    <3> QED
      BY <1>1, <2>2, <2>4, <3>1, CycleStays
  <2> QED
    BY <2>2, <2>3, <2>4
<1>2. IInv => SortedIffAcyclic
  BY <1>1 DEF SortedIffAcyclic
<1> QED
  BY Invariance, <1>2, PTL

\* The order of Plan::models: what a statement reads is listed before it, however
\* many ephemeral models are inlined between the two.
THEOREM PlanIsOrderedHolds == Spec => []PlanIsOrdered
<1>1. ASSUME IInv, phase \in {"seeds", "models", "over"},
             NEW m \in Listed, NEW t \in TablesRead(m, {}) \cap Listed
      PROVE  Position(t) < Position(m)
  <2> DEFINE next == [k \in Models |-> (deps[k] \cap ephemeral) \ {}]
             T == {k \in Models : Position(k) <= Position(m)}
  <2>1. cycle = <<>>
    BY <1>1 DEF IInv, PlanInv, SearchInv
  <2>2. Emitted = Models
    BY <1>1, <2>1, AllEmitted
  <2>3. m \in Models
    BY <1>1 DEF Listed, IInv, TypeOK
  <2>4. PICK k \in Inlined(m, {}) : t \in deps[k]
    BY DEF TablesRead
  <2>5. Len(order) \in Nat
    BY <1>1, LenProperties DEF IInv, TypeOK
  <2>6. {m} \subseteq T
    BY <1>1, <2>2, <2>3, <2>5, PositionAfter
  <2>7. ASSUME NEW j \in T, NEW d \in next[j] PROVE d \in T
    <3>1. j \in Models /\ d \in deps[j] /\ Position(j) <= Position(m)
      BY <2>7
    <3>2. d \in Models /\ Position(d) < Position(j)
          /\ Position(d) \in 1..Len(order) /\ Position(j) \in 1..Len(order)
          /\ Position(m) \in 1..Len(order)
      BY <1>1, <2>2, <2>3, <3>1, PositionAfter
    <3> HIDE DEF Position
    <3> QED
      BY <2>5, <3>1, <3>2
  <2>8. Inlined(m, {}) \subseteq T
    <3>1. T \in SUBSET Models /\ \A j \in T : next[j] \subseteq T
      BY <2>7
    <3> HIDE DEF T, next
    <3>2. Reach({m}, next) \subseteq T
      BY <2>6, <3>1, ReachLeast
    <3> QED
      BY <3>2 DEF Inlined, next
  <2>9. k \in Models /\ Position(k) <= Position(m)
    BY <2>4, <2>8
  <2>10. /\ Position(t) < Position(k) /\ Position(t) \in 1..Len(order)
         /\ Position(k) \in 1..Len(order) /\ Position(m) \in 1..Len(order)
    BY <1>1, <2>2, <2>3, <2>4, <2>9, PositionAfter
  <2> QED
    BY <2>5, <2>9, <2>10
<1>2. IInv => PlanIsOrdered
  BY <1>1 DEF PlanIsOrdered
<1> QED
  BY Invariance, <1>2, PTL

\* plan.rs, excluded_unavailable and needed_seeds: a plan that is not refused
\* provides every table and seed its statements read.
THEOREM PlanIsClosedHolds == Spec => []PlanIsClosed
<1>1. ASSUME IInv, phase \in {"seeds", "models", "over"}
      PROVE  /\ planned \cap excluded = {}
             /\ \A m \in Listed :
                /\ TablesRead(m, excluded)
                        \subseteq planned \cup (excluded \cap present)
                /\ \A s \in SeedsRead(m, excluded) : loaded[s] # "none"
  <2> DEFINE below == [m \in Models |-> deps[m] \ excluded]
  <2>1. /\ planned = Reach(members, below) /\ ~Unsafe(planned)
        /\ \A s \in Seeds : s \in Needed(planned) => loaded[s] # "none"
    BY <1>1 DEF IInv, PlanInv, Closure
  <2>2. members \in SUBSET Models /\ below \in [Models -> SUBSET Models]
    BY <1>1 DEF IInv, TypeOK
  <2>3. /\ planned \in SUBSET Models /\ members \subseteq planned
        /\ \A m \in planned : deps[m] \ excluded \subseteq planned
    <3> HIDE DEF below
    <3>1. /\ planned \subseteq Models /\ members \subseteq planned
          /\ \A m \in planned : below[m] \subseteq planned
      BY <2>1, <2>2, ReachIn, ReachClosed
    <3> USE DEF below
    <3> QED
      BY <3>1
  <2>4. planned \cap excluded = {}
    <3> DEFINE T == planned \ excluded
    <3>1. members \subseteq T
      BY <1>1, <2>3 DEF IInv, PlanInv
    <3>2. T \in SUBSET Models /\ \A m \in T : below[m] \subseteq T
      BY <2>3
    <3> HIDE DEF T, below
    <3>3. planned \subseteq T
      BY <2>1, <3>1, <3>2, ReachLeast
    <3> QED
      BY <3>3 DEF T
  <2>5. ASSUME NEW m \in Listed PROVE Inlined(m, excluded) \subseteq planned
    <3> DEFINE next == [k \in Models |-> (deps[k] \cap ephemeral) \ excluded]
    <3>1. {m} \subseteq planned
      BY <2>5 DEF Listed
    <3>2. \A k \in planned : next[k] \subseteq planned
      BY <2>3
    <3> HIDE DEF next
    <3>3. Reach({m}, next) \subseteq planned
      BY <2>3, <3>1, <3>2, ReachLeast
    <3> QED
      BY <3>3 DEF Inlined, next
  <2>6. ASSUME NEW m \in Listed, NEW t \in TablesRead(m, excluded)
        PROVE  t \in planned \cup (excluded \cap present)
    <3>1. PICK k \in Inlined(m, excluded) : t \in deps[k]
      BY <2>6 DEF TablesRead
    <3>2. k \in planned
      BY <2>5, <3>1
    <3>3. t \notin ephemeral
      BY <2>6 DEF TablesRead
    <3>4. CASE t \in excluded
      BY <2>1, <3>1, <3>2, <3>3, <3>4 DEF Unsafe
    <3>5. CASE t \notin excluded
      BY <2>3, <3>1, <3>2, <3>5
    <3> QED
      BY <3>4, <3>5
  <2>7. ASSUME NEW m \in Listed, NEW s \in SeedsRead(m, excluded)
        PROVE  loaded[s] # "none"
    <3>1. PICK k \in Inlined(m, excluded) : s \in Loads(k)
      BY <2>7 DEF SeedsRead
    <3>2. s \in Needed(planned) /\ s \in Seeds
      BY <2>5, <3>1 DEF Needed, Loads
    <3> QED
      BY <2>1, <3>2
  <2> QED
    BY <2>4, <2>6, <2>7
<1>2. IInv => PlanIsClosed
  BY <1>1 DEF PlanIsClosed
<1> QED
  BY Invariance, <1>2, PTL
=============================================================================
