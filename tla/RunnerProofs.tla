---------------------------- MODULE RunnerProofs ----------------------------
(***************************************************************************)
(* Theorems about Runner, for any graph of models and seeds, any           *)
(* concurrency and any number of retries and resumptions; the last is that *)
(* Runner implements RunContract.                                          *)
(***************************************************************************)
EXTENDS Runner, FiniteSetTheorems, TLAPS

-----------------------------------------------------------------------------
(***************************************************************************)
(* Type correctness.                                                       *)
(***************************************************************************)
LEMMA DepsFinite ==
    ASSUME NEW m \in Models
    PROVE  /\ Deps[m] \subseteq Models /\ IsFiniteSet(Deps[m])
           /\ Cardinality(Deps[m]) \in Nat
<1>1. Deps[m] \subseteq Models
  BY GraphAssumption
<1>2. IsFiniteSet(Deps[m])
  BY <1>1, FiniteAssumption, FS_Subset
<1> QED
  BY <1>1, <1>2, FS_CardinalityType

LEMMA TypeInit == Init => TypeOK
<1> SUFFICES ASSUME Init PROVE TypeOK
  OBVIOUS
<1>1. remaining \in [Models -> Nat]
  BY DepsFinite DEF Init
<1>2. plan \in [Models -> PlanAction] /\ seedPlan \in [Seeds -> {"build", "skip"}]
  BY PlanAssumption DEF Init
<1>3. rel \in [Models -> {"absent", "old", "new"}]
  BY DEF Init
<1>4. seedStatus \in [Seeds -> Status] /\ seedRec \in [Seeds -> Status]
  BY DEF Init, Status
<1>5. status \in [Models -> Status] /\ rec \in [Models -> Status]
  BY DEF Init, Status
<1>6. testStatus \in [Tests -> Status] /\ task \in [Models -> Live \cup {"none"}]
  BY DEF Init, Status
<1>7. tries \in [Models -> Nat] /\ recTries \in [Models -> Nat]
  BY DEF Init, NoTries
<1>8. epoch \in 1..MaxEpochs
  BY BoundAssumption DEF Init
<1>9. made \in [Models -> Nat]
  BY DEF Init, NoTries
<1> QED
  BY <1>1, <1>2, <1>3, <1>4, <1>5, <1>6, <1>7, <1>8, <1>9 DEF Init, TypeOK, Phase

\* The functions the actions assign have the types of what they replace.
LEMMA TypeHelpers ==
    ASSUME TypeOK, NEW m \in Models, NEW s \in Status
    PROVE  /\ Ended(m, s) \in [Models -> Status]
           /\ EndedBlocking(m, s) \in [Models -> Status]
           /\ Release(m) \in [Models -> Nat]
           /\ OnlyTries(m) \in [Models -> Nat]
           /\ NoTries \in [Models -> Nat]
  BY DEF TypeOK, Ended, EndedBlocking, Release, OnlyTries, NoTries, Status

LEMMA TypePersist ==
    ASSUME TypeOK, NEW S, NEW s \in [Models -> Status],
           NEW n \in [Models -> Nat], Persist(S, s, n)
    PROVE  rec' \in [Models -> Status] /\ recTries' \in [Models -> Nat]
  BY DEF TypeOK, Persist

LEMMA TypeForget ==
    ASSUME Forget
    PROVE  /\ stopReq' = FALSE /\ cancelled' = FALSE /\ aborting' = FALSE
           /\ seedStatus' \in [Seeds -> Status]
           /\ status' \in [Models -> Status]
           /\ remaining' \in [Models -> Nat]
           /\ ready' = {} /\ noted' = {}
           /\ task' \in [Models -> Live \cup {"none"}]
           /\ testStatus' \in [Tests -> Status]
<1>1. remaining' \in [Models -> Nat]
  BY DepsFinite DEF Forget
<1> QED
  BY <1>1 DEF Forget, Status, Live

LEMMA TypeSeeds ==
    ASSUME TypeOK, NEW s \in Seeds, NEW end \in {"passed", "failed"},
           CancelSeed(s) \/ SkipSeed(s) \/ StartSeed(s) \/ EndSeed(s, end)
    PROVE  TypeOK'
<1> USE DEF sched, planVars, work, durable, physical, bounds, history
<1>1. CASE CancelSeed(s)
  BY <1>1 DEF CancelSeed, TypeOK, Status
<1>2. CASE SkipSeed(s)
  BY <1>2 DEF SkipSeed, TypeOK, Status
<1>3. CASE StartSeed(s)
  BY <1>3 DEF StartSeed, TypeOK, Status
<1>4. CASE EndSeed(s, end)
  BY <1>4 DEF EndSeed, TypeOK, Status
<1> QED
  BY <1>1, <1>2, <1>3, <1>4

LEMMA TypeControl ==
    ASSUME TypeOK,
           \/ SeedsDone \/ PrepDone \/ BlockDone \/ LoopTop \/ DispatchDone
           \/ SelectCancel \/ DrainDone \/ TestsDone \/ FinishRun \/ Cancel
    PROVE  TypeOK'
<1> USE DEF sched, planVars, work, durable, physical, bounds, history
<1>1. CASE PrepDone
  BY <1>1 DEF PrepDone, TypeOK, Phase
<1>2. CASE BlockDone
  BY <1>2 DEF BlockDone, TypeOK, Phase
<1>3. CASE LoopTop
  BY <1>3 DEF LoopTop, TypeOK, Phase
<1>4. CASE DispatchDone
  BY <1>4 DEF DispatchDone, TypeOK, Phase
<1>5. CASE SelectCancel
  BY <1>5 DEF SelectCancel, TypeOK, Phase
<1>6. CASE DrainDone
  BY <1>6 DEF DrainDone, TypeOK, Phase
<1>7. CASE TestsDone
  BY <1>7 DEF TestsDone, TypeOK, Phase
<1>8. CASE FinishRun
  BY <1>8 DEF FinishRun, TypeOK, Phase, RunStatus
<1>9. CASE Cancel
  BY <1>9 DEF Cancel, TypeOK
<1>10. CASE SeedsDone
  BY <1>10 DEF SeedsDone, TypeOK, Phase
<1> QED
  BY <1>1, <1>2, <1>3, <1>4, <1>5, <1>6, <1>7, <1>8, <1>9, <1>10

LEMMA TypeTests ==
    ASSUME TypeOK, NEW t \in Tests, NEW end \in {"passed", "failed"},
           SkipTest(t) \/ StartTest(t) \/ EndTest(t, end)
    PROVE  TypeOK'
<1> USE DEF sched, planVars, work, durable, physical, bounds, history
<1>1. CASE SkipTest(t)
  BY <1>1 DEF SkipTest, TypeOK, Status
<1>2. CASE StartTest(t)
  BY <1>2 DEF StartTest, TypeOK, Status
<1>3. CASE EndTest(t, end)
  BY <1>3 DEF EndTest, TypeOK, Status
<1> QED
  BY <1>1, <1>2, <1>3

LEMMA TypeRecorded ==
    ASSUME TypeOK, NEW m \in Models,
           \/ SkipModel(m) \/ AdoptCached(m) \/ BlockReader(m) \/ Dispatch(m)
           \/ JoinPassed(m) \/ JoinFailed(m) \/ DrainPassed(m) \/ DrainFailed(m)
           \/ Classify(m)
    PROVE  TypeOK'
<1> USE DEF sched, planVars, work, durable, physical, bounds, history
<1>1. CASE SkipModel(m)
  <2>1. status' \in [Models -> Status]
    BY <1>1, TypeHelpers DEF SkipModel, Status, TypeOK
  <2>2. NoTries \in [Models -> Nat]
    BY <1>1, TypeHelpers DEF SkipModel, Status, TypeOK
  <2>3. rec' \in [Models -> Status] /\ recTries' \in [Models -> Nat]
    BY <1>1, <2>1, <2>2, TypePersist DEF SkipModel
  <2>4. remaining' \in [Models -> Nat]
    BY <1>1, TypeHelpers DEF SkipModel, Status, TypeOK
  <2> QED
    BY <1>1, <2>1, <2>3, <2>4
    DEF SkipModel, TypeOK
<1>2. CASE AdoptCached(m)
  <2>1. status' \in [Models -> Status]
    BY <1>2, TypeHelpers DEF AdoptCached, Status, TypeOK
  <2>2. NoTries \in [Models -> Nat]
    BY <1>2, TypeHelpers DEF AdoptCached, Status, TypeOK
  <2>3. rec' \in [Models -> Status] /\ recTries' \in [Models -> Nat]
    BY <1>2, <2>1, <2>2, TypePersist DEF AdoptCached
  <2>4. remaining' \in [Models -> Nat]
    BY <1>2, TypeHelpers DEF AdoptCached, Status, TypeOK
  <2> QED
    BY <1>2, <2>1, <2>3, <2>4
    DEF AdoptCached, TypeOK
<1>3. CASE BlockReader(m)
  <2>1. status' \in [Models -> Status]
    BY <1>3, TypeHelpers DEF BlockReader, Status, TypeOK
  <2>2. NoTries \in [Models -> Nat]
    BY <1>3, TypeHelpers DEF BlockReader, Status, TypeOK
  <2>3. rec' \in [Models -> Status] /\ recTries' \in [Models -> Nat]
    BY <1>3, <2>1, <2>2, TypePersist DEF BlockReader
  <2>4. remaining' \in [Models -> Nat]
    BY <1>3, TypeHelpers DEF BlockReader, Status, TypeOK
  <2> QED
    BY <1>3, <2>1, <2>3, <2>4
    DEF BlockReader, TypeOK
<1>4. CASE Dispatch(m)
  <2>1. status' \in [Models -> Status]
    BY <1>4, TypeHelpers DEF Dispatch, Status, TypeOK
  <2>2. NoTries \in [Models -> Nat]
    BY <1>4, TypeHelpers DEF Dispatch, Status, TypeOK
  <2>3. rec' \in [Models -> Status] /\ recTries' \in [Models -> Nat]
    BY <1>4, <2>1, <2>2, TypePersist DEF Dispatch
  <2>4. remaining' \in [Models -> Nat]
    BY <1>4, TypeHelpers DEF Dispatch, Status, TypeOK
  <2>5. made' \in [Models -> Nat]
    <3>1. made' = [made EXCEPT ![m] = made[m] + 1] /\ made \in [Models -> Nat]
      BY <1>4 DEF Dispatch, TypeOK
    <3> QED
      BY <3>1
  <2>6. task' \in [Models -> Live \cup {"none"}]
    <3>1. task' = [task EXCEPT ![m] = "exec"] /\ task \in [Models -> Live \cup {"none"}]
      BY <1>4 DEF Dispatch, TypeOK
    <3> QED
      BY <3>1 DEF Live
  <2>7. UNCHANGED <<sched, planVars, seedStatus, remaining, tries, testStatus,
                    noted, runRow, seedRec, recorded, physical, bounds, short>>
        /\ ready' = ready \ {m}
    BY <1>4 DEF Dispatch
  <2> QED
    BY <2>1, <2>3, <2>4, <2>5, <2>6, <2>7
    DEF TypeOK, sched, planVars, physical, bounds
<1>5. CASE JoinPassed(m)
  <2>1. status' \in [Models -> Status]
    BY <1>5, TypeHelpers DEF JoinPassed, Status, TypeOK
  <2>2. tries \in [Models -> Nat]
    BY <1>5, TypeHelpers DEF JoinPassed, Status, TypeOK
  <2>3. rec' \in [Models -> Status] /\ recTries' \in [Models -> Nat]
    BY <1>5, <2>1, <2>2, TypePersist DEF JoinPassed
  <2>4. remaining' \in [Models -> Nat]
    BY <1>5, TypeHelpers DEF JoinPassed, Status, TypeOK
  <2> QED
    BY <1>5, <2>1, <2>3, <2>4
    DEF JoinPassed, TypeOK, Live, Phase, Dependents
<1>6. CASE JoinFailed(m)
  <2>1. status' \in [Models -> Status]
    BY <1>6, TypeHelpers DEF JoinFailed, Status, TypeOK
  <2>2. OnlyTries(m) \in [Models -> Nat]
    BY <1>6, TypeHelpers DEF JoinFailed, Status, TypeOK
  <2>3. rec' \in [Models -> Status] /\ recTries' \in [Models -> Nat]
    BY <1>6, <2>1, <2>2, TypePersist DEF JoinFailed
  <2>4. remaining' \in [Models -> Nat]
    BY <1>6, TypeHelpers DEF JoinFailed, Status, TypeOK
  <2> QED
    BY <1>6, <2>1, <2>3, <2>4
    DEF JoinFailed, TypeOK, Live, Phase
<1>7. CASE DrainPassed(m)
  <2>1. status' \in [Models -> Status]
    BY <1>7, TypeHelpers DEF DrainPassed, Status, TypeOK
  <2>2. tries \in [Models -> Nat]
    BY <1>7, TypeHelpers DEF DrainPassed, Status, TypeOK
  <2>3. rec' \in [Models -> Status] /\ recTries' \in [Models -> Nat]
    BY <1>7, <2>1, <2>2, TypePersist DEF DrainPassed
  <2>4. remaining' \in [Models -> Nat]
    BY <1>7, TypeHelpers DEF DrainPassed, Status, TypeOK
  <2> QED
    BY <1>7, <2>1, <2>3, <2>4
    DEF DrainPassed, TypeOK, Live
<1>8. CASE DrainFailed(m)
  <2>1. status' \in [Models -> Status]
    BY <1>8, TypeHelpers DEF DrainFailed, Status, TypeOK
  <2>2. OnlyTries(m) \in [Models -> Nat]
    BY <1>8, TypeHelpers DEF DrainFailed, Status, TypeOK
  <2>3. rec' \in [Models -> Status] /\ recTries' \in [Models -> Nat]
    BY <1>8, <2>1, <2>2, TypePersist DEF DrainFailed
  <2>4. remaining' \in [Models -> Nat]
    BY <1>8, TypeHelpers DEF DrainFailed, Status, TypeOK
  <2> QED
    BY <1>8, <2>1, <2>3, <2>4
    DEF DrainFailed, TypeOK, Live
<1>9. CASE Classify(m)
  <2>1. status' \in [Models -> Status]
    BY <1>9, TypeHelpers DEF Classify, Status, TypeOK
  <2>2. NoTries \in [Models -> Nat]
    BY <1>9, TypeHelpers DEF Classify, Status, TypeOK
  <2>3. rec' \in [Models -> Status] /\ recTries' \in [Models -> Nat]
    BY <1>9, <2>1, <2>2, TypePersist DEF Classify
  <2>4. remaining' \in [Models -> Nat]
    BY <1>9, TypeHelpers DEF Classify, Status, TypeOK
  <2> QED
    BY <1>9, <2>1, <2>3, <2>4
    DEF Classify, TypeOK
<1> QED
  BY <1>1, <1>2, <1>3, <1>4, <1>5, <1>6, <1>7, <1>8, <1>9

LEMMA TypeModels ==
    ASSUME TypeOK, NEW m \in Models, NEW survives \in BOOLEAN,
           \/ Reuse(m) \/ RefuseCached(m) \/ DrainAbort(m, survives)
           \/ Record(m) \/ Retry(m) \/ OrphanLands(m) \/ DropRelation(m)
           \/ AttemptOk(m)
    PROVE  TypeOK'
<1> USE DEF sched, planVars, work, durable, physical, bounds, history
<1>1. CASE Reuse(m)
  <2>1. status' \in [Models -> Status] /\ remaining' \in [Models -> Nat]
    BY <1>1, TypeHelpers DEF Reuse, Status
  <2> QED
    BY <1>1, <2>1 DEF Reuse, TypeOK
<1>2. CASE RefuseCached(m)
  BY <1>2 DEF RefuseCached, TypeOK, PlanAction
<1>3. CASE DrainAbort(m, survives)
  BY <1>3 DEF DrainAbort, TypeOK, Live
<1>4. CASE Record(m)
  BY <1>4 DEF Record, TypeOK
<1>5. CASE Retry(m)
  BY <1>5 DEF Retry, TypeOK, Live
<1>6. CASE OrphanLands(m)
  BY <1>6 DEF OrphanLands, TypeOK
<1>7. CASE DropRelation(m)
  BY <1>7 DEF DropRelation, TypeOK
<1>8. CASE AttemptOk(m)
  BY <1>8 DEF AttemptOk, TypeOK, Live
<1> QED
  BY <1>1, <1>2, <1>3, <1>4, <1>5, <1>6, <1>7, <1>8

LEMMA TypeAttemptFail ==
    ASSUME TypeOK, NEW m \in Models, NEW retryable \in BOOLEAN,
           NEW effect \in {rel[m], "absent"}, AttemptFail(m, retryable, effect)
    PROVE  TypeOK'
<1> USE DEF sched, planVars, work, durable, physical, bounds, history
<1>1. tries' \in [Models -> Nat]
  BY DEF AttemptFail, TypeOK
<1>2. [rec EXCEPT ![m] = "running"] \in [Models -> Status]
  BY DEF TypeOK, Status
<1>3. rec' \in [Models -> Status] /\ recTries' \in [Models -> Nat]
  BY <1>1, <1>2, TypePersist DEF AttemptFail
<1>4. rel' \in [Models -> {"absent", "old", "new"}]
  BY DEF AttemptFail, TypeOK
<1>5. task' \in [Models -> Live \cup {"none"}]
  BY DEF AttemptFail, TypeOK, Live
<1> QED
  BY <1>1, <1>3, <1>4, <1>5 DEF AttemptFail, TypeOK

LEMMA TypeWorld ==
    ASSUME TypeOK, Kill \/ Resume
    PROVE  TypeOK'
<1> USE DEF sched, planVars, work, durable, physical, bounds, history
<1>1. CASE Kill
  <2>1. tries' \in [Models -> Nat]
    BY <1>1 DEF Kill, NoTries
  <2>2. orphan' \in SUBSET Models
    BY <1>1 DEF Kill, TypeOK
  <2> QED
    BY <1>1, <2>1, <2>2, TypeForget DEF Kill, TypeOK, Phase
<1>2. CASE Resume
  <2>1. seedPlan' \in [Seeds -> {"build", "skip"}]
    BY <1>2 DEF Resume, TypeOK
  <2>2. epoch' \in 1..MaxEpochs
    BY <1>2, BoundAssumption DEF Resume, TypeOK
  <2> QED
    BY <1>2, <2>1, <2>2, TypeForget DEF Resume, TypeOK, Phase
<1> QED
  BY <1>1, <1>2

LEMMA TypeStep == TypeOK /\ [Next]_vars => TypeOK'
<1> SUFFICES ASSUME TypeOK, [Next]_vars PROVE TypeOK'
  OBVIOUS
<1>1. CASE Scheduler
  <2>1. CASE \E s \in Seeds : CancelSeed(s) \/ SkipSeed(s) \/ StartSeed(s)
    BY <2>1, TypeSeeds
  <2>2. CASE \E m \in Models : \/ Reuse(m) \/ SkipModel(m)
                              \/ AdoptCached(m) \/ RefuseCached(m)
    BY <2>2, TypeRecorded, TypeModels
  <2>3. CASE \E m \in Models : \/ BlockReader(m) \/ Dispatch(m) \/ Classify(m)
                              \/ JoinPassed(m) \/ JoinFailed(m)
                              \/ DrainPassed(m) \/ DrainFailed(m)
    BY <2>3, TypeRecorded
  <2>4. CASE \E m \in Models, survives \in BOOLEAN : DrainAbort(m, survives)
    BY <2>4, TypeModels
  <2>5. CASE \E m \in Models : Record(m)
    BY <2>5, TypeModels
  <2>6. CASE \E t \in Tests : SkipTest(t) \/ StartTest(t)
    BY <2>6, TypeTests
  <2>7. CASE \/ SeedsDone \/ PrepDone \/ BlockDone \/ LoopTop \/ DispatchDone
             \/ SelectCancel \/ DrainDone \/ TestsDone \/ FinishRun
    BY <2>7, TypeControl
  <2> QED
    BY <1>1, <2>1, <2>2, <2>3, <2>4, <2>5, <2>6, <2>7 DEF Scheduler
<1>2. CASE Task
  BY <1>2, TypeSeeds, TypeTests, TypeModels, TypeAttemptFail
  DEF Task, AnswerSeed, AnswerTest, AnswerModel
<1>3. CASE World
  BY <1>3, TypeControl, TypeModels, TypeWorld DEF World
<1>4. CASE UNCHANGED vars
  BY <1>4 DEF vars, sched, planVars, work, durable, physical, bounds, history, TypeOK
<1> QED
  BY <1>1, <1>2, <1>3, <1>4 DEF Next

\* Every variable of the run driver keeps its type, whatever the graph, the
\* plans, the answers, the kills and the resumptions.
THEOREM TypeCorrect == Spec => []TypeOK
<1> QED
  BY TypeInit, TypeStep, PTL DEF Spec

-----------------------------------------------------------------------------
(***************************************************************************)
(* The inductive invariant behind RunsOnlyOnSatisfied.                     *)
(***************************************************************************)
\* What a model still waits for; remaining is meant to count it.
Waits(m) == {d \in Deps[m] : status[d] \notin Satisfied}

Looping == {"top", "dispatch", "select"}
TaskPhases == Looping \cup {"drain"}

CountsRight == \A m \in Models : remaining[m] = Cardinality(Waits(m))
TasksOnlyInLoop == pc \notin TaskPhases => \A m \in Models : task[m] = "none"
LiveIsRunning == \A m \in Models : task[m] # "none" => status[m] = "running"
OkIsBuilt == \A m \in Models : task[m] = "ok" => rel[m] # "absent"
RunningIsGood ==
    \A m \in Models : status[m] = "running" =>
        /\ Waits(m) = {}
        /\ \A s \in Reads[m] : seedStatus[s] \in Satisfied
ReadyIsGood ==
    pc \in Looping => \A m \in ready : status[m] = "pending" /\ Waits(m) = {}
SatisfiedExists ==
    pc \in Active => \A m \in Models : status[m] \in Satisfied => rel[m] # "absent"
PlannedExists ==
    pc \in {"seeds", "prep"} =>
        \A m \in Models : plan[m] # "build" => rel[m] # "absent"
SeedsEnd ==
    \A s \in Seeds :
        /\ seedStatus[s] # "blocked"
        /\ pc \notin {"seeds", "down"} => seedStatus[s] \in Terminal
        /\ seedStatus[s] = "cancelled" => Stopped
PendingIsClean ==
    pc \in Looping => \A m \in Models : status[m] = "pending" => ~ReadsFailedSeed(m)
DispatchGoes == pc = "dispatch" => ~Stopped

Guarded == /\ TasksOnlyInLoop /\ LiveIsRunning /\ OkIsBuilt /\ RunningIsGood
           /\ ReadyIsGood /\ SatisfiedExists /\ PlannedExists /\ SeedsEnd
           /\ PendingIsClean /\ DispatchGoes
IInv == TypeOK /\ CountsRight /\ Guarded

\* block_dependents reaches only models that were not started and wait for
\* something: never one that runs, is in the ready queue or has ended.
LEMMA ConeWaits ==
    ASSUME TypeOK, RunningIsGood, NEW m \in Models, status[m] \notin Satisfied
    PROVE  \A x \in Cone(m) : /\ x \in Models /\ status[x] = "pending"
                              /\ Waits(x) # {}
<1> DEFINE W == {x \in Models : status[x] = "pending" /\ Waits(x) # {}}
<1>1. ASSUME NEW d \in Models, status[d] \notin Satisfied
      PROVE  Blockable(d) \subseteq W
  <2> SUFFICES ASSUME NEW c \in Blockable(d) PROVE c \in W
    OBVIOUS
  <2>1. c \in Models /\ d \in Deps[c] /\ status[c] \notin Terminal
    BY DEF Blockable, Dependents
  <2>2. Waits(c) # {}
    BY <1>1, <2>1 DEF Waits
  <2>3. status[c] # "running"
    BY <2>1, <2>2 DEF RunningIsGood
  <2> QED
    BY <2>1, <2>2, <2>3 DEF TypeOK, Status, Terminal
<1>2. \A c \in W : Blockable(c) \subseteq W
  BY <1>1 DEF Satisfied
<1>3. Blockable(m) \subseteq W
  BY <1>1
<1>4. W \in SUBSET Models
  OBVIOUS
<1>5. Cone(m) \subseteq W
  BY <1>2, <1>3, <1>4 DEF Cone
<1> QED
  BY <1>5

LEMMA WaitsFinite ==
    ASSUME NEW m \in Models
    PROVE  IsFiniteSet(Waits(m)) /\ Cardinality(Waits(m)) \in Nat
<1>1. Waits(m) \subseteq Deps[m]
  BY DEF Waits
<1> QED
  BY <1>1, DepsFinite, FS_Subset, FS_CardinalityType

LEMMA NothingToWaitFor ==
    ASSUME CountsRight, NEW m \in Models, remaining[m] = 0
    PROVE  Waits(m) = {}
  BY WaitsFinite, FS_EmptySet DEF CountsRight

\* release_dependents keeps the counts right.
LEMMA ReleaseCounts ==
    ASSUME TypeOK, CountsRight, NEW m \in Models, NEW s \in Satisfied,
           status[m] \notin Satisfied,
           status' = Ended(m, s), remaining' = Release(m)
    PROVE  /\ CountsRight'
           /\ \A c \in Models : Waits(c)' = Waits(c) \ {m}
<1>1. \A c \in Models : Waits(c)' = Waits(c) \ {m}
  <2> SUFFICES ASSUME NEW c \in Models, NEW d \in Deps[c]
               PROVE  status'[d] \notin Satisfied
                        <=> status[d] \notin Satisfied /\ d # m
    BY DEF Waits
  <2>1. d \in Models
    BY DepsFinite
  <2>2. status'[d] = IF d = m THEN s ELSE status[d]
    BY <2>1 DEF Ended, TypeOK
  <2> QED
    BY <2>2
<1>2. ASSUME NEW c \in Models PROVE remaining'[c] = Cardinality(Waits(c)')
  <2>1. remaining'[c] = IF m \in Deps[c] /\ remaining[c] > 0
                        THEN remaining[c] - 1 ELSE remaining[c]
    BY DEF Release, Dependents
  <2>2. CASE m \in Deps[c]
    <3>1. m \in Waits(c)
      BY <2>2 DEF Waits
    <3>2. Cardinality(Waits(c) \ {m}) = Cardinality(Waits(c)) - 1
      BY <3>1, WaitsFinite, FS_RemoveElement
    <3>3. Cardinality(Waits(c)) # 0
      BY <3>1, WaitsFinite, FS_EmptySet
    <3>4. remaining[c] = Cardinality(Waits(c)) /\ remaining[c] \in Nat
      BY WaitsFinite DEF CountsRight
    <3>5. remaining'[c] = remaining[c] - 1
      BY <2>1, <2>2, <3>3, <3>4
    <3>6. Cardinality(Waits(c)') = Cardinality(Waits(c) \ {m})
      BY <1>1
    <3> QED
      BY <3>2, <3>4, <3>5, <3>6
  <2>3. CASE m \notin Deps[c]
    <3>1. Waits(c) \ {m} = Waits(c)
      BY <2>3 DEF Waits
    <3> QED
      BY <1>1, <2>1, <2>3, <3>1 DEF CountsRight
  <2> QED
    BY <2>2, <2>3
<1> QED
  BY <1>1, <1>2 DEF CountsRight

\* A step that satisfies no model and loses none leaves the counts alone.
LEMMA SameWaits ==
    ASSUME CountsRight, remaining' = remaining,
           \A d \in Models : status'[d] \in Satisfied <=> status[d] \in Satisfied
    PROVE  CountsRight' /\ \A c \in Models : Waits(c)' = Waits(c)
<1>1. \A c \in Models : Waits(c)' = Waits(c)
  BY DepsFinite DEF Waits
<1> QED
  BY <1>1 DEF CountsRight

\* What EndedBlocking does to each model.
LEMMA BlockedBy ==
    ASSUME TypeOK, RunningIsGood, NEW m \in Models, NEW s \in Status,
           status[m] \notin Satisfied, s \notin Satisfied,
           status' = EndedBlocking(m, s)
    PROVE  /\ \A d \in Models : status'[d] \in Satisfied <=> status[d] \in Satisfied
           /\ \A d \in Models : d # m =>
                \/ status'[d] = status[d]
                \/ status'[d] = "blocked" /\ status[d] = "pending" /\ Waits(d) # {}
           /\ status'[m] = s
<1>1. \A d \in Models : status'[d] = IF d = m THEN s
                                     ELSE IF d \in Cone(m) THEN "blocked" ELSE status[d]
  BY DEF EndedBlocking
<1> QED
  BY <1>1, ConeWaits DEF Satisfied

LEMMA CountsForgotten ==
    ASSUME Forget PROVE CountsRight'
<1>1. \A c \in Models : Waits(c)' = Deps[c]
  BY DepsFinite DEF Waits, Forget, Satisfied
<1> QED
  BY <1>1 DEF CountsRight, Forget

\* Steps that change neither status nor remaining.
LEMMA SeedsGuarded ==
    ASSUME IInv, NEW x \in Seeds, NEW end \in {"passed", "failed"},
           CancelSeed(x) \/ SkipSeed(x) \/ StartSeed(x) \/ EndSeed(x, end)
    PROVE  CountsRight' /\ Guarded'
<1> USE DEF sched, planVars, work, durable, physical, bounds
<1>1. pc = "seeds" /\ pc' = "seeds"
  BY DEF CancelSeed, SkipSeed, StartSeed, EndSeed
<1>2. UNCHANGED <<plan, status, remaining, ready, task, rel>>
  BY DEF CancelSeed, SkipSeed, StartSeed, EndSeed
<1>3. CountsRight' /\ \A c \in Models : Waits(c)' = Waits(c)
  BY <1>2, SameWaits DEF IInv
<1>4. \A r \in Seeds : seedStatus[r] \in Satisfied => seedStatus'[r] = seedStatus[r]
  BY DEF CancelSeed, SkipSeed, StartSeed, EndSeed, IInv, TypeOK, Satisfied
<1>5. \A r \in Seeds : seedStatus'[r] # "blocked"
  BY DEF CancelSeed, SkipSeed, StartSeed, EndSeed, IInv, Guarded, SeedsEnd, TypeOK
<1>6. TasksOnlyInLoop' /\ LiveIsRunning' /\ OkIsBuilt'
  BY <1>1, <1>2 DEF IInv, Guarded, TasksOnlyInLoop, LiveIsRunning, OkIsBuilt,
                    TaskPhases, Looping
<1>7. RunningIsGood'
  <2> SUFFICES ASSUME NEW m \in Models, status[m] = "running",
                      NEW r \in Reads[m]
               PROVE  Waits(m) = {} /\ seedStatus'[r] \in Satisfied
    BY <1>2, <1>3 DEF RunningIsGood, IInv, Guarded
  <2>1. r \in Seeds
    BY GraphAssumption
  <2>2. Waits(m) = {} /\ seedStatus[r] \in Satisfied
    BY DEF RunningIsGood, IInv, Guarded
  <2> QED
    BY <1>4, <2>1, <2>2
<1>8. SeedsEnd'
  <2>1. ASSUME NEW r \in Seeds, seedStatus'[r] = "cancelled" PROVE Stopped'
    <3>1. CASE CancelSeed(x)
      BY <2>1, <3>1 DEF CancelSeed, Stopped
    <3>2. CASE ~CancelSeed(x)
      <4>1. seedStatus[r] = "cancelled"
        BY <2>1, <3>2 DEF SkipSeed, StartSeed, EndSeed, IInv, TypeOK
      <4>2. Stopped
        BY <4>1 DEF IInv, Guarded, SeedsEnd
      <4> QED
        BY <3>2, <4>2 DEF SkipSeed, StartSeed, EndSeed, Stopped
    <3> QED
      BY <3>1, <3>2
  <2> QED
    BY <1>1, <1>5, <2>1 DEF SeedsEnd
<1>9. SatisfiedExists' /\ PlannedExists'
  BY <1>1, <1>2 DEF IInv, Guarded, SatisfiedExists, PlannedExists
<1>10. ReadyIsGood' /\ PendingIsClean' /\ DispatchGoes'
  BY <1>1 DEF ReadyIsGood, PendingIsClean, DispatchGoes, Looping
<1> QED
  BY <1>3, <1>6, <1>7, <1>8, <1>9, <1>10 DEF Guarded

LEMMA ControlGuarded ==
    ASSUME IInv,
           \/ SeedsDone \/ PrepDone \/ BlockDone \/ LoopTop \/ DispatchDone
           \/ SelectCancel \/ DrainDone \/ TestsDone \/ FinishRun \/ Cancel
    PROVE  CountsRight' /\ Guarded'
<1> USE DEF sched, planVars, work, durable, physical, bounds
<1>1. UNCHANGED <<plan, seedStatus, status, remaining, task, rel>>
  BY DEF SeedsDone, PrepDone, BlockDone, LoopTop, DispatchDone, SelectCancel,
         DrainDone, TestsDone, FinishRun, Cancel
<1>2. CountsRight' /\ \A c \in Models : Waits(c)' = Waits(c)
  BY <1>1, SameWaits DEF IInv
<1>3. Stopped => Stopped'
  BY DEF SeedsDone, PrepDone, BlockDone, LoopTop, DispatchDone, SelectCancel,
         DrainDone, TestsDone, FinishRun, Cancel, Stopped
<1>4. LiveIsRunning' /\ OkIsBuilt' /\ RunningIsGood'
  BY <1>1, <1>2 DEF IInv, Guarded, LiveIsRunning, OkIsBuilt, RunningIsGood
<1>5. TasksOnlyInLoop'
  BY <1>1 DEF IInv, Guarded, TypeOK, TasksOnlyInLoop, TaskPhases, Looping, Inflight,
       SeedsDone, PrepDone, BlockDone, LoopTop, DispatchDone, SelectCancel,
       DrainDone, TestsDone, FinishRun, Cancel
<1>6. SatisfiedExists' /\ PlannedExists'
  BY <1>1 DEF IInv, Guarded, TypeOK, SatisfiedExists, PlannedExists, Active, Phase,
       SeedsDone, PrepDone, BlockDone, LoopTop, DispatchDone, SelectCancel,
       DrainDone, TestsDone, FinishRun, Cancel
<1>7. SeedsEnd'
  BY <1>1, <1>3 DEF IInv, Guarded, SeedsEnd,
       SeedsDone, PrepDone, BlockDone, LoopTop, DispatchDone, SelectCancel,
       DrainDone, TestsDone, FinishRun, Cancel
<1>8. ReadyIsGood' /\ PendingIsClean'
  <2>1. CASE BlockDone
    <3>1. \A m \in ready' : m \in Models /\ status[m] = "pending" /\ Waits(m) = {}
      BY <2>1, NothingToWaitFor DEF BlockDone, Runnable, IInv
    <3>2. \A m \in Models : status[m] = "pending" => ~ReadsFailedSeed(m)
      BY <2>1 DEF BlockDone
    <3> QED
      BY <1>1, <1>2, <3>1, <3>2
      DEF ReadyIsGood, PendingIsClean, ReadsFailedSeed, FailedSeeds
  <2>2. CASE ~BlockDone
    <3>1. ready' = ready /\ (pc' \in Looping => pc \in Looping)
      BY <2>2 DEF Looping, SeedsDone, PrepDone, LoopTop, DispatchDone,
           SelectCancel, DrainDone, TestsDone, FinishRun, Cancel
    <3> QED
      BY <1>1, <1>2, <3>1
      DEF IInv, Guarded, TypeOK, ReadyIsGood, PendingIsClean, ReadsFailedSeed,
          FailedSeeds
  <2> QED
    BY <2>1, <2>2
<1>9. DispatchGoes'
  BY DEF IInv, Guarded, DispatchGoes, Stopped,
       SeedsDone, PrepDone, BlockDone, LoopTop, DispatchDone, SelectCancel,
       DrainDone, TestsDone, FinishRun, Cancel
<1> QED
  BY <1>2, <1>4, <1>5, <1>6, <1>7, <1>8, <1>9 DEF Guarded

\* A model becomes satisfied and releases its dependents.
LEMMA SatisfyGuarded ==
    ASSUME IInv, NEW m \in Models, NEW st \in Satisfied,
           status[m] \notin Satisfied, rel[m] # "absent",
           status' = Ended(m, st), remaining' = Release(m),
           task[m] # "none" => task'[m] = "none",
           \A c \in Models : c # m => task'[c] = task[c],
           task[m] = "none" => task' = task,
           UNCHANGED <<seedStatus, rel, cancelled, aborting>>,
           \/ pc = "prep" /\ pc' = "prep" /\ plan' = plan
           \/ pc = "select" /\ pc' = "top" /\ status[m] = "running"
              /\ ready' = ready \cup {c \in Dependents(m) :
                               remaining'[c] = 0 /\ status'[c] = "pending"}
           \/ pc = "drain" /\ pc' = "drain"
    PROVE  CountsRight' /\ Guarded'
<1>1. CountsRight' /\ \A c \in Models : Waits(c)' = Waits(c) \ {m}
  BY ReleaseCounts DEF IInv
<1>2. /\ status'[m] = st
      /\ \A c \in Models : c # m => status'[c] = status[c]
  BY DEF Ended, IInv, TypeOK
<1>3. TasksOnlyInLoop' /\ LiveIsRunning' /\ OkIsBuilt'
  BY <1>2 DEF IInv, Guarded, TypeOK, TasksOnlyInLoop, LiveIsRunning, OkIsBuilt,
       TaskPhases, Looping
<1>4. RunningIsGood'
  BY <1>1, <1>2 DEF IInv, Guarded, RunningIsGood, Satisfied
<1>5. SatisfiedExists' /\ PlannedExists'
  BY <1>2 DEF IInv, Guarded, SatisfiedExists, PlannedExists, Active, Phase
<1>6. SeedsEnd' /\ DispatchGoes'
  BY DEF IInv, Guarded, SeedsEnd, DispatchGoes, Stopped
<1>7. PendingIsClean'
  BY <1>2 DEF IInv, Guarded, PendingIsClean, ReadsFailedSeed, FailedSeeds, Looping,
       Satisfied
<1>8. ASSUME pc = "select", pc' = "top", status[m] = "running",
             ready' = ready \cup {c \in Dependents(m) :
                               remaining'[c] = 0 /\ status'[c] = "pending"}
      PROVE  ReadyIsGood'
  <2> SUFFICES ASSUME NEW c \in ready'
               PROVE  status'[c] = "pending" /\ Waits(c)' = {}
    BY DEF ReadyIsGood
  <2>1. CASE c \in ready
    <3>1. c \in Models /\ status[c] = "pending" /\ Waits(c) = {}
      BY <1>8, <2>1 DEF IInv, Guarded, ReadyIsGood, Looping, TypeOK
    <3>2. c # m
      BY <1>8, <3>1
    <3> QED
      BY <1>1, <1>2, <3>1, <3>2
  <2>2. CASE c \notin ready
    <3>1. c \in Models /\ remaining'[c] = 0 /\ status'[c] = "pending"
      BY <1>8, <2>2 DEF Dependents
    <3>2. Cardinality(Waits(c)') = 0 /\ IsFiniteSet(Waits(c)')
      BY <1>1, <3>1, WaitsFinite, FS_RemoveElement DEF CountsRight
    <3> QED
      BY <3>1, <3>2, FS_EmptySet
  <2> QED
    BY <2>1, <2>2
<1>9. ReadyIsGood'
  BY <1>8 DEF ReadyIsGood, Looping
<1> QED
  BY <1>1, <1>3, <1>4, <1>5, <1>6, <1>7, <1>9 DEF Guarded

LEMMA ReleaseGuarded ==
    ASSUME IInv, NEW m \in Models,
           Reuse(m) \/ SkipModel(m) \/ AdoptCached(m) \/ JoinPassed(m) \/ DrainPassed(m)
    PROVE  CountsRight' /\ Guarded'
<1> USE DEF sched, planVars, work, durable, physical, bounds
<1>1. CASE Reuse(m) \/ SkipModel(m) \/ AdoptCached(m)
  <2>1. rel[m] # "absent"
    BY <1>1 DEF Reuse, Reusable, SkipModel, AdoptCached, IInv, Guarded, PlannedExists
  <2>2. PICK st \in Satisfied : status' = Ended(m, st)
    BY <1>1 DEF Reuse, SkipModel, AdoptCached, Satisfied
  <2>3. status[m] \notin Satisfied /\ pc = "prep" /\ pc' = "prep"
    BY <1>1 DEF Reuse, SkipModel, AdoptCached, Satisfied
  <2>4. /\ remaining' = Release(m)
        /\ UNCHANGED <<plan, task, seedStatus, rel, cancelled, aborting>>
    BY <1>1 DEF Reuse, SkipModel, AdoptCached
  <2>5. task[m] = "none"
    BY <2>3 DEF IInv, Guarded, TasksOnlyInLoop, TaskPhases, Looping
  <2> QED
    BY <2>1, <2>2, <2>3, <2>4, <2>5, SatisfyGuarded
<1>2. CASE JoinPassed(m) \/ DrainPassed(m)
  <2>1. rel[m] # "absent"
    BY <1>2 DEF JoinPassed, DrainPassed, IInv, Guarded, OkIsBuilt
  <2>2. status' = Ended(m, "passed") /\ "passed" \in Satisfied
    BY <1>2 DEF JoinPassed, DrainPassed, Satisfied
  <2>3. status[m] \notin Satisfied
    BY <1>2 DEF JoinPassed, DrainPassed, IInv, Guarded, LiveIsRunning, Satisfied
  <2>4. /\ remaining' = Release(m) /\ task' = [task EXCEPT ![m] = "none"]
        /\ UNCHANGED <<seedStatus, rel, cancelled, aborting>>
    BY <1>2 DEF JoinPassed, DrainPassed
  <2>5. /\ task'[m] = "none" /\ \A c \in Models : c # m => task'[c] = task[c]
        /\ task[m] # "none"
    BY <1>2, <2>4 DEF JoinPassed, DrainPassed, IInv, TypeOK
  <2>6. \/ pc = "select" /\ pc' = "top" /\ status[m] = "running"
            /\ ready' = ready \cup {c \in Dependents(m) :
                             remaining'[c] = 0 /\ status'[c] = "pending"}
        \/ pc = "drain" /\ pc' = "drain"
    BY <1>2 DEF JoinPassed, DrainPassed, IInv, Guarded, LiveIsRunning
  <2> QED
    BY <2>1, <2>2, <2>3, <2>4, <2>5, <2>6, SatisfyGuarded
<1> QED
  BY <1>1, <1>2

\* A model fails, or a failed seed blocks it, and everything behind is blocked.
LEMMA BlockGuarded ==
    ASSUME IInv, NEW m \in Models, BlockReader(m) \/ JoinFailed(m) \/ DrainFailed(m)
    PROVE  CountsRight' /\ Guarded'
<1> USE DEF sched, planVars, work, durable, physical, bounds
<1>1. PICK st \in {"blocked", "failed"} : status' = EndedBlocking(m, st)
  BY DEF BlockReader, JoinFailed, DrainFailed
<1>2. status[m] \notin Satisfied /\ status[m] \in {"pending", "running"}
  BY DEF BlockReader, JoinFailed, DrainFailed, IInv, Guarded, LiveIsRunning, Satisfied
<1>3. st \in Status /\ st \notin Satisfied
  BY DEF Status, Satisfied
<1>4. UNCHANGED <<plan, seedStatus, remaining, rel, cancelled>>
  BY DEF BlockReader, JoinFailed, DrainFailed
<1>5. /\ \A d \in Models : status'[d] \in Satisfied <=> status[d] \in Satisfied
      /\ \A d \in Models : d # m =>
            \/ status'[d] = status[d]
            \/ status'[d] = "blocked" /\ status[d] = "pending" /\ Waits(d) # {}
      /\ status'[m] = st
  BY <1>1, <1>2, <1>3, BlockedBy DEF IInv, Guarded
<1>6. CountsRight' /\ \A c \in Models : Waits(c)' = Waits(c)
  BY <1>4, <1>5, SameWaits DEF IInv
<1>7. /\ \A c \in Models : c # m => task'[c] = task[c]
      /\ task'[m] = "none"
  BY DEF BlockReader, JoinFailed, DrainFailed, IInv, TypeOK, Guarded,
         TasksOnlyInLoop, TaskPhases, Looping
<1>8. \/ pc = "block" /\ pc' = "block"
      \/ pc = "select" /\ pc' = "top" /\ ready' \subseteq ready
          /\ status[m] = "running"
      \/ pc = "drain" /\ pc' = "drain"
  BY DEF BlockReader, JoinFailed, DrainFailed, IInv, Guarded, LiveIsRunning
<1>9. TasksOnlyInLoop' /\ LiveIsRunning' /\ OkIsBuilt'
  BY <1>4, <1>5, <1>7, <1>8 DEF IInv, Guarded, TasksOnlyInLoop, LiveIsRunning,
     OkIsBuilt, TaskPhases, Looping
<1>10. RunningIsGood'
  BY <1>3, <1>4, <1>5, <1>6 DEF IInv, Guarded, RunningIsGood
<1>11. SatisfiedExists' /\ PlannedExists'
  BY <1>4, <1>5, <1>8 DEF IInv, Guarded, SatisfiedExists, PlannedExists, Active, Phase
<1>12. SeedsEnd'
  <2>1. Stopped => Stopped'
    BY DEF BlockReader, JoinFailed, DrainFailed, Stopped
  <2> QED
    BY <1>4, <1>8, <2>1 DEF IInv, Guarded, SeedsEnd
<1>13. ReadyIsGood'
  <2> SUFFICES ASSUME pc = "select", ready' \subseteq ready,
                      status[m] = "running", NEW c \in ready'
               PROVE  status'[c] = "pending" /\ Waits(c)' = {}
    BY <1>8 DEF ReadyIsGood, Looping
  <2>1. c \in Models /\ status[c] = "pending" /\ Waits(c) = {}
    BY DEF IInv, Guarded, ReadyIsGood, Looping, TypeOK
  <2> QED
    BY <1>5, <1>6, <2>1
<1>14. PendingIsClean' /\ DispatchGoes'
  BY <1>3, <1>4, <1>5, <1>8 DEF IInv, Guarded, PendingIsClean, DispatchGoes,
     ReadsFailedSeed, FailedSeeds, Looping
<1> QED
  BY <1>6, <1>9, <1>10, <1>11, <1>12, <1>13, <1>14 DEF Guarded

LEMMA DispatchGuarded ==
    ASSUME IInv, NEW m \in Models, Dispatch(m)
    PROVE  CountsRight' /\ Guarded'
<1> USE DEF sched, planVars, work, durable, physical, bounds
<1>1. /\ pc = "dispatch" /\ m \in ready
      /\ UNCHANGED <<pc, cancelled, aborting, plan, seedStatus, remaining, rel>>
      /\ ready' = ready \ {m}
  BY DEF Dispatch
<1>2. status[m] = "pending" /\ Waits(m) = {} /\ ~ReadsFailedSeed(m)
  BY <1>1 DEF IInv, Guarded, ReadyIsGood, PendingIsClean, Looping
<1>3. /\ status'[m] = "running" /\ \A c \in Models : c # m => status'[c] = status[c]
      /\ task'[m] = "exec" /\ \A c \in Models : c # m => task'[c] = task[c]
  BY DEF Dispatch, Ended, IInv, TypeOK
<1>4. CountsRight' /\ \A c \in Models : Waits(c)' = Waits(c)
  BY <1>1, <1>2, <1>3, SameWaits DEF IInv, Satisfied
<1>5. \A r \in Reads[m] : seedStatus[r] \in Satisfied
  <2> SUFFICES ASSUME NEW r \in Reads[m] PROVE seedStatus[r] \in Satisfied
    OBVIOUS
  <2>1. r \in Seeds
    BY GraphAssumption
  <2>2. seedStatus[r] # "failed"
    BY <1>2, <2>1 DEF ReadsFailedSeed, FailedSeeds
  <2>3. seedStatus[r] # "cancelled"
    BY <1>1, <2>1 DEF IInv, Guarded, SeedsEnd, DispatchGoes
  <2>4. seedStatus[r] \in Terminal /\ seedStatus[r] # "blocked"
    BY <1>1, <2>1 DEF IInv, Guarded, SeedsEnd
  <2> QED
    BY <2>2, <2>3, <2>4 DEF Terminal, Satisfied
<1>6. TasksOnlyInLoop' /\ LiveIsRunning' /\ OkIsBuilt'
  BY <1>1, <1>3 DEF IInv, Guarded, TasksOnlyInLoop, LiveIsRunning, OkIsBuilt,
     TaskPhases, Looping
<1>7. RunningIsGood'
  BY <1>1, <1>2, <1>3, <1>4, <1>5 DEF IInv, Guarded, RunningIsGood
<1>8. SatisfiedExists' /\ PlannedExists'
  BY <1>1, <1>3 DEF IInv, Guarded, SatisfiedExists, PlannedExists, Satisfied
<1>9. SeedsEnd' /\ DispatchGoes'
  BY <1>1 DEF IInv, Guarded, SeedsEnd, DispatchGoes, Stopped
<1>10. ReadyIsGood' /\ PendingIsClean'
  BY <1>1, <1>3, <1>4 DEF IInv, Guarded, TypeOK, ReadyIsGood, PendingIsClean,
     ReadsFailedSeed, FailedSeeds, Looping
<1> QED
  BY <1>4, <1>6, <1>7, <1>8, <1>9, <1>10 DEF Guarded

LEMMA ClassifyGuarded ==
    ASSUME IInv, NEW m \in Models, Classify(m)
    PROVE  CountsRight' /\ Guarded'
<1> USE DEF sched, planVars, work, durable, physical, bounds
<1>1. /\ pc = "drain" /\ status[m] \notin Terminal
      /\ UNCHANGED <<pc, cancelled, aborting, plan, seedStatus, remaining, rel, task>>
      /\ \A c \in Models : task[c] = "none"
  BY DEF Classify, Inflight, IInv, TypeOK
<1>2. /\ status'[m] \in {"cancelled", "blocked"}
      /\ \A c \in Models : c # m => status'[c] = status[c]
  BY DEF Classify, Ended, IInv, TypeOK
<1>3. CountsRight' /\ \A c \in Models : Waits(c)' = Waits(c)
  BY <1>1, <1>2, SameWaits DEF IInv, Satisfied, Terminal
<1>4. TasksOnlyInLoop' /\ LiveIsRunning' /\ OkIsBuilt' /\ RunningIsGood'
  BY <1>1, <1>2, <1>3 DEF IInv, Guarded, TasksOnlyInLoop, LiveIsRunning, OkIsBuilt,
     RunningIsGood
<1>5. SatisfiedExists' /\ PlannedExists'
  BY <1>1, <1>2 DEF IInv, Guarded, SatisfiedExists, PlannedExists, Satisfied
<1>6. SeedsEnd' /\ DispatchGoes' /\ ReadyIsGood' /\ PendingIsClean'
  BY <1>1 DEF IInv, Guarded, SeedsEnd, DispatchGoes, Stopped, ReadyIsGood,
     PendingIsClean, Looping
<1> QED
  BY <1>3, <1>4, <1>5, <1>6 DEF Guarded

\* Steps of the tasks and of the warehouse: no status and no count changes.
LEMMA TaskGuarded ==
    ASSUME IInv, NEW m \in Models, NEW survives \in BOOLEAN,
           NEW retryable \in BOOLEAN, NEW effect \in {rel[m], "absent"},
           \/ RefuseCached(m) \/ AttemptOk(m) \/ Retry(m) \/ OrphanLands(m)
           \/ AttemptFail(m, retryable, effect) \/ DrainAbort(m, survives)
    PROVE  CountsRight' /\ Guarded'
<1> USE DEF sched, planVars, work, durable, physical, bounds
<1>1. UNCHANGED <<pc, cancelled, aborting, seedStatus, status, remaining, ready>>
  BY DEF RefuseCached, AttemptOk, Retry, OrphanLands, AttemptFail, DrainAbort
<1>2. CountsRight' /\ \A c \in Models : Waits(c)' = Waits(c)
  BY <1>1, SameWaits DEF IInv
<1>3. \A c \in Models : task'[c] = task[c] \/ (c = m /\ task[m] \in Live)
  BY DEF RefuseCached, AttemptOk, Retry, OrphanLands, AttemptFail, DrainAbort,
     IInv, TypeOK, Live
<1>4. TasksOnlyInLoop' /\ LiveIsRunning'
  BY <1>1, <1>3 DEF IInv, Guarded, TasksOnlyInLoop, LiveIsRunning, Live
<1>5. \A c \in Models :
        rel'[c] = rel[c] \/ rel'[c] = "new" \/ (c = m /\ task[m] = "exec")
  BY DEF RefuseCached, AttemptOk, Retry, OrphanLands, AttemptFail, DrainAbort,
     IInv, TypeOK
<1>6. OkIsBuilt'
  <2>1. CASE AttemptOk(m)
    BY <2>1 DEF AttemptOk, IInv, TypeOK, Guarded, OkIsBuilt
  <2>2. CASE AttemptFail(m, retryable, effect)
    <3>1. task'[m] # "ok"
      BY <2>2 DEF AttemptFail, IInv, TypeOK
    <3>2. \A c \in Models : c # m => task'[c] = task[c] /\ rel'[c] = rel[c]
      BY <2>2 DEF AttemptFail, IInv, TypeOK
    <3> QED
      BY <3>1, <3>2 DEF IInv, Guarded, OkIsBuilt
  <2>3. CASE RefuseCached(m) \/ Retry(m) \/ OrphanLands(m) \/ DrainAbort(m, survives)
    BY <2>3 DEF RefuseCached, Retry, OrphanLands, DrainAbort, IInv, TypeOK, Guarded,
       OkIsBuilt
  <2> QED
    BY <2>1, <2>2, <2>3
<1>7. RunningIsGood' /\ ReadyIsGood' /\ SeedsEnd' /\ PendingIsClean' /\ DispatchGoes'
  BY <1>1, <1>2 DEF IInv, Guarded, TypeOK, RunningIsGood, ReadyIsGood, SeedsEnd,
     PendingIsClean, DispatchGoes, ReadsFailedSeed, FailedSeeds, Stopped
<1>8. SatisfiedExists'
  BY <1>1, <1>5 DEF IInv, Guarded, SatisfiedExists, LiveIsRunning, Satisfied
<1>9. PlannedExists'
  <2>1. \A c \in Models : plan'[c] # "build" => plan'[c] = plan[c]
    BY DEF RefuseCached, AttemptOk, Retry, OrphanLands, AttemptFail, DrainAbort,
       IInv, TypeOK
  <2>2. pc \in {"seeds", "prep"} => task[m] = "none"
    BY DEF IInv, Guarded, TasksOnlyInLoop, TaskPhases, Looping
  <2> QED
    BY <1>1, <1>5, <2>1, <2>2 DEF IInv, Guarded, PlannedExists
<1> QED
  BY <1>2, <1>4, <1>6, <1>7, <1>8, <1>9 DEF Guarded

\* Tests and the closing record loop: nothing the invariant speaks of changes.
LEMMA BystanderGuarded ==
    ASSUME IInv,
           UNCHANGED <<pc, cancelled, aborting, plan, seedStatus, status,
                       remaining, ready, task, rel>>
    PROVE  CountsRight' /\ Guarded'
<1>1. CountsRight' /\ \A c \in Models : Waits(c)' = Waits(c)
  BY SameWaits DEF IInv
<1>2. Guarded'
  BY <1>1 DEF IInv, TypeOK, Guarded, TasksOnlyInLoop, LiveIsRunning, OkIsBuilt,
     RunningIsGood, ReadyIsGood, SatisfiedExists, PlannedExists, SeedsEnd,
     PendingIsClean, DispatchGoes, ReadsFailedSeed, FailedSeeds, Stopped
<1> QED
  BY <1>1, <1>2

\* A fresh invocation, or none: nothing runs and nothing is satisfied.
LEMMA FreshGuarded ==
    ASSUME pc' \in {"seeds", "down"}, Forget,
           pc' = "seeds" => \A m \in Models : plan'[m] # "build" => rel'[m] # "absent"
    PROVE  CountsRight' /\ Guarded'
<1>1. CountsRight'
  BY CountsForgotten
<1>2. TasksOnlyInLoop' /\ LiveIsRunning' /\ OkIsBuilt' /\ RunningIsGood'
  BY DEF Forget, TasksOnlyInLoop, LiveIsRunning, OkIsBuilt, RunningIsGood
<1>3. ReadyIsGood' /\ PendingIsClean' /\ DispatchGoes'
  BY DEF ReadyIsGood, PendingIsClean, DispatchGoes, Looping
<1>4. SatisfiedExists' /\ PlannedExists' /\ SeedsEnd'
  BY DEF Forget, SatisfiedExists, PlannedExists, SeedsEnd, Satisfied
<1> QED
  BY <1>1, <1>2, <1>3, <1>4 DEF Guarded

LEMMA WorldGuarded ==
    ASSUME IInv, World PROVE CountsRight' /\ Guarded'
<1> USE DEF sched, planVars, work, durable, physical, bounds
<1>1. CASE Cancel
  BY <1>1, ControlGuarded
<1>2. CASE Kill
  BY <1>2, FreshGuarded DEF Kill
<1>3. CASE Resume
  <2>1. \A m \in Models : plan'[m] # "build" => rel'[m] # "absent"
    BY <1>3 DEF Resume, Replanned
  <2> QED
    BY <1>3, <2>1, FreshGuarded DEF Resume
<1>4. CASE \E m \in Models : OrphanLands(m)
  BY <1>4, TaskGuarded
<1>5. CASE \E m \in Models : DropRelation(m)
  <2> PICK m \in Models : DropRelation(m)
    BY <1>5
  <2>1. UNCHANGED <<pc, cancelled, aborting, plan, seedStatus, status, remaining,
                    ready, task>> /\ pc \in {"over", "down"}
    BY DEF DropRelation, Resumable
  <2>2. CountsRight' /\ \A c \in Models : Waits(c)' = Waits(c)
    BY <2>1, SameWaits DEF IInv
  <2>3. TasksOnlyInLoop' /\ LiveIsRunning' /\ OkIsBuilt'
    BY <2>1 DEF IInv, Guarded, TasksOnlyInLoop, LiveIsRunning, OkIsBuilt, TaskPhases,
       Looping
  <2>4. RunningIsGood' /\ SeedsEnd'
    BY <2>1, <2>2 DEF IInv, Guarded, RunningIsGood, SeedsEnd, Stopped
  <2>5. ReadyIsGood' /\ PendingIsClean' /\ DispatchGoes' /\ SatisfiedExists'
        /\ PlannedExists'
    BY <2>1 DEF ReadyIsGood, PendingIsClean, DispatchGoes, SatisfiedExists,
       PlannedExists, Looping, Active, Phase
  <2> QED
    BY <2>2, <2>3, <2>4, <2>5 DEF Guarded
<1> QED
  BY <1>1, <1>2, <1>3, <1>4, <1>5 DEF World

LEMMA GuardedInit == Init => CountsRight /\ Guarded
<1> SUFFICES ASSUME Init PROVE CountsRight /\ Guarded
  OBVIOUS
<1>1. \A c \in Models : Waits(c) = Deps[c]
  BY DepsFinite DEF Waits, Init, Satisfied
<1>2. CountsRight
  BY <1>1 DEF CountsRight, Init
<1>3. TasksOnlyInLoop /\ LiveIsRunning /\ OkIsBuilt /\ RunningIsGood
  BY DEF Init, TasksOnlyInLoop, LiveIsRunning, OkIsBuilt, RunningIsGood
<1>4. ReadyIsGood /\ PendingIsClean /\ DispatchGoes
  BY DEF Init, ReadyIsGood, PendingIsClean, DispatchGoes, Looping
<1>5. SatisfiedExists /\ PlannedExists /\ SeedsEnd
  BY DEF Init, SatisfiedExists, PlannedExists, SeedsEnd, Satisfied
<1> QED
  BY <1>2, <1>3, <1>4, <1>5 DEF Guarded

LEMMA IInvStep == IInv /\ [Next]_vars => IInv'
<1> SUFFICES ASSUME IInv, [Next]_vars PROVE CountsRight' /\ Guarded'
  BY TypeStep DEF IInv
<1> USE DEF sched, planVars, work, durable, physical, bounds
<1>1. CASE Scheduler
  <2>1. CASE \E s \in Seeds : CancelSeed(s) \/ SkipSeed(s) \/ StartSeed(s)
    BY <2>1, SeedsGuarded
  <2>2. CASE \E m \in Models : \/ Reuse(m) \/ SkipModel(m) \/ AdoptCached(m)
                              \/ JoinPassed(m) \/ DrainPassed(m)
    BY <2>2, ReleaseGuarded
  <2>3. CASE \E m \in Models : BlockReader(m) \/ JoinFailed(m) \/ DrainFailed(m)
    BY <2>3, BlockGuarded
  <2>4. CASE \E m \in Models, survives \in BOOLEAN :
                RefuseCached(m) \/ DrainAbort(m, survives)
    BY <2>4, TaskGuarded
  <2>5. CASE \E m \in Models : Dispatch(m) \/ Classify(m)
    BY <2>5, DispatchGuarded, ClassifyGuarded
  <2>6. CASE \/ \E t \in Tests : SkipTest(t) \/ StartTest(t)
             \/ \E m \in Models : Record(m)
    BY <2>6, BystanderGuarded DEF SkipTest, StartTest, Record
  <2>7. CASE \/ SeedsDone \/ PrepDone \/ BlockDone \/ LoopTop \/ DispatchDone
             \/ SelectCancel \/ DrainDone \/ TestsDone \/ FinishRun
    BY <2>7, ControlGuarded
  <2> QED
    BY <1>1, <2>1, <2>2, <2>3, <2>4, <2>5, <2>6, <2>7 DEF Scheduler
<1>2. CASE Task
  <2>1. CASE \E s \in Seeds : AnswerSeed(s)
    BY <2>1, SeedsGuarded DEF AnswerSeed
  <2>2. CASE \E t \in Tests : AnswerTest(t)
    BY <2>2, BystanderGuarded DEF AnswerTest, EndTest
  <2>3. CASE \E m \in Models : AnswerModel(m) \/ Retry(m)
    BY <2>3, TaskGuarded DEF AnswerModel
  <2> QED
    BY <1>2, <2>1, <2>2, <2>3 DEF Task
<1>3. CASE World
  BY <1>3, WorldGuarded
<1>4. CASE UNCHANGED vars
  BY <1>4, BystanderGuarded DEF vars
<1> QED
  BY <1>1, <1>2, <1>3, <1>4 DEF Next

THEOREM IInvHolds == Spec => []IInv
<1>1. Init => IInv
  BY TypeInit, GuardedInit DEF IInv
<1> QED
  BY <1>1, IInvStep, PTL DEF Spec

LEMMA IInvSuffices == IInv => RunsOnlyOnSatisfied
<1> SUFFICES ASSUME IInv, NEW m \in Inflight
             PROVE  /\ status[m] = "running"
                    /\ \A d \in Deps[m] : status[d] \in Satisfied /\ rel[d] # "absent"
                    /\ \A s \in Reads[m] : seedStatus[s] \in Satisfied
  BY DEF RunsOnlyOnSatisfied
<1>1. m \in Models /\ status[m] = "running"
  BY DEF Inflight, Live, IInv, Guarded, LiveIsRunning
<1>2. Waits(m) = {} /\ \A s \in Reads[m] : seedStatus[s] \in Satisfied
  BY <1>1 DEF IInv, Guarded, RunningIsGood
<1>3. pc \in Active
  BY <1>1 DEF Inflight, Live, IInv, Guarded, TasksOnlyInLoop, TaskPhases, Looping,
     Active, Phase
<1>4. \A d \in Deps[m] : d \in Models /\ status[d] \in Satisfied
  BY <1>1, <1>2, DepsFinite DEF Waits
<1> QED
  BY <1>1, <1>2, <1>3, <1>4 DEF IInv, Guarded, SatisfiedExists

\* No model's statement ever runs before everything it reads is there, for any
\* graph, any plans, any concurrency and any failures, kills and resumptions.
THEOREM RunsOnlyOnSatisfiedHolds == Spec => []RunsOnlyOnSatisfied
<1> QED
  BY IInvHolds, IInvSuffices, PTL
-----------------------------------------------------------------------------
(***************************************************************************)
(* The retry budget.  What an invocation knows that a model has used up is *)
(* at most its attempts and one more for every resumption; while it may    *)
(* still start a statement, it has at least one left.                      *)
(***************************************************************************)
Budget == MaxAttempts + epoch - 1

MayStart(m) == status[m] = "pending" \/ task[m] \in {"exec", "backoff"}

WithinBudget ==
    \A m \in Models :
        /\ tries[m] <= Budget /\ recTries[m] <= Budget
        /\ MayStart(m) => tries[m] < Budget

LEMMA BudgetRange ==
    ASSUME TypeOK
    PROVE  /\ MaxAttempts \in Nat \ {0} /\ epoch \in Nat \ {0}
           /\ Budget \in Nat \ {0} /\ MaxAttempts <= Budget
           /\ tries \in [Models -> Nat] /\ recTries \in [Models -> Nat]
  BY BoundAssumption DEF TypeOK, Budget

LEMMA BudgetInit == Init => WithinBudget
<1> SUFFICES ASSUME Init PROVE WithinBudget
  OBVIOUS
<1> QED
  BY TypeInit, BudgetRange DEF Init, WithinBudget, MayStart, NoTries, Budget

\* A step that counts no attempt, starts nothing and records what is within.
LEMMA BudgetKept ==
    ASSUME TypeOK, WithinBudget, epoch' = epoch,
           \A m \in Models :
               /\ tries'[m] = tries[m]
               /\ MayStart(m)' => MayStart(m)
               /\ \/ recTries'[m] = recTries[m]
                  \/ recTries'[m] = tries[m]
                  \/ recTries'[m] = 0
    PROVE  WithinBudget'
<1> SUFFICES ASSUME NEW m \in Models
             PROVE  /\ tries'[m] <= Budget' /\ recTries'[m] <= Budget'
                    /\ MayStart(m)' => tries'[m] < Budget'
  BY DEF WithinBudget
<1>1. Budget' = Budget
  BY DEF Budget
<1> QED
  BY <1>1, BudgetRange DEF WithinBudget

LEMMA EndedStarts ==
    ASSUME TypeOK, NEW m \in Models, NEW s \in Status \ {"pending"},
           \/ status' = Ended(m, s) \/ status' = EndedBlocking(m, s)
    PROVE  \A c \in Models : status'[c] = "pending" => status[c] = "pending"
  BY DEF Ended, EndedBlocking, TypeOK, Status

\* The driver records a model, or ends it: nothing new may start.
LEMMA BudgetRecorded ==
    ASSUME TypeOK, WithinBudget, NEW m \in Models,
           \/ SkipModel(m) \/ AdoptCached(m) \/ BlockReader(m) \/ Reuse(m)
           \/ JoinPassed(m) \/ JoinFailed(m) \/ DrainPassed(m) \/ DrainFailed(m)
           \/ Classify(m)
    PROVE  WithinBudget'
<1>1. epoch' = epoch /\ tries' = tries
  BY DEF SkipModel, AdoptCached, BlockReader, Reuse, JoinPassed, JoinFailed, DrainPassed,
     DrainFailed, Classify, bounds, work
<1>2. \A c \in Models : \/ recTries'[c] = recTries[c]
                         \/ recTries'[c] = tries[c]
                         \/ recTries'[c] = 0
  BY DEF SkipModel, AdoptCached, BlockReader, Reuse, JoinPassed, JoinFailed, DrainPassed,
     DrainFailed, Classify, Persist, OnlyTries, NoTries, durable
<1>3. \A c \in Models : status'[c] = "pending" => status[c] = "pending"
  BY EndedStarts DEF SkipModel, AdoptCached, BlockReader, Reuse, JoinPassed, JoinFailed,
     DrainPassed, DrainFailed, Classify, Status
<1>4. \A c \in Models : task'[c] = task[c] \/ task'[c] = "none"
  BY DEF SkipModel, AdoptCached, BlockReader, Reuse, JoinPassed, JoinFailed, DrainPassed,
     DrainFailed, Classify, TypeOK, work
<1>5. \A c \in Models : MayStart(c)' => MayStart(c)
  BY <1>3, <1>4 DEF MayStart
<1> QED
  BY <1>1, <1>2, <1>5, BudgetKept

\* A model that is dispatched was pending and had attempts left.
LEMMA BudgetDispatched ==
    ASSUME IInv, WithinBudget, NEW m \in Models, Dispatch(m)
    PROVE  WithinBudget'
<1>1. status[m] = "pending"
  BY DEF Dispatch, IInv, Guarded, ReadyIsGood, Looping
<1>2. epoch' = epoch /\ tries' = tries
  BY DEF Dispatch, bounds
<1>3. \A c \in Models : recTries'[c] = recTries[c] \/ recTries'[c] = 0
  BY DEF Dispatch, Persist, NoTries
<1>4. \A c \in Models : MayStart(c)' => MayStart(c)
  BY <1>1, EndedStarts DEF Dispatch, MayStart, IInv, TypeOK, Status
<1> QED
  BY <1>2, <1>3, <1>4, BudgetKept DEF IInv

\* An attempt is counted; another one only follows while some are left.
LEMMA BudgetAttempt ==
    ASSUME IInv, WithinBudget, NEW m \in Models,
           NEW retryable \in BOOLEAN, NEW effect \in {rel[m], "absent"},
           AttemptOk(m) \/ AttemptFail(m, retryable, effect)
    PROVE  WithinBudget'
<1> SUFFICES ASSUME NEW c \in Models
             PROVE  /\ tries'[c] <= Budget' /\ recTries'[c] <= Budget'
                    /\ MayStart(c)' => tries'[c] < Budget'
  BY DEF WithinBudget
<1> TypeOK
  BY DEF IInv
<1>1. Budget' = Budget /\ status' = status /\ task[m] = "exec"
  BY DEF AttemptOk, AttemptFail, Budget, bounds
<1>2. tries[m] < Budget /\ status[m] # "pending"
  BY <1>1 DEF WithinBudget, MayStart, IInv, Guarded, LiveIsRunning
<1>3. tries' = [tries EXCEPT ![m] = tries[m] + 1]
  BY DEF AttemptOk, AttemptFail
<1>4. tries'[c] <= Budget
  BY <1>2, <1>3, BudgetRange DEF WithinBudget
<1>5. recTries'[c] = recTries[c] \/ recTries'[c] = tries'[c]
  BY DEF AttemptOk, AttemptFail, Persist, durable
<1>6. MayStart(c)' => tries'[c] < Budget
  <2>1. CASE c # m
    <3>1. tries'[c] = tries[c] /\ task'[c] = task[c]
      BY <1>3, <2>1, BudgetRange DEF AttemptOk, AttemptFail, TypeOK
    <3> QED
      BY <1>1, <3>1 DEF WithinBudget, MayStart
  <2>2. CASE c = m /\ AttemptOk(m)
    <3>1. task'[m] = "ok"
      BY <2>2 DEF AttemptOk, TypeOK
    <3> QED
      BY <1>1, <1>2, <3>1, <2>2 DEF MayStart
  <2>3. CASE c = m /\ AttemptFail(m, retryable, effect)
    <3>1. task'[m] = IF retryable /\ tries'[m] < MaxAttempts /\ ~stopReq
                     THEN "backoff" ELSE "err"
      BY <2>3 DEF AttemptFail, TypeOK
    <3>2. tries'[m] \in Nat
      BY <1>3, BudgetRange
    <3> QED
      BY <1>1, <1>2, <3>1, <3>2, <2>3, BudgetRange DEF MayStart
  <2> QED
    BY <2>1, <2>2, <2>3
<1> QED
  BY <1>1, <1>4, <1>5, <1>6 DEF WithinBudget

\* A new invocation starts from what is on record, and has one more.
LEMMA BudgetWorld ==
    ASSUME IInv, WithinBudget, Kill \/ Resume
    PROVE  WithinBudget'
<1> TypeOK
  BY DEF IInv
<1>1. CASE Kill
  <2>1. /\ Budget' = Budget /\ recTries' = recTries
        /\ \A m \in Models : tries'[m] = 0
    BY <1>1 DEF Kill, Budget, bounds, durable, NoTries
  <2> QED
    BY <2>1, BudgetRange DEF WithinBudget
<1>2. CASE Resume
  <2>1. Budget' = Budget + 1 /\ recTries' = recTries /\ tries' = recTries
    BY <1>2, BudgetRange DEF Resume, Budget
  <2> QED
    BY <2>1, BudgetRange DEF WithinBudget
<1> QED
  BY <1>1, <1>2

\* The rest counts nothing, records no attempts and starts no model.
LEMMA BudgetElse ==
    ASSUME TypeOK, WithinBudget, UNCHANGED <<status, tries, recTries, epoch>>,
           \A m \in Models :
               \/ task'[m] = task[m] \/ task'[m] = "none"
               \/ task[m] \in {"exec", "backoff"}
    PROVE  WithinBudget'
<1>1. \A m \in Models : MayStart(m)' => MayStart(m)
  BY DEF MayStart
<1> QED
  BY <1>1, BudgetKept

LEMMA BudgetStep == IInv /\ WithinBudget /\ [Next]_vars => WithinBudget'
<1> SUFFICES ASSUME IInv, WithinBudget, [Next]_vars PROVE WithinBudget'
  OBVIOUS
<1> TypeOK
  BY DEF IInv
<1> USE DEF work, durable, bounds
<1>1. CASE Scheduler
  <2>1. CASE \E s \in Seeds : CancelSeed(s) \/ SkipSeed(s) \/ StartSeed(s)
    BY <2>1, BudgetElse DEF CancelSeed, SkipSeed, StartSeed
  <2>2. CASE \E m \in Models : \/ Reuse(m) \/ SkipModel(m) \/ AdoptCached(m)
                              \/ BlockReader(m) \/ Classify(m)
                              \/ JoinPassed(m) \/ JoinFailed(m)
                              \/ DrainPassed(m) \/ DrainFailed(m)
    BY <2>2, BudgetRecorded
  <2>3. CASE \E m \in Models : Dispatch(m)
    BY <2>3, BudgetDispatched
  <2>4. CASE \E m \in Models, survives \in BOOLEAN : DrainAbort(m, survives)
    <3>1. PICK m \in Models, survives \in BOOLEAN : DrainAbort(m, survives)
      BY <2>4
    <3>2. \A c \in Models : task'[c] = task[c] \/ task'[c] = "none"
      BY <3>1 DEF DrainAbort, TypeOK
    <3> QED
      BY <3>1, <3>2, BudgetElse DEF DrainAbort
  <2>5. CASE \/ \E t \in Tests : SkipTest(t) \/ StartTest(t)
             \/ \E m \in Models : Record(m) \/ RefuseCached(m)
    BY <2>5, BudgetElse DEF SkipTest, StartTest, Record, RefuseCached
  <2>6. CASE \/ SeedsDone \/ PrepDone \/ BlockDone \/ LoopTop \/ DispatchDone
             \/ SelectCancel \/ DrainDone \/ TestsDone \/ FinishRun
    BY <2>6, BudgetElse DEF SeedsDone, PrepDone, BlockDone, LoopTop, DispatchDone,
       SelectCancel, DrainDone, TestsDone, FinishRun
  <2> QED
    BY <1>1, <2>1, <2>2, <2>3, <2>4, <2>5, <2>6 DEF Scheduler
<1>2. CASE Task
  <2>1. CASE \E s \in Seeds : AnswerSeed(s)
    BY <2>1, BudgetElse DEF AnswerSeed, EndSeed
  <2>2. CASE \E t \in Tests : AnswerTest(t)
    BY <2>2, BudgetElse DEF AnswerTest, EndTest
  <2>3. CASE \E m \in Models : AnswerModel(m)
    BY <2>3, BudgetAttempt DEF AnswerModel
  <2>4. CASE \E m \in Models : Retry(m)
    <3>1. PICK m \in Models : Retry(m)
      BY <2>4
    <3>2. \A c \in Models : task'[c] = task[c] \/ task[c] = "backoff"
      BY <3>1 DEF Retry, TypeOK
    <3> QED
      BY <3>1, <3>2, BudgetElse DEF Retry
  <2> QED
    BY <1>2, <2>1, <2>2, <2>3, <2>4 DEF Task
<1>3. CASE World
  <2>1. CASE Kill \/ Resume
    BY <2>1, BudgetWorld
  <2>2. CASE Cancel \/ \E m \in Models : OrphanLands(m) \/ DropRelation(m)
    BY <2>2, BudgetElse DEF Cancel, OrphanLands, DropRelation
  <2> QED
    BY <1>3, <2>1, <2>2 DEF World
<1>4. CASE UNCHANGED vars
  BY <1>4, BudgetElse DEF vars
<1> QED
  BY <1>1, <1>2, <1>3, <1>4 DEF Next

LEMMA BudgetHolds == Spec => []WithinBudget
<1> QED
  BY BudgetInit, BudgetStep, IInvHolds, PTL DEF Spec

-----------------------------------------------------------------------------
(***************************************************************************)
(* Runner implements RunContract, and the invariants of Runner that this   *)
(* rests on, for any invocations and relations dropped in between.         *)
(***************************************************************************)
-----------------------------------------------------------------------------
(***************************************************************************)
(* The inductive invariant.                                                *)
(***************************************************************************)
\* What is on record.  An attempt in progress is on record as running, and an
\* attempt that answered has built the relation.
TaskOnRecord == \A m \in Models :
    /\ task[m] # "none" => rec[m] = "running"
    /\ task[m] = "ok" => rel[m] = "new"
\* A model that is going to be built has not passed in this run, or its
\* relation was dropped.
BuildIsDue ==
    pc \in Active => \A m \in Models :
        status[m] \notin Satisfied /\ plan[m] # "skip" /\ rec[m] = "passed"
            => m \in dropped
GoodOnRecord ==
    pc # "down" =>
        /\ \A m \in Models : status[m] \in Satisfied => rec[m] \in Satisfied
        /\ \A s \in Seeds : seedStatus[s] \in Satisfied => seedRec[s] \in Satisfied
VerdictLast ==
    /\ runRow # "running" => pc = "over"
    /\ runRow = "cancelled" => cancelled
\* A seed is on record as loaded, or the plan found it in place.
SeedRecord ==
    pc # "down" => \A s \in Seeds :
        /\ seedStatus[s] = "running" => seedPlan[s] = "build"
        /\ seedStatus[s] = "passed" => seedRec[s] = "passed"
        /\ seedStatus[s] \in {"skipped", "cached"} => seedPlan[s] = "skip"
        /\ seedStatus[s] # "passed" /\ seedRec[s] = "passed" => seedPlan[s] = "skip"
RecordInv == TaskOnRecord /\ BuildIsDue /\ GoodOnRecord /\ VerdictLast /\ SeedRecord

\* Which outcomes there are, and where.
EarlyStatus ==
    /\ pc = "seeds" => \A m \in Models : status[m] = "pending"
    /\ pc = "prep" => \A m \in Models : status[m] \in {"pending", "skipped", "cached"}
    /\ pc = "block" => \A m \in Models :
          status[m] \in {"pending", "skipped", "cached", "blocked"}
    /\ pc \in Active \ {"seeds", "prep"} =>
          \A m \in Models : status[m] \notin Satisfied => plan[m] = "build"
    /\ pc = "down" => \A m \in Models : status[m] = "pending"
LateStatus ==
    /\ pc \in {"tests", "record", "over"} => \A m \in Models : status[m] \in Terminal
    /\ \A m \in Models : status[m] = "cancelled" =>
          /\ Stopped /\ Inflight = {}
          /\ pc \in {"drain", "tests", "record", "over"}
    /\ aborting => \/ \E m \in Models : status[m] = "failed"
                   \/ \E s \in Seeds : seedStatus[s] = "failed"
\* What was executed had everything it reads.
ExecutedHadInputs ==
    \A m \in Models : status[m] \in {"passed", "failed"} => Waits(m) = {}
CauseInv == EarlyStatus /\ LateStatus /\ ExecutedHadInputs
            /\ BlockedHasCause /\ BrokenInputPropagates

\* The queue holds every model that can start, until a failure empties it; the
\* loop is left only when there is nothing to do or on a stop.
QueueIsFull ==
    pc \in Looping /\ ~aborting => \A m \in Models :
        status[m] = "pending" /\ remaining[m] = 0 => m \in ready
RunningHasTask ==
    /\ pc \in Looping \/ (pc = "drain" /\ ~Stopped) =>
          \A m \in Models : status[m] = "running" => task[m] # "none"
DrainIsDone ==
    pc = "drain" /\ ~Stopped => Inflight = {} /\ \A m \in Models :
        status[m] = "pending" => remaining[m] # 0
QueueInv == QueueIsFull /\ RunningHasTask /\ DrainIsDone

KInv == IInv /\ RecordInv /\ PassedIsBuilt /\ CauseInv /\ QueueInv

LEMMA KInvInit == Init => KInv
<1> SUFFICES ASSUME Init PROVE KInv
  OBVIOUS
<1>1. IInv
  BY TypeInit, GuardedInit DEF IInv
<1>2. TaskOnRecord /\ PassedIsBuilt /\ GoodOnRecord /\ VerdictLast
  BY DEF Init, TaskOnRecord, PassedIsBuilt, GoodOnRecord, VerdictLast, Satisfied
<1>3. BuildIsDue /\ SeedRecord
  BY DEF Init, BuildIsDue, SeedRecord
<1>4. EarlyStatus
  BY DEF Init, EarlyStatus
<1>5. LateStatus /\ ExecutedHadInputs /\ BlockedHasCause
  BY DEF Init, LateStatus, ExecutedHadInputs, BlockedHasCause
<1>6. BrokenInputPropagates
  BY DepsFinite DEF Init, BrokenInputPropagates
<1>7. QueueInv
  BY DEF Init, QueueInv, QueueIsFull, RunningHasTask, DrainIsDone, Looping
<1> QED
  BY <1>1, <1>2, <1>3, <1>4, <1>5, <1>6, <1>7 DEF KInv, RecordInv, CauseInv

-----------------------------------------------------------------------------
(***************************************************************************)
(* What the invariant says of block_dependents and of the end of a run.    *)
(***************************************************************************)
\* block_dependents is closed downstream, and everything it reaches reads
\* what failed or something else it reaches.
LEMMA ConeShape ==
    ASSUME NEW m \in Models
    PROVE  /\ Cone(m) \subseteq Models
           /\ Blockable(m) \subseteq Cone(m)
           /\ \A c \in Cone(m) : Blockable(c) \subseteq Cone(m)
           /\ \A c \in Cone(m) : Deps[c] \cap ({m} \cup Cone(m)) # {}
<1>1. Cone(m) \subseteq Models
  BY DEF Cone
<1>2. Blockable(m) \subseteq Cone(m)
  BY DEF Cone, Blockable, Dependents
<1>3. \A c \in Cone(m) : Blockable(c) \subseteq Cone(m)
  BY DEF Cone, Blockable, Dependents
<1>4. ASSUME NEW c \in Cone(m), Deps[c] \cap ({m} \cup Cone(m)) = {}
      PROVE  FALSE
  <2> DEFINE S == Cone(m) \ {c}
  <2>1. S \in SUBSET Models
    BY <1>1
  <2>2. \A d \in {m} \cup Cone(m) : c \notin Blockable(d)
    BY <1>4 DEF Blockable, Dependents
  <2>3. Blockable(m) \subseteq S /\ \A d \in S : Blockable(d) \subseteq S
    BY <1>2, <1>3, <2>2
  <2>4. c \in S
    BY <2>1, <2>3 DEF Cone
  <2> QED
    BY <2>4
<1> QED
  BY <1>1, <1>2, <1>3, <1>4

\* A set of models each of which reads another one of the set is empty.
LEMMA NoKnot ==
    ASSUME NEW S \in SUBSET Models, \A m \in S : Deps[m] \cap S # {}
    PROVE  S = {}
  BY AcyclicAssumption

\* The loop is left without a stop only when every model has its outcome.
LEMMA NothingLeft ==
    ASSUME KInv, pc = "drain", ~Stopped
    PROVE  \A m \in Models : status[m] \in Terminal
<1> DEFINE S == {m \in Models : status[m] = "pending"}
<1>1. \A m \in Models : status[m] \notin Terminal => m \in S
  <2>1. \A m \in Models : task[m] = "none"
    BY DEF KInv, IInv, TypeOK, QueueInv, DrainIsDone, Inflight
  <2>2. \A m \in Models : status[m] # "running"
    BY <2>1 DEF KInv, QueueInv, RunningHasTask
  <2> QED
    BY <2>2 DEF KInv, IInv, TypeOK, Status, Terminal
<1>2. ASSUME NEW m \in S PROVE Deps[m] \cap S # {}
  <2>1. remaining[m] # 0 /\ remaining[m] = Cardinality(Waits(m))
    BY DEF KInv, IInv, QueueInv, DrainIsDone, CountsRight
  <2>2. PICK d \in Waits(m) : TRUE
    BY <2>1, FS_EmptySet
  <2>3. d \in Models /\ d \in Deps[m] /\ status[d] \notin Satisfied
    BY DepsFinite DEF Waits
  <2>4. status[d] \notin {"failed", "blocked"}
    BY <2>3 DEF KInv, CauseInv, BrokenInputPropagates
  <2>5. status[d] # "cancelled"
    BY <2>3 DEF KInv, CauseInv, LateStatus
  <2> QED
    BY <1>1, <2>3, <2>4, <2>5 DEF Terminal, Satisfied
<1>3. S = {}
  BY <1>2, NoKnot
<1> QED
  BY <1>1, <1>3

\* A run that was neither cancelled nor failed at anything is whole.
LEMMA WholeAtEnd ==
    ASSUME KInv, pc = "record", ~cancelled,
           \A m \in Models : status[m] # "failed",
           \A s \in Seeds : seedStatus[s] # "failed"
    PROVE  /\ \A m \in Models : status[m] \in Satisfied
           /\ \A s \in Seeds : seedStatus[s] \in Satisfied
<1>1. ~Stopped
  BY DEF KInv, CauseInv, LateStatus, Stopped
<1>2. \A s \in Seeds : seedStatus[s] \in Satisfied
  BY <1>1 DEF KInv, IInv, Guarded, SeedsEnd, Terminal, Satisfied
<1>3. \A m \in Models : status[m] \in Satisfied \/ status[m] = "blocked"
  BY <1>1 DEF KInv, CauseInv, LateStatus, Terminal, Satisfied
<1> DEFINE S == {m \in Models : status[m] = "blocked"}
<1>4. ASSUME NEW m \in S PROVE Deps[m] \cap S # {}
  <2>1. ~ReadsFailedSeed(m)
    BY DEF ReadsFailedSeed, FailedSeeds
  <2>2. PICK d \in Deps[m] : status[d] \in {"failed", "blocked"}
    BY <2>1 DEF KInv, CauseInv, BlockedHasCause
  <2> QED
    BY <2>2, DepsFinite
<1>5. S = {}
  BY <1>4, NoKnot
<1> QED
  BY <1>2, <1>3, <1>5

-----------------------------------------------------------------------------
(***************************************************************************)
(* Every step preserves it.                                                *)
(***************************************************************************)
Rest == RecordInv /\ PassedIsBuilt /\ CauseInv /\ QueueInv

LEMMA SeedsKept ==
    ASSUME KInv, NEW x \in Seeds, NEW end \in {"passed", "failed"},
           CancelSeed(x) \/ SkipSeed(x) \/ StartSeed(x) \/ EndSeed(x, end)
    PROVE  Rest'
<1> USE DEF sched, planVars, work, durable, physical, bounds
<1>1. pc = "seeds" /\ pc' = "seeds" /\ (Stopped => Stopped')
  BY DEF CancelSeed, SkipSeed, StartSeed, EndSeed, Stopped, KInv, IInv, TypeOK
<1>2. UNCHANGED <<plan, seedPlan, status, remaining, ready, task, rel, rec,
                  runRow, dropped>>
  BY DEF CancelSeed, SkipSeed, StartSeed, EndSeed
<1>3. TypeOK
  BY DEF KInv, IInv
<1>4. TaskOnRecord' /\ BuildIsDue' /\ VerdictLast' /\ PassedIsBuilt'
  BY <1>1, <1>2 DEF KInv, RecordInv, TaskOnRecord, BuildIsDue, VerdictLast,
     PassedIsBuilt
<1>5. GoodOnRecord' /\ SeedRecord'
  <2>1. \A s \in Seeds : s # x => seedStatus'[s] = seedStatus[s] /\ seedRec'[s] = seedRec[s]
    BY <1>3 DEF CancelSeed, SkipSeed, StartSeed, EndSeed, TypeOK
  <2>2. /\ seedStatus'[x] \in Satisfied => seedRec'[x] \in Satisfied
        /\ seedStatus'[x] = "running" => seedPlan[x] = "build"
        /\ seedStatus'[x] = "passed" => seedRec'[x] = "passed"
        /\ seedStatus'[x] \in {"skipped", "cached"} => seedPlan[x] = "skip"
        /\ seedStatus'[x] # "passed" /\ seedRec'[x] = "passed" => seedPlan[x] = "skip"
    BY <1>1, <1>3 DEF CancelSeed, SkipSeed, StartSeed, EndSeed, TypeOK, Satisfied,
       KInv, RecordInv, SeedRecord
  <2> QED
    BY <1>1, <1>2, <2>1, <2>2 DEF KInv, RecordInv, GoodOnRecord, SeedRecord
<1>6. EarlyStatus' /\ \A m \in Models : status[m] = "pending"
  BY <1>1, <1>2 DEF KInv, CauseInv, EarlyStatus
<1>7. LateStatus'
  <2>1. aborting' => \/ \E m \in Models : status'[m] = "failed"
                     \/ \E s \in Seeds : seedStatus'[s] = "failed"
    <3>1. CASE EndSeed(x, end)
      <4>1. \A s \in Seeds : seedStatus[s] = "failed" => seedStatus'[s] = "failed"
        BY <1>3, <3>1 DEF EndSeed, TypeOK
      <4>2. aborting' => aborting \/ seedStatus'[x] = "failed"
        BY <1>3, <3>1 DEF EndSeed, TypeOK
      <4> QED
        BY <1>2, <4>1, <4>2 DEF KInv, CauseInv, LateStatus
    <3>2. CASE CancelSeed(x) \/ SkipSeed(x) \/ StartSeed(x)
      <4>1. aborting' = aborting
        BY <3>2 DEF CancelSeed, SkipSeed, StartSeed
      <4>2. \A s \in Seeds : seedStatus[s] = "failed" => seedStatus'[s] = "failed"
        BY <1>3, <3>2 DEF CancelSeed, SkipSeed, StartSeed, TypeOK
      <4> QED
        BY <1>2, <4>1, <4>2 DEF KInv, CauseInv, LateStatus
    <3> QED
      BY <3>1, <3>2
  <2> QED
    BY <1>1, <1>2, <1>6, <2>1 DEF LateStatus
<1>8. ExecutedHadInputs' /\ BlockedHasCause' /\ BrokenInputPropagates'
  BY <1>1, <1>2, <1>6, DepsFinite
  DEF ExecutedHadInputs, BlockedHasCause, BrokenInputPropagates
<1>9. QueueInv'
  BY <1>1 DEF QueueInv, QueueIsFull, RunningHasTask, DrainIsDone, Looping
<1> QED
  BY <1>4, <1>5, <1>6, <1>7, <1>8, <1>9 DEF Rest, RecordInv, CauseInv

LEMMA ControlKept ==
    ASSUME KInv,
           \/ SeedsDone \/ PrepDone \/ BlockDone \/ LoopTop \/ DispatchDone
           \/ SelectCancel \/ DrainDone \/ TestsDone \/ FinishRun \/ Cancel
    PROVE  Rest'
<1> USE DEF sched, planVars, work, durable, physical, bounds
<1>1. UNCHANGED <<plan, seedPlan, seedStatus, status, remaining, task, rel, rec,
                  seedRec, dropped, aborting>>
  BY DEF SeedsDone, PrepDone, BlockDone, LoopTop, DispatchDone, SelectCancel,
         DrainDone, TestsDone, FinishRun, Cancel
<1>2. Stopped => Stopped'
  BY DEF SeedsDone, PrepDone, BlockDone, LoopTop, DispatchDone, SelectCancel,
         DrainDone, TestsDone, FinishRun, Cancel, Stopped
<1>3. TypeOK
  BY DEF KInv, IInv
<1>4. pc # "down" /\ pc' # "down" /\ (pc' \in Active => pc \in Active)
  BY <1>3 DEF SeedsDone, PrepDone, BlockDone, LoopTop, DispatchDone, SelectCancel,
         DrainDone, TestsDone, FinishRun, Cancel, Active, Phase, TypeOK
<1>5. TaskOnRecord' /\ BuildIsDue' /\ PassedIsBuilt' /\ GoodOnRecord' /\ SeedRecord'
  BY <1>1, <1>4 DEF KInv, RecordInv, TaskOnRecord, BuildIsDue, PassedIsBuilt,
     GoodOnRecord, SeedRecord
<1>6. VerdictLast'
  <2>1. CASE FinishRun
    BY <2>1 DEF FinishRun, VerdictLast, RunStatus
  <2>2. CASE ~FinishRun
    BY <2>2 DEF KInv, RecordInv, VerdictLast, SeedsDone, PrepDone, BlockDone,
       LoopTop, DispatchDone, SelectCancel, DrainDone, TestsDone, Cancel, Active, Phase
  <2> QED
    BY <2>1, <2>2
<1>7. EarlyStatus'
  BY <1>1, <1>3 DEF KInv, CauseInv, EarlyStatus, SeedsDone, PrepDone, BlockDone,
     LoopTop, DispatchDone, SelectCancel, DrainDone, TestsDone, FinishRun, Cancel,
     Active, Phase, Satisfied, TypeOK
<1>8. LateStatus'
  <2>1. pc' \in {"tests", "record", "over"} => \A m \in Models : status[m] \in Terminal
    BY DEF KInv, CauseInv, LateStatus, SeedsDone, PrepDone, BlockDone,
       LoopTop, DispatchDone, SelectCancel, DrainDone, TestsDone, FinishRun, Cancel
  <2>2. pc \in {"drain", "tests", "record", "over"} =>
            pc' \in {"drain", "tests", "record", "over"}
    BY DEF SeedsDone, PrepDone, BlockDone,
       LoopTop, DispatchDone, SelectCancel, DrainDone, TestsDone, FinishRun, Cancel
  <2> QED
    BY <1>1, <1>2, <2>1, <2>2 DEF KInv, CauseInv, LateStatus, Inflight
<1>9. ExecutedHadInputs' /\ BlockedHasCause'
  BY <1>1 DEF KInv, CauseInv, ExecutedHadInputs, BlockedHasCause, Waits,
     ReadsFailedSeed, FailedSeeds
<1>10. BrokenInputPropagates'
  <2> DEFINE After == {"top", "dispatch", "select", "drain", "tests", "record", "over"}
  <2>1. CASE BlockDone
    <3>1. \A m \in Models : ReadsFailedSeed(m) => status[m] \in {"blocked", "skipped", "cached"}
      BY <2>1 DEF BlockDone, KInv, CauseInv, EarlyStatus
    <3> QED
      BY <1>1, <3>1 DEF KInv, CauseInv, BrokenInputPropagates, ReadsFailedSeed, FailedSeeds
  <2>2. CASE ~BlockDone
    <3>1. pc' \in After => pc \in After
      BY <2>2 DEF SeedsDone, PrepDone, LoopTop, DispatchDone,
         SelectCancel, DrainDone, TestsDone, FinishRun, Cancel
    <3> QED
      BY <1>1, <3>1 DEF KInv, CauseInv, BrokenInputPropagates, ReadsFailedSeed, FailedSeeds
  <2> QED
    BY <2>1, <2>2
<1>11. QueueIsFull'
  <2>1. CASE BlockDone
    BY <1>1, <2>1 DEF BlockDone, QueueIsFull, Runnable
  <2>2. CASE ~BlockDone
    <3>1. ready' = ready /\ (pc' \in Looping => pc \in Looping)
      BY <2>2 DEF Looping, SeedsDone, PrepDone, LoopTop, DispatchDone,
           SelectCancel, DrainDone, TestsDone, FinishRun, Cancel
    <3> QED
      BY <1>1, <3>1 DEF KInv, QueueInv, QueueIsFull
  <2> QED
    BY <2>1, <2>2
<1>12. RunningHasTask'
  <2>1. CASE BlockDone
    <3>1. \A m \in Models : status[m] # "running"
      BY <2>1 DEF BlockDone, KInv, CauseInv, EarlyStatus
    <3> QED
      BY <1>1, <3>1 DEF RunningHasTask
  <2>2. CASE ~BlockDone
    <3>1. pc' \in Looping \/ (pc' = "drain" /\ ~Stopped') =>
            pc \in Looping \/ (pc = "drain" /\ ~Stopped)
      BY <1>2, <2>2 DEF Looping, SeedsDone, PrepDone, LoopTop, DispatchDone,
           SelectCancel, DrainDone, TestsDone, FinishRun, Cancel
    <3> QED
      BY <1>1, <3>1 DEF KInv, QueueInv, RunningHasTask
  <2> QED
    BY <2>1, <2>2
<1>13. DrainIsDone'
  <2> SUFFICES ASSUME pc' = "drain", ~Stopped'
               PROVE  Inflight = {} /\ \A m \in Models :
                         status[m] = "pending" => remaining[m] # 0
    BY <1>1 DEF DrainIsDone, Inflight
  <2>1. ~Stopped /\ ~aborting
    BY <1>2 DEF Stopped
  <2>2. CASE pc = "drain"
    BY <2>1, <2>2 DEF KInv, QueueInv, DrainIsDone
  <2>3. CASE pc # "drain"
    <3>1. pc \in Looping /\ Inflight = {} /\ ready = {}
      BY <2>1, <2>3 DEF SeedsDone, PrepDone, BlockDone, LoopTop, DispatchDone,
         SelectCancel, DrainDone, TestsDone, FinishRun, Cancel, Stopped, Looping
    <3> QED
      BY <2>1, <3>1 DEF KInv, QueueInv, QueueIsFull
  <2> QED
    BY <2>2, <2>3
<1> QED
  BY <1>5, <1>6, <1>7, <1>8, <1>9, <1>10, <1>11, <1>12, <1>13
  DEF Rest, RecordInv, CauseInv, QueueInv

\* Before the loop: reused, skipped and adopted models, and refused adoptions.
LEMMA SpareKept ==
    ASSUME KInv, NEW m \in Models,
           Reuse(m) \/ SkipModel(m) \/ AdoptCached(m) \/ RefuseCached(m)
    PROVE  Rest'
<1> USE DEF sched, planVars, work, durable, physical, bounds
<1>1. /\ pc = "prep" /\ pc' = "prep" /\ status[m] = "pending"
      /\ UNCHANGED <<sched, seedPlan, seedStatus, task, rel, seedRec, runRow, dropped>>
  BY DEF Reuse, SkipModel, AdoptCached, RefuseCached
<1>2. TypeOK /\ TypeOK'
  BY TypeStep DEF KInv, IInv, Next, Scheduler
<1>3. \A c \in Models : c # m => /\ status'[c] = status[c] /\ rec'[c] = rec[c]
                                 /\ plan'[c] = plan[c]
  BY <1>2 DEF Reuse, SkipModel, AdoptCached, RefuseCached, Ended, Persist, TypeOK
<1>4. \/ /\ status'[m] \in {"skipped", "cached"} /\ rec'[m] \in Satisfied
         /\ rec'[m] = "passed" => rec[m] = "passed"
      \/ status'[m] = "pending" /\ rec'[m] = rec[m] /\ plan[m] = "cached"
  <2>1. CASE Reuse(m)
    BY <1>2, <2>1 DEF Reuse, Reusable, Ended, TypeOK, Satisfied
  <2>2. CASE SkipModel(m)
    BY <1>2, <2>2 DEF SkipModel, Ended, Persist, TypeOK, Satisfied
  <2>3. CASE AdoptCached(m)
    BY <1>2, <2>3 DEF AdoptCached, Ended, Persist, TypeOK, Satisfied
  <2>4. CASE RefuseCached(m)
    BY <1>1, <1>2, <2>4 DEF RefuseCached
  <2> QED
    BY <2>1, <2>2, <2>3, <2>4
<1>5. \A c \in Models : task[c] = "none"
  BY <1>1 DEF KInv, IInv, Guarded, TasksOnlyInLoop, TaskPhases, Looping
<1>6. TaskOnRecord' /\ PassedIsBuilt' /\ VerdictLast' /\ SeedRecord'
  BY <1>1, <1>3, <1>4, <1>5 DEF KInv, RecordInv, TaskOnRecord, PassedIsBuilt,
     VerdictLast, SeedRecord
<1>7. BuildIsDue'
  BY <1>1, <1>3, <1>4 DEF KInv, RecordInv, BuildIsDue, Active, Phase, Satisfied
<1>8. GoodOnRecord'
  BY <1>1, <1>3, <1>4 DEF KInv, RecordInv, GoodOnRecord, Satisfied
<1>9. \A c \in Models : status[c] \in {"pending", "skipped", "cached"}
                        /\ status'[c] \in {"pending", "skipped", "cached"}
  BY <1>1, <1>3, <1>4 DEF KInv, CauseInv, EarlyStatus
<1>10. EarlyStatus' /\ ExecutedHadInputs' /\ BlockedHasCause'
  BY <1>1, <1>9 DEF EarlyStatus, ExecutedHadInputs, BlockedHasCause
<1>11. BrokenInputPropagates'
  BY <1>1, <1>9, DepsFinite DEF BrokenInputPropagates
<1>12. LateStatus'
  BY <1>1, <1>9 DEF KInv, CauseInv, LateStatus
<1>13. QueueInv'
  BY <1>1 DEF QueueInv, QueueIsFull, RunningHasTask, DrainIsDone, Looping
<1> QED
  BY <1>6, <1>7, <1>8, <1>10, <1>11, <1>12, <1>13 DEF Rest, RecordInv, CauseInv

LEMMA DispatchKept ==
    ASSUME KInv, NEW m \in Models, Dispatch(m)
    PROVE  Rest'
<1> USE DEF sched, planVars, work, durable, physical, bounds
<1>1. /\ pc = "dispatch" /\ pc' = "dispatch" /\ m \in ready /\ ready' = ready \ {m}
      /\ UNCHANGED <<sched, planVars, seedStatus, remaining, rel, seedRec, runRow,
                     dropped>>
  BY DEF Dispatch
<1>2. TypeOK
  BY DEF KInv, IInv
<1>3. \A c \in Models : c # m => /\ status'[c] = status[c] /\ rec'[c] = rec[c]
                                 /\ task'[c] = task[c]
  BY <1>2 DEF Dispatch, Ended, Persist, TypeOK
<1>4. status'[m] = "running" /\ rec'[m] = "running" /\ task'[m] = "exec"
  BY <1>2 DEF Dispatch, Ended, Persist, TypeOK
<1>5. status[m] = "pending" /\ Waits(m) = {} /\ ~ReadsFailedSeed(m)
  BY <1>1 DEF KInv, IInv, Guarded, ReadyIsGood, PendingIsClean, Looping
<1>6. TaskOnRecord' /\ BuildIsDue' /\ PassedIsBuilt'
  BY <1>1, <1>3, <1>4, <1>5 DEF KInv, RecordInv, TaskOnRecord, BuildIsDue,
     PassedIsBuilt, Satisfied
<1>7. GoodOnRecord' /\ VerdictLast' /\ SeedRecord'
  BY <1>1, <1>3, <1>4 DEF KInv, RecordInv, GoodOnRecord, VerdictLast, SeedRecord,
     Satisfied
<1>8. EarlyStatus' /\ LateStatus'
  BY <1>1, <1>3, <1>4, <1>5 DEF KInv, CauseInv, EarlyStatus, LateStatus, Satisfied
<1>9. \A c \in Models : Waits(c)' = Waits(c)
  BY <1>3, <1>4, <1>5, DepsFinite DEF Waits, Satisfied
<1>10. ExecutedHadInputs'
  BY <1>3, <1>4, <1>9 DEF KInv, CauseInv, ExecutedHadInputs
<1>11. \A d \in Models : status'[d] \in {"failed", "blocked"} <=>
                         status[d] \in {"failed", "blocked"}
  BY <1>3, <1>4, <1>5
<1>12. \A c \in Models : ReadsFailedSeed(c)' = ReadsFailedSeed(c)
  BY <1>1 DEF ReadsFailedSeed, FailedSeeds
<1>13. BlockedHasCause' /\ BrokenInputPropagates'
  <2>1. ~\E d \in Deps[m] : status[d] \in {"failed", "blocked"}
    BY <1>5 DEF Waits, Satisfied
  <2> QED
    BY <1>1, <1>3, <1>4, <1>5, <1>11, <1>12, <2>1, DepsFinite
    DEF KInv, CauseInv, BlockedHasCause, BrokenInputPropagates
<1>14. QueueInv'
  BY <1>1, <1>3, <1>4 DEF KInv, QueueInv, QueueIsFull, RunningHasTask, DrainIsDone
<1> QED
  BY <1>6, <1>7, <1>8, <1>10, <1>13, <1>14 DEF Rest, RecordInv, CauseInv

\* A completed model, joined in the loop or while draining.
LEMMA CompleteKept ==
    ASSUME KInv, NEW m \in Models, JoinPassed(m) \/ DrainPassed(m)
    PROVE  Rest'
<1> USE DEF sched, planVars, work, durable, physical, bounds
<1>1. /\ task[m] = "ok" /\ pc \in {"select", "drain"}
      /\ pc' = (IF pc = "select" THEN "top" ELSE "drain")
      /\ remaining' = Release(m)
      /\ UNCHANGED <<cancelled, aborting, planVars, seedStatus, rel, seedRec, runRow,
                     dropped>>
  BY DEF JoinPassed, DrainPassed
<1>2. TypeOK
  BY DEF KInv, IInv
<1>3. \A c \in Models : c # m => /\ status'[c] = status[c] /\ rec'[c] = rec[c]
                                 /\ task'[c] = task[c]
  BY <1>2 DEF JoinPassed, DrainPassed, Ended, Persist, TypeOK
<1>4. status'[m] = "passed" /\ rec'[m] = "passed" /\ task'[m] = "none"
  BY <1>2 DEF JoinPassed, DrainPassed, Ended, Persist, TypeOK
<1>5. status[m] = "running" /\ Waits(m) = {} /\ rel[m] = "new"
  BY <1>1 DEF KInv, IInv, Guarded, LiveIsRunning, RunningIsGood, RecordInv,
     TaskOnRecord
<1>6. TaskOnRecord' /\ BuildIsDue' /\ PassedIsBuilt'
  BY <1>1, <1>3, <1>4, <1>5 DEF KInv, RecordInv, TaskOnRecord, BuildIsDue,
     PassedIsBuilt, Satisfied, Active, Phase
<1>7. GoodOnRecord' /\ VerdictLast' /\ SeedRecord'
  BY <1>1, <1>3, <1>4 DEF KInv, RecordInv, GoodOnRecord, VerdictLast, SeedRecord,
     Satisfied
<1>8. EarlyStatus'
  BY <1>1, <1>3, <1>4 DEF KInv, CauseInv, EarlyStatus, Satisfied, Active, Phase
<1>9. LateStatus'
  <2>1. \A c \in Models : status[c] # "cancelled"
    BY <1>1, <1>2 DEF KInv, CauseInv, LateStatus, Inflight, Live
  <2> QED
    BY <1>1, <1>3, <1>4, <1>5, <2>1 DEF KInv, CauseInv, LateStatus
<1>10. \A c \in Models : Waits(c)' \subseteq Waits(c)
  BY <1>3, <1>4, DepsFinite DEF Waits, Satisfied
<1>11. ExecutedHadInputs'
  BY <1>3, <1>4, <1>5, <1>10 DEF KInv, CauseInv, ExecutedHadInputs
<1>12. \A d \in Models : status'[d] \in {"failed", "blocked"} <=>
                         status[d] \in {"failed", "blocked"}
  BY <1>3, <1>4, <1>5
<1>13. \A c \in Models : ReadsFailedSeed(c)' = ReadsFailedSeed(c)
  BY <1>1 DEF ReadsFailedSeed, FailedSeeds
<1>14. BlockedHasCause' /\ BrokenInputPropagates'
  <2>1. ~\E d \in Deps[m] : status[d] \in {"failed", "blocked"}
    BY <1>5 DEF Waits, Satisfied
  <2>2. ~ReadsFailedSeed(m)
    BY <1>1, <1>5 DEF KInv, CauseInv, BrokenInputPropagates
  <2> QED
    BY <1>1, <1>3, <1>4, <1>5, <1>12, <1>13, <2>1, <2>2, DepsFinite
    DEF KInv, CauseInv, BlockedHasCause, BrokenInputPropagates
<1>15. QueueIsFull'
  <2> SUFFICES ASSUME pc = "select", ~aborting, NEW c \in Models,
                      status'[c] = "pending", remaining'[c] = 0
               PROVE  c \in ready'
    BY <1>1 DEF QueueIsFull, Looping
  <2>1. ready' = ready \cup {x \in Dependents(m) :
                             remaining'[x] = 0 /\ status'[x] = "pending"}
    BY DEF JoinPassed, DrainPassed
  <2>2. c # m /\ status[c] = "pending"
    BY <1>3, <1>4
  <2>3. CASE c \in Dependents(m)
    BY <2>1, <2>3
  <2>4. CASE c \notin Dependents(m)
    BY <1>1, <2>1, <2>2, <2>4 DEF Release, KInv, QueueInv, QueueIsFull, Looping
  <2> QED
    BY <2>3, <2>4
<1>16. RunningHasTask'
  BY <1>1, <1>3, <1>4 DEF KInv, QueueInv, RunningHasTask, Looping, Stopped
<1>17. DrainIsDone'
  BY <1>1, <1>2 DEF KInv, QueueInv, DrainIsDone, Inflight, Live, Stopped
<1> QED
  BY <1>6, <1>7, <1>8, <1>9, <1>11, <1>14, <1>15, <1>16, <1>17
  DEF Rest, RecordInv, CauseInv, QueueInv

\* A failure, or a model that reads a failed seed, and everything downstream.
LEMMA BreakKept ==
    ASSUME KInv, NEW m \in Models, BlockReader(m) \/ JoinFailed(m) \/ DrainFailed(m)
    PROVE  Rest'
<1> USE DEF sched, planVars, work, durable, physical, bounds
<1>1. PICK st \in {"blocked", "failed"} :
        /\ status' = EndedBlocking(m, st)
        /\ \A c \in Models : rec'[c] = IF c \in {m} \cup Cone(m) THEN status'[c] ELSE rec[c]
        /\ st = "failed" => status[m] = "running" /\ task[m] = "err"
        /\ st = "blocked" => status[m] = "pending" /\ ReadsFailedSeed(m) /\ pc = "block"
  BY DEF BlockReader, JoinFailed, DrainFailed, Persist, KInv, IInv, Guarded,
     LiveIsRunning
<1>2. /\ status[m] \notin Satisfied /\ st \notin Satisfied /\ st \in Status
      /\ status[m] \notin Terminal
  BY <1>1 DEF Satisfied, Status, Terminal
<1>3. TypeOK
  BY DEF KInv, IInv
<1>4. \A c \in Cone(m) : c \in Models /\ status[c] = "pending" /\ Waits(c) # {}
  BY <1>2, <1>3, ConeWaits DEF KInv, IInv, Guarded
<1>5. \A c \in Models : status'[c] = IF c = m THEN st
                                     ELSE IF c \in Cone(m) THEN "blocked" ELSE status[c]
  BY <1>1 DEF EndedBlocking
<1>6. \A d \in Models : status'[d] \in Satisfied <=> status[d] \in Satisfied
  BY <1>2, <1>4, <1>5 DEF Satisfied
<1>7. /\ UNCHANGED <<planVars, seedStatus, remaining, rel, cancelled, seedRec, runRow,
                     dropped>>
      /\ pc' = (IF pc = "select" THEN "top" ELSE pc)
      /\ pc \in {"block", "select", "drain"}
      /\ ready' \in {ready, {}} /\ (ready' = ready \/ aborting')
      /\ (Stopped => Stopped') /\ (aborting => aborting')
      /\ (aborting' => aborting \/ st = "failed")
  BY <1>1, <1>3 DEF BlockReader, JoinFailed, DrainFailed, Stopped, TypeOK
<1>8. \A c \in Models : Waits(c)' = Waits(c)
  BY <1>6, DepsFinite DEF Waits
<1>9. \A c \in Models : task'[c] = IF c = m THEN "none" ELSE task[c]
  BY <1>1, <1>3 DEF BlockReader, JoinFailed, DrainFailed, TypeOK, KInv, IInv, Guarded,
     TasksOnlyInLoop, TaskPhases, Looping
<1>10. \A c \in Models : status[c] = "pending" => task[c] = "none"
  BY <1>3 DEF KInv, IInv, Guarded, LiveIsRunning
<1>11. \A c \in Models : rec'[c] = "passed" => rec[c] = "passed"
  BY <1>1, <1>5
<1>12. TaskOnRecord' /\ BuildIsDue' /\ PassedIsBuilt'
  <2>1. TaskOnRecord'
    BY <1>1, <1>4, <1>7, <1>9, <1>10 DEF KInv, RecordInv, TaskOnRecord
  <2>2. BuildIsDue'
    BY <1>6, <1>7, <1>11 DEF KInv, RecordInv, BuildIsDue, Active, Phase
  <2>3. PassedIsBuilt'
    BY <1>7, <1>11 DEF KInv, PassedIsBuilt
  <2> QED
    BY <2>1, <2>2, <2>3
<1>13. GoodOnRecord' /\ VerdictLast' /\ SeedRecord'
  <2>1. \A c \in Models : status'[c] \in Satisfied => c \notin {m} \cup Cone(m)
    BY <1>2, <1>4, <1>6 DEF Satisfied
  <2> QED
    BY <1>1, <1>6, <1>7, <2>1 DEF KInv, RecordInv, GoodOnRecord, VerdictLast, SeedRecord
<1>14. EarlyStatus'
  BY <1>1, <1>5, <1>6, <1>7 DEF KInv, CauseInv, EarlyStatus, Active, Phase
<1>15. LateStatus'
  <2>1. \A c \in Models : status'[c] = "cancelled" => status[c] = "cancelled"
    BY <1>5
  <2>2. \A c \in Models : status[c] = "failed" => status'[c] = "failed"
    BY <1>4, <1>5, <1>1
  <2>3. Inflight' \subseteq Inflight
    BY <1>9 DEF Inflight, Live
  <2>4. st = "failed" => status'[m] = "failed"
    BY <1>5
  <2> QED
    BY <1>7, <2>1, <2>2, <2>3, <2>4 DEF KInv, CauseInv, LateStatus
<1>16. ExecutedHadInputs'
  <2>1. Waits(m) = {} \/ st = "blocked"
    BY <1>1 DEF KInv, IInv, Guarded, RunningIsGood
  <2> QED
    BY <1>5, <1>8, <2>1 DEF KInv, CauseInv, ExecutedHadInputs
<1>17. \A c \in Models : ReadsFailedSeed(c)' = ReadsFailedSeed(c)
  BY <1>7 DEF ReadsFailedSeed, FailedSeeds
<1>18. \A d \in Models : status[d] \in {"failed", "blocked"} =>
                         status'[d] \in {"failed", "blocked"}
  BY <1>1, <1>5
<1>19. BlockedHasCause'
  <2> SUFFICES ASSUME NEW c \in Models, status'[c] = "blocked", ~ReadsFailedSeed(c)
               PROVE  \E d \in Deps[c] : status'[d] \in {"failed", "blocked"}
    BY <1>17 DEF BlockedHasCause
  <2>1. CASE c \in Cone(m)
    <3>1. PICK d \in Deps[c] : d \in {m} \cup Cone(m)
      BY <2>1, ConeShape
    <3> QED
      BY <1>5, <3>1, DepsFinite
  <2>2. CASE c \notin Cone(m)
    <3>1. status[c] = "blocked"
      BY <1>1, <1>5, <2>2
    <3> QED
      BY <1>18, <3>1, DepsFinite DEF KInv, CauseInv, BlockedHasCause
  <2> QED
    BY <2>1, <2>2
<1>20. BrokenInputPropagates'
  <2>1. ASSUME NEW c \in Models, status[c] \in {"blocked", "skipped", "cached"}
        PROVE  status'[c] \in {"blocked", "skipped", "cached"}
    BY <1>1, <1>5, <2>1
  <2>2. ASSUME NEW c \in Models, NEW d \in Deps[c],
               status'[d] \in {"failed", "blocked"}
        PROVE  status'[c] \in {"blocked", "skipped", "cached"}
    <3>1. d \in Models /\ c \in Dependents(d)
      BY DepsFinite DEF Dependents
    <3>2. CASE d \in {m} \cup Cone(m)
      <4>1. CASE status[c] \in Terminal
        <5>1. d \in Waits(c)
          BY <1>2, <1>4, <3>1, <3>2 DEF Waits, Satisfied
        <5>2. status[c] \notin {"passed", "failed"}
          BY <5>1 DEF KInv, CauseInv, ExecutedHadInputs
        <5>3. status[c] # "cancelled"
          <6>1. status[c] # "cancelled" \/ (Inflight = {} /\ pc # "block")
            BY DEF KInv, CauseInv, LateStatus
          <6>2. pc # "block" => m \in Inflight
            BY <1>1 DEF Inflight, Live
          <6> QED
            BY <6>1, <6>2
        <5> QED
          BY <2>1, <4>1, <5>2, <5>3 DEF Terminal
      <4>2. CASE status[c] \notin Terminal
        <5>1. c \in Cone(m)
          BY <3>1, <3>2, <4>2, ConeShape DEF Blockable
        <5>2. c = m => st = "blocked"
          BY <1>1, <1>4, <5>1
        <5> QED
          BY <1>5, <5>1, <5>2
      <4> QED
        BY <4>1, <4>2
    <3>3. CASE d \notin {m} \cup Cone(m)
      <4>1. status[d] \in {"failed", "blocked"}
        BY <1>5, <2>2, <3>1, <3>3
      <4> QED
        BY <2>1, <4>1 DEF KInv, CauseInv, BrokenInputPropagates
    <3> QED
      BY <3>2, <3>3
  <2>3. ASSUME NEW c \in Models, ReadsFailedSeed(c),
               pc' \in {"top", "dispatch", "select", "drain", "tests", "record", "over"}
        PROVE  status'[c] \in {"blocked", "skipped", "cached"}
    BY <1>7, <2>1, <2>3 DEF KInv, CauseInv, BrokenInputPropagates
  <2> QED
    BY <1>17, <2>2, <2>3 DEF BrokenInputPropagates
<1>21. QueueIsFull'
  BY <1>3, <1>4, <1>5, <1>7, <1>1 DEF KInv, QueueInv, QueueIsFull, Looping
<1>22. RunningHasTask'
  BY <1>1, <1>5, <1>7, <1>9 DEF KInv, QueueInv, RunningHasTask, Looping
<1>23. DrainIsDone'
  BY <1>1, <1>5, <1>7, <1>9 DEF KInv, QueueInv, DrainIsDone, Inflight, Live
<1> QED
  BY <1>12, <1>13, <1>14, <1>15, <1>16, <1>19, <1>20, <1>21, <1>22, <1>23
  DEF Rest, RecordInv, CauseInv, QueueInv

LEMMA ClassifyKept ==
    ASSUME KInv, NEW m \in Models, Classify(m)
    PROVE  Rest' /\ Stopped /\ status' = Ended(m, "cancelled")
<1> USE DEF sched, planVars, work, durable, physical, bounds
<1>1. /\ pc = "drain" /\ pc' = "drain" /\ status[m] \notin Terminal /\ Inflight = {}
      /\ UNCHANGED <<sched, planVars, seedStatus, remaining, task, rel, seedRec,
                     runRow, dropped>>
  BY DEF Classify
<1>2. TypeOK
  BY DEF KInv, IInv
<1>3. Stopped
  BY <1>1, NothingLeft
<1>4. status' = Ended(m, "cancelled")
  BY <1>3 DEF Classify
<1>5. \A c \in Models : c # m => /\ status'[c] = status[c] /\ rec'[c] = rec[c]
  BY <1>2 DEF Classify, Ended, Persist, TypeOK
<1>6. status'[m] = "cancelled" /\ rec'[m] = "cancelled"
  BY <1>2, <1>4 DEF Classify, Ended, Persist, TypeOK
<1>7. task[m] = "none"
  BY <1>1, <1>2 DEF Inflight, TypeOK
<1>8. status[m] \in {"pending", "running"}
  BY <1>1, <1>2 DEF TypeOK, Status, Terminal
<1>9. TaskOnRecord' /\ BuildIsDue' /\ PassedIsBuilt' /\ GoodOnRecord' /\ VerdictLast'
      /\ SeedRecord'
  BY <1>1, <1>5, <1>6, <1>7, <1>8 DEF KInv, RecordInv, TaskOnRecord, BuildIsDue,
     PassedIsBuilt, GoodOnRecord, VerdictLast, SeedRecord, Satisfied
<1>10. EarlyStatus'
  BY <1>1, <1>5, <1>6, <1>8 DEF KInv, CauseInv, EarlyStatus, Active, Phase, Satisfied
<1>11. LateStatus'
  <2>1. Inflight' = {} /\ Stopped'
    BY <1>1, <1>3 DEF Inflight, Stopped
  <2>2. \A c \in Models : status[c] = "failed" => status'[c] = "failed"
    BY <1>5, <1>8
  <2> QED
    BY <1>1, <2>1, <2>2 DEF KInv, CauseInv, LateStatus
<1>12. \A c \in Models : Waits(c)' = Waits(c)
  BY <1>5, <1>6, <1>8, DepsFinite DEF Waits, Satisfied
<1>13. ExecutedHadInputs'
  BY <1>5, <1>6, <1>12 DEF KInv, CauseInv, ExecutedHadInputs
<1>14. \A d \in Models : status'[d] \in {"failed", "blocked"} <=>
                         status[d] \in {"failed", "blocked"}
  BY <1>5, <1>6, <1>8
<1>15. \A c \in Models : ReadsFailedSeed(c)' = ReadsFailedSeed(c)
  BY <1>1 DEF ReadsFailedSeed, FailedSeeds
<1>16. BlockedHasCause' /\ BrokenInputPropagates'
  BY <1>1, <1>5, <1>6, <1>8, <1>14, <1>15, DepsFinite
  DEF KInv, CauseInv, BlockedHasCause, BrokenInputPropagates
<1>17. QueueInv'
  BY <1>1, <1>3 DEF QueueInv, QueueIsFull, RunningHasTask, DrainIsDone, Looping, Stopped
<1> QED
  BY <1>3, <1>4, <1>9, <1>10, <1>11, <1>13, <1>16, <1>17 DEF Rest, RecordInv, CauseInv

\* The tasks and the warehouse: no outcome changes.
LEMMA TaskKept ==
    ASSUME KInv, NEW m \in Models, NEW survives \in BOOLEAN,
           NEW retryable \in BOOLEAN, NEW effect \in {rel[m], "absent"},
           \/ AttemptOk(m) \/ Retry(m) \/ OrphanLands(m)
           \/ AttemptFail(m, retryable, effect) \/ DrainAbort(m, survives)
    PROVE  Rest'
<1> USE DEF sched, planVars, work, durable, physical, bounds
<1>1. UNCHANGED <<sched, planVars, seedStatus, status, remaining, ready, seedRec,
                  runRow, dropped>>
  BY DEF AttemptOk, Retry, OrphanLands, AttemptFail, DrainAbort
<1>2. TypeOK
  BY DEF KInv, IInv
<1>3. \A c \in Models : c # m => /\ task'[c] = task[c] /\ rec'[c] = rec[c]
                                 /\ rel'[c] = rel[c]
  BY <1>2 DEF AttemptOk, Retry, OrphanLands, AttemptFail, DrainAbort, Persist, TypeOK
<1>4. rec'[m] = rec[m]
  BY <1>2 DEF AttemptOk, Retry, OrphanLands, AttemptFail, DrainAbort, Persist, TypeOK,
     KInv, RecordInv, TaskOnRecord
<1>5. /\ task'[m] # "none" => rec[m] = "running"
      /\ task'[m] = "ok" => rel'[m] = "new"
      /\ rec[m] = "passed" => rel'[m] \in {rel[m], "new"}
  BY <1>2 DEF AttemptOk, Retry, OrphanLands, AttemptFail, DrainAbort, TypeOK,
     KInv, RecordInv, TaskOnRecord
<1>6. task'[m] = "none" => task[m] = "none" \/ (pc = "drain" /\ Stopped)
  BY <1>2 DEF AttemptOk, Retry, OrphanLands, AttemptFail, DrainAbort, TypeOK
<1>7. task'[m] \in Live => task[m] \in Live
  BY <1>2 DEF AttemptOk, Retry, OrphanLands, AttemptFail, DrainAbort, TypeOK, Live
<1>8. TaskOnRecord' /\ PassedIsBuilt'
  BY <1>1, <1>3, <1>4, <1>5 DEF KInv, RecordInv, TaskOnRecord, PassedIsBuilt
<1>9. BuildIsDue' /\ GoodOnRecord' /\ VerdictLast' /\ SeedRecord'
  BY <1>1, <1>3, <1>4 DEF KInv, RecordInv, BuildIsDue, GoodOnRecord, VerdictLast,
     SeedRecord
<1>10. Inflight' \subseteq Inflight
  BY <1>3, <1>7 DEF Inflight
<1>11. CauseInv'
  <2>1. \A c \in Models : Waits(c)' = Waits(c) /\ ReadsFailedSeed(c)' = ReadsFailedSeed(c)
    BY <1>1 DEF Waits, ReadsFailedSeed, FailedSeeds
  <2>2. EarlyStatus' /\ LateStatus'
    BY <1>1, <1>10 DEF KInv, CauseInv, EarlyStatus, LateStatus, Stopped
  <2>3. ExecutedHadInputs' /\ BlockedHasCause' /\ BrokenInputPropagates'
    BY <1>1, <2>1 DEF KInv, CauseInv, ExecutedHadInputs, BlockedHasCause,
       BrokenInputPropagates
  <2> QED
    BY <2>2, <2>3 DEF CauseInv
<1>12. QueueInv'
  <2>1. QueueIsFull' /\ DrainIsDone'
    BY <1>1, <1>10 DEF KInv, QueueInv, QueueIsFull, DrainIsDone, Stopped
  <2>2. RunningHasTask'
    BY <1>1, <1>3, <1>6 DEF KInv, QueueInv, RunningHasTask, Stopped, Looping
  <2> QED
    BY <2>1, <2>2 DEF QueueInv
<1> QED
  BY <1>8, <1>9, <1>11, <1>12 DEF Rest, RecordInv

\* Tests and the closing record loop.
LEMMA BystanderKept ==
    ASSUME KInv,
           UNCHANGED <<sched, planVars, seedStatus, status, remaining, ready, task,
                       runRow, rec, seedRec, rel, dropped>>
    PROVE  Rest'
<1> USE DEF sched, planVars
<1>1. /\ \A c \in Models : Waits(c)' = Waits(c) /\ ReadsFailedSeed(c)' = ReadsFailedSeed(c)
      /\ Inflight' = Inflight /\ Stopped' = Stopped
  BY DEF Waits, ReadsFailedSeed, FailedSeeds, Inflight, Stopped
<1>2. RecordInv' /\ PassedIsBuilt'
  BY DEF KInv, RecordInv, TaskOnRecord, BuildIsDue, PassedIsBuilt, GoodOnRecord,
     VerdictLast, SeedRecord
<1>3. CauseInv'
  BY <1>1 DEF KInv, CauseInv, EarlyStatus, LateStatus, ExecutedHadInputs,
     BlockedHasCause, BrokenInputPropagates
<1>4. QueueInv'
  BY <1>1 DEF KInv, QueueInv, QueueIsFull, RunningHasTask, DrainIsDone
<1> QED
  BY <1>2, <1>3, <1>4 DEF Rest

\* Between two invocations nothing has an outcome.
LEMMA FreshKept ==
    ASSUME Forget, pc' \in {"seeds", "down"}
    PROVE  CauseInv' /\ QueueInv'
<1>1. /\ \A m \in Models : status'[m] = "pending"
      /\ ~aborting'
  BY DEF Forget
<1>2. EarlyStatus' /\ LateStatus' /\ ExecutedHadInputs' /\ BlockedHasCause'
  BY <1>1 DEF EarlyStatus, LateStatus, ExecutedHadInputs, BlockedHasCause, Active
<1>3. BrokenInputPropagates'
  BY <1>1, DepsFinite DEF BrokenInputPropagates
<1>4. QueueInv'
  BY DEF QueueInv, QueueIsFull, RunningHasTask, DrainIsDone, Looping
<1> QED
  BY <1>2, <1>3, <1>4 DEF CauseInv

LEMMA WorldKept ==
    ASSUME KInv, World PROVE Rest'
<1> USE DEF sched, planVars, work, durable, physical, bounds
<1>1. CASE Cancel
  BY <1>1, ControlKept
<1>2. CASE Kill
  <2>1. /\ pc' = "down" /\ pc # "over"
        /\ UNCHANGED <<runRow, rec, seedRec, rel, dropped>>
    BY <1>2 DEF Kill, Active
  <2>2. \A m \in Models : task'[m] = "none"
    BY <1>2 DEF Kill, Forget
  <2>3. RecordInv' /\ PassedIsBuilt'
    BY <2>1, <2>2 DEF KInv, RecordInv, TaskOnRecord, BuildIsDue, PassedIsBuilt,
       GoodOnRecord, VerdictLast, SeedRecord, Active
  <2> QED
    BY <1>2, <2>1, <2>3, FreshKept DEF Kill, Rest
<1>3. CASE Resume
  <2>1. /\ pc' = "seeds" /\ runRow' = "running"
        /\ UNCHANGED <<rec, seedRec, rel, dropped>>
        /\ \A m \in Models : status'[m] = "pending" /\ task'[m] = "none"
        /\ \A s \in Seeds : /\ seedStatus'[s] = "pending"
                            /\ seedRec[s] = "passed" => seedPlan'[s] = "skip"
    BY <1>3 DEF Resume, Forget
  <2>2. \A m \in Models : rec[m] = "passed" /\ plan'[m] # "skip" => m \in dropped
    BY <1>3 DEF Resume, Replanned, KInv, PassedIsBuilt
  <2>3. RecordInv' /\ PassedIsBuilt'
    BY <2>1, <2>2 DEF KInv, RecordInv, TaskOnRecord, BuildIsDue, PassedIsBuilt,
       GoodOnRecord, VerdictLast, SeedRecord, Satisfied
  <2> QED
    BY <1>3, <2>1, <2>3, FreshKept DEF Rest, Resume
<1>4. CASE \E m \in Models : OrphanLands(m)
  BY <1>4, TaskKept
<1>5. CASE \E m \in Models : DropRelation(m)
  <2> PICK m \in Models : DropRelation(m)
    BY <1>5
  <2>1. /\ UNCHANGED <<sched, planVars, seedStatus, status, remaining, ready, task,
                       runRow, rec, seedRec>>
        /\ pc \in {"over", "down"} /\ rel' = [rel EXCEPT ![m] = "absent"]
        /\ dropped' = dropped \cup {m}
    BY DEF DropRelation, Resumable
  <2>2. \A c \in Models : Waits(c)' = Waits(c) /\ ReadsFailedSeed(c)' = ReadsFailedSeed(c)
    BY <2>1 DEF Waits, ReadsFailedSeed, FailedSeeds
  <2>3. Inflight' = Inflight /\ Stopped' = Stopped
    BY <2>1 DEF Inflight, Stopped
  <2>4. \A c \in Models : task[c] = "none"
    BY <2>1 DEF KInv, IInv, Guarded, TasksOnlyInLoop, TaskPhases, Looping
  <2>5. RecordInv' /\ PassedIsBuilt'
    BY <2>1, <2>4 DEF KInv, IInv, TypeOK, RecordInv, TaskOnRecord, BuildIsDue,
       PassedIsBuilt, GoodOnRecord, VerdictLast, SeedRecord, Active
  <2>6. CauseInv'
    BY <2>1, <2>2, <2>3 DEF KInv, CauseInv, EarlyStatus, LateStatus, ExecutedHadInputs,
       BlockedHasCause, BrokenInputPropagates
  <2>7. QueueInv'
    BY <2>1 DEF QueueInv, QueueIsFull, RunningHasTask, DrainIsDone, Looping
  <2> QED
    BY <2>5, <2>6, <2>7 DEF Rest
<1> QED
  BY <1>1, <1>2, <1>3, <1>4, <1>5 DEF World

LEMMA KInvStep == KInv /\ [Next]_vars => KInv'
<1> SUFFICES ASSUME KInv, [Next]_vars PROVE Rest'
  BY IInvStep DEF KInv, Rest
<1> USE DEF sched, planVars, work, durable, physical, bounds
<1>1. CASE Scheduler
  <2>1. CASE \E s \in Seeds : CancelSeed(s) \/ SkipSeed(s) \/ StartSeed(s)
    BY <2>1, SeedsKept
  <2>2. CASE \E m \in Models : \/ Reuse(m) \/ SkipModel(m)
                              \/ AdoptCached(m) \/ RefuseCached(m)
    BY <2>2, SpareKept
  <2>3. CASE \E m \in Models : BlockReader(m) \/ JoinFailed(m) \/ DrainFailed(m)
    BY <2>3, BreakKept
  <2>4. CASE \E m \in Models : JoinPassed(m) \/ DrainPassed(m)
    BY <2>4, CompleteKept
  <2>5. CASE \E m \in Models, survives \in BOOLEAN : DrainAbort(m, survives)
    BY <2>5, TaskKept
  <2>6. CASE \E m \in Models : Dispatch(m) \/ Classify(m)
    BY <2>6, DispatchKept, ClassifyKept
  <2>7. CASE \/ \E t \in Tests : SkipTest(t) \/ StartTest(t)
             \/ \E m \in Models : Record(m)
    BY <2>7, BystanderKept DEF SkipTest, StartTest, Record
  <2>8. CASE \/ SeedsDone \/ PrepDone \/ BlockDone \/ LoopTop \/ DispatchDone
             \/ SelectCancel \/ DrainDone \/ TestsDone \/ FinishRun
    BY <2>8, ControlKept
  <2> QED
    BY <1>1, <2>1, <2>2, <2>3, <2>4, <2>5, <2>6, <2>7, <2>8 DEF Scheduler
<1>2. CASE Task
  <2>1. CASE \E s \in Seeds : AnswerSeed(s)
    BY <2>1, SeedsKept DEF AnswerSeed
  <2>2. CASE \E t \in Tests : AnswerTest(t)
    BY <2>2, BystanderKept DEF AnswerTest, EndTest
  <2>3. CASE \E m \in Models : AnswerModel(m) \/ Retry(m)
    BY <2>3, TaskKept DEF AnswerModel
  <2> QED
    BY <1>2, <2>1, <2>2, <2>3 DEF Task
<1>3. CASE World
  BY <1>3, WorldKept
<1>4. CASE UNCHANGED vars
  BY <1>4, BystanderKept DEF vars
<1> QED
  BY <1>1, <1>2, <1>3, <1>4 DEF Next

\* What the records, the outcomes and the queue say of each other holds in
\* every state of every run id, however it is killed and resumed (execute).
THEOREM KInvHolds == Spec => []KInv
<1> QED
  BY KInvInit, KInvStep, PTL DEF Spec

-----------------------------------------------------------------------------
(***************************************************************************)
(* Properties that follow from it.                                         *)
(***************************************************************************)
\* A model is blocked only below something that failed, for any graph: the
\* counts and the ready queue of Runner::execute lose no model.
THEOREM BlockedHasCauseHolds == Spec => []BlockedHasCause
<1>1. KInv => BlockedHasCause
  BY DEF KInv, CauseInv
<1> QED
  BY <1>1, KInvHolds, PTL

\* Whatever reads something that failed is blocked, however long the chain
\* and whenever the driver is stopped (block_dependents).
THEOREM BrokenInputPropagatesHolds == Spec => []BrokenInputPropagates
<1>1. KInv => BrokenInputPropagates
  BY DEF KInv, CauseInv
<1> QED
  BY <1>1, KInvHolds, PTL

\* A record of a model that passed is true, whatever is killed, aborted or
\* resumed (persist_model, the drain, resume_plan).
THEOREM PassedIsBuiltHolds == Spec => []PassedIsBuilt
<1>1. KInv => PassedIsBuilt
  BY DEF KInv
<1> QED
  BY <1>1, KInvHolds, PTL

LEMMA WholeStep == KInv /\ PassedRunIsWhole /\ [Next]_vars => PassedRunIsWhole'
<1> SUFFICES ASSUME KInv, PassedRunIsWhole, [Next]_vars, runRow' = "passed"
             PROVE  /\ \A m \in Models : rec'[m] \in Satisfied /\ rel'[m] # "absent"
                    /\ \A s \in Seeds : seedRec'[s] \in Satisfied
  BY DEF PassedRunIsWhole
<1> USE DEF sched, planVars, work, durable, physical, bounds
<1>1. CASE FinishRun
  <2>1. /\ \A m \in Models : status[m] \in Satisfied
        /\ \A s \in Seeds : seedStatus[s] \in Satisfied
    BY <1>1, WholeAtEnd DEF FinishRun, RunStatus, AnyFailed
  <2>2. pc = "record" /\ UNCHANGED <<rec, rel, seedRec>>
    BY <1>1 DEF FinishRun
  <2> QED
    BY <2>1, <2>2 DEF KInv, RecordInv, GoodOnRecord, IInv, Guarded, SatisfiedExists,
       Active, Phase
<1>2. CASE ~FinishRun
  <2>1. CASE runRow = "passed"
    <3>1. pc = "over" /\ ~Resumable /\ \A m \in Models : task[m] = "none"
      BY <2>1 DEF KInv, RecordInv, VerdictLast, Resumable, IInv, Guarded,
         TasksOnlyInLoop, TaskPhases, Looping
    <3>2. ~Scheduler
      BY <1>2, <3>1 DEF Scheduler, CancelSeed, SkipSeed, StartSeed, SeedsDone, Reuse,
         SkipModel, AdoptCached, RefuseCached, PrepDone, BlockReader, BlockDone,
         LoopTop, Dispatch, DispatchDone, SelectCancel, JoinPassed, JoinFailed,
         DrainPassed, DrainFailed, DrainAbort, Classify, DrainDone, SkipTest,
         StartTest, TestsDone, Record
    <3>3. ~Task
      BY <3>1 DEF Task, AnswerSeed, AnswerTest, AnswerModel, EndSeed, EndTest,
         AttemptOk, AttemptFail, Retry
    <3>4. ~Cancel /\ ~Kill /\ ~Resume /\ \A m \in Models : ~DropRelation(m)
      BY <3>1 DEF Cancel, Kill, Resume, DropRelation, Active
    <3>5. CASE \E m \in Models : OrphanLands(m)
      <4> PICK m \in Models : OrphanLands(m)
        BY <3>5
      <4> QED
        BY <2>1 DEF OrphanLands, PassedRunIsWhole, KInv, IInv, TypeOK
    <3>6. CASE UNCHANGED vars
      BY <2>1, <3>6 DEF vars, PassedRunIsWhole
    <3> QED
      BY <3>2, <3>3, <3>4, <3>5, <3>6 DEF Next, World
  <2>2. CASE runRow # "passed"
    <3>1. runRow' \in {runRow, "running"}
      BY <1>2 DEF Next, Scheduler, Task, World, vars, CancelSeed, SkipSeed, StartSeed,
         SeedsDone, Reuse,
         SkipModel, AdoptCached, RefuseCached, PrepDone, BlockReader, BlockDone,
         LoopTop, Dispatch, DispatchDone, SelectCancel, JoinPassed, JoinFailed,
         DrainPassed, DrainFailed, DrainAbort, Classify, DrainDone, SkipTest,
         StartTest, TestsDone, Record, AnswerSeed, AnswerTest, AnswerModel, EndSeed,
         EndTest, AttemptOk, AttemptFail, Retry, Cancel, Kill, Resume, OrphanLands,
         DropRelation
    <3> QED
      BY <2>2, <3>1
  <2> QED
    BY <2>1, <2>2
<1> QED
  BY <1>1, <1>2

\* A run on record as passed is whole (the verdict of Runner::execute).
THEOREM PassedRunIsWholeHolds == Spec => []PassedRunIsWhole
<1>1. Init => PassedRunIsWhole
  BY DEF Init, PassedRunIsWhole
<1> QED
  BY <1>1, WholeStep, KInvHolds, PTL DEF Spec

-----------------------------------------------------------------------------
(***************************************************************************)
(* The statements sent for a model.  An invocation sends no more than      *)
(* MaxAttempts, whatever it knows; as long as it knows of all that were    *)
(* sent before, what it counts is what was sent.                           *)
(***************************************************************************)
Before == MaxAttempts * (epoch - 1)
Sent(m) == IF task[m] = "exec" THEN tries[m] + 1 ELSE tries[m]

\* Nothing is counted that was not sent, and an invocation stays within its own
\* attempts: it sends the first whatever is on record, and another only while
\* those on record are fewer than MaxAttempts.
WithinReach ==
    \A m \in Models :
        /\ made[m] <= Before + MaxAttempts
        /\ recTries[m] <= made[m] /\ Sent(m) <= made[m]
        /\ pc # "down" =>
              /\ status[m] = "pending" => made[m] <= Before
              /\ task[m] # "none" => made[m] <= Before + Sent(m)
              /\ task[m] = "backoff" => tries[m] < MaxAttempts

\* What is counted is what was sent.
AllCounted ==
    \A m \in Models \ short :
        /\ made[m] <= Budget
        /\ pc # "down" /\ (status[m] = "pending" \/ task[m] # "none") => made[m] = Sent(m)
        /\ rec[m] \in {"passed", "failed"} \/ task[m] = "backoff" => recTries[m] = made[m]

LEMMA BeforeRange ==
    ASSUME TypeOK
    PROVE  /\ MaxAttempts \in Nat \ {0} /\ epoch \in Nat \ {0}
           /\ Before \in Nat /\ Budget \in Nat
           /\ Before + MaxAttempts = MaxAttempts * epoch
           /\ made \in [Models -> Nat] /\ tries \in [Models -> Nat]
           /\ recTries \in [Models -> Nat]
           /\ \A m \in Models : Sent(m) \in Nat
<1>1. MaxAttempts \in Nat \ {0} /\ epoch \in Nat \ {0}
  BY BoundAssumption DEF TypeOK
<1>2. \A x, y \in Nat \ {0} : x * (y - 1) \in Nat /\ x * (y - 1) + x = x * y
  OBVIOUS
<1>3. Before \in Nat /\ Before + MaxAttempts = MaxAttempts * epoch
  BY <1>1, <1>2 DEF Before
<1> QED
  BY <1>1, <1>3, BudgetRange DEF TypeOK, Sent

LEMMA CountsInit == Init => WithinReach /\ AllCounted
<1> SUFFICES ASSUME Init PROVE WithinReach /\ AllCounted
  OBVIOUS
<1>1. TypeOK
  BY TypeInit
<1> QED
  BY <1>1, BeforeRange, BudgetRange
  DEF Init, WithinReach, AllCounted, Sent, NoTries, Before, Budget

\* A step that sends nothing, answers nothing and ends no invocation, and
\* either leaves a record or writes all that was counted or none.
LEMMA CountsKept ==
    ASSUME KInv, KInv', WithinReach, AllCounted,
           pc # "down", pc' # "down", UNCHANGED <<epoch, tries, made, short>>,
           \A m \in Models :
              /\ task'[m] = task[m] \/ task'[m] = "none"
              /\ status'[m] = "pending" => status[m] = "pending"
              /\ \/ rec'[m] = rec[m] /\ recTries'[m] = recTries[m]
                 \/ rec'[m] \notin {"passed", "failed"} /\ recTries'[m] = 0 /\ rec'[m] # "running"
                 \/ task[m] \in {"ok", "err"} /\ recTries'[m] = tries[m] /\ task'[m] = "none"
    PROVE  WithinReach' /\ AllCounted'
<1>1. TypeOK /\ TypeOK'
  BY DEF KInv, IInv
<1>2. Before' = Before /\ Budget' = Budget
  BY DEF Before, Budget
<1>3. ASSUME NEW m \in Models
      PROVE  /\ made'[m] = made[m] /\ tries'[m] = tries[m]
             /\ Sent(m)' = Sent(m) \/ (task'[m] = "none" /\ Sent(m)' <= Sent(m))
             /\ recTries'[m] \in {recTries[m], tries[m], 0}
  BY <1>1, BeforeRange DEF Sent
<1>4. WithinReach'
  <2> SUFFICES ASSUME NEW m \in Models
               PROVE  /\ made'[m] <= Before' + MaxAttempts
                      /\ recTries'[m] <= made'[m] /\ Sent(m)' <= made'[m]
                      /\ status'[m] = "pending" => made'[m] <= Before'
                      /\ task'[m] # "none" => made'[m] <= Before' + Sent(m)'
                      /\ task'[m] = "backoff" => tries'[m] < MaxAttempts
    BY DEF WithinReach
  <2>1. tries[m] <= Sent(m)
    BY <1>1, BeforeRange DEF Sent
  <2>2. made'[m] <= Before' + MaxAttempts
    BY <1>2, <1>3 DEF WithinReach
  <2>3. recTries'[m] <= made'[m] /\ Sent(m)' <= made'[m]
    <3>1. /\ made[m] \in Nat /\ tries[m] \in Nat /\ recTries[m] \in Nat /\ Sent(m) \in Nat
          /\ recTries[m] <= made[m] /\ Sent(m) <= made[m]
      BY <1>1, BeforeRange DEF WithinReach
    <3>2. tries[m] <= made[m]
      BY <2>1, <3>1
    <3>3. Sent(m)' <= Sent(m) /\ Sent(m)' \in Nat
      <4>1. Sent(m)' = Sent(m) \/ Sent(m)' <= Sent(m)
        BY <1>3
      <4>2. tries'[m] \in Nat
        BY <1>3, <3>1
      <4> QED
        BY <3>1, <4>1, <4>2 DEF Sent
    <3>4. made'[m] = made[m] /\ recTries'[m] \in {recTries[m], tries[m], 0}
      BY <1>3
    <3> QED
      BY <3>1, <3>2, <3>3, <3>4
  <2>4. status'[m] = "pending" => made'[m] <= Before'
    BY <1>2, <1>3 DEF WithinReach
  <2>5. task'[m] # "none" => task'[m] = task[m] /\ Sent(m)' = Sent(m)
    BY <1>3 DEF Sent
  <2> QED
    BY <1>2, <1>3, <2>2, <2>3, <2>4, <2>5 DEF WithinReach
<1>5. AllCounted'
  <2> SUFFICES ASSUME NEW m \in Models \ short
               PROVE  /\ made'[m] <= Budget'
                      /\ status'[m] = "pending" \/ task'[m] # "none" => made'[m] = Sent(m)'
                      /\ rec'[m] \in {"passed", "failed"} \/ task'[m] = "backoff" =>
                            recTries'[m] = made'[m]
    BY DEF AllCounted
  <2>1. made'[m] <= Budget'
    BY <1>2, <1>3 DEF AllCounted
  <2>2. CASE task'[m] # "none"
    <3>1. task'[m] = task[m] /\ Sent(m)' = Sent(m)
      BY <2>2 DEF Sent
    <3>2. rec'[m] = "running"
      BY <2>2 DEF KInv, RecordInv, TaskOnRecord
    <3>3. recTries'[m] = recTries[m]
      BY <2>2, <3>1, <3>2
    <3> QED
      BY <1>3, <2>1, <2>2, <3>1, <3>2, <3>3 DEF AllCounted
  <2>3. CASE task'[m] = "none"
    <3>1. ASSUME status'[m] = "pending" PROVE made'[m] = Sent(m)'
      <4>1. status[m] = "pending"
        BY <3>1
      <4>2. task[m] = "none"
        BY <4>1 DEF KInv, IInv, Guarded, LiveIsRunning, TypeOK
      <4>3. made[m] = Sent(m)
        BY <4>1 DEF AllCounted
      <4> QED
        BY <1>3, <2>3, <4>2, <4>3 DEF Sent
    <3>2. ASSUME rec'[m] \in {"passed", "failed"} PROVE recTries'[m] = made'[m]
      <4>1. CASE rec'[m] = rec[m] /\ recTries'[m] = recTries[m]
        BY <1>3, <3>2, <4>1 DEF AllCounted
      <4>2. CASE task[m] \in {"ok", "err"} /\ recTries'[m] = tries[m]
        BY <1>3, <4>2 DEF AllCounted, Sent
      <4> QED
        BY <3>2, <4>1, <4>2
    <3> QED
      BY <2>1, <2>3, <3>1, <3>2
  <2> QED
    BY <2>2, <2>3
<1> QED
  BY <1>4, <1>5

\* The driver records a model, or ends it.
LEMMA CountsRecorded ==
    ASSUME KInv, KInv', WithinReach, AllCounted, NEW m \in Models,
           \/ SkipModel(m) \/ AdoptCached(m) \/ BlockReader(m) \/ Reuse(m)
           \/ JoinPassed(m) \/ JoinFailed(m) \/ DrainPassed(m) \/ DrainFailed(m)
           \/ Classify(m)
    PROVE  WithinReach' /\ AllCounted'
<1> TypeOK
  BY DEF KInv, IInv
<1>1. pc # "down" /\ pc' # "down" /\ UNCHANGED <<epoch, tries, made, short>>
  BY DEF SkipModel, AdoptCached, BlockReader, Reuse, JoinPassed, JoinFailed, DrainPassed,
     DrainFailed, Classify, bounds, work, sched, history
<1>2. \A c \in Models : status'[c] = "pending" => status[c] = "pending"
  BY EndedStarts DEF SkipModel, AdoptCached, BlockReader, Reuse, JoinPassed, JoinFailed,
     DrainPassed, DrainFailed, Classify, Status
<1>3. \A c \in Models : task'[c] = task[c] \/ task'[c] = "none"
  BY DEF SkipModel, AdoptCached, BlockReader, Reuse, JoinPassed, JoinFailed, DrainPassed,
     DrainFailed, Classify, TypeOK, work
<1>4. ASSUME NEW c \in Models
      PROVE  \/ rec'[c] = rec[c] /\ recTries'[c] = recTries[c]
             \/ rec'[c] \notin {"passed", "failed"} /\ recTries'[c] = 0 /\ rec'[c] # "running"
             \/ task[c] \in {"ok", "err"} /\ recTries'[c] = tries[c] /\ task'[c] = "none"
  <2>1. CASE Reuse(m)
    BY <2>1 DEF Reuse, durable
  <2>2. CASE SkipModel(m) \/ AdoptCached(m) \/ Classify(m)
    BY <2>2 DEF SkipModel, AdoptCached, Classify, Persist, NoTries, Ended, TypeOK
  <2>3. CASE BlockReader(m)
    BY <2>3 DEF BlockReader, Persist, NoTries, EndedBlocking
  <2>4. CASE JoinPassed(m) \/ DrainPassed(m)
    BY <2>4 DEF JoinPassed, DrainPassed, Persist, TypeOK
  <2>5. CASE JoinFailed(m) \/ DrainFailed(m)
    BY <2>5 DEF JoinFailed, DrainFailed, Persist, OnlyTries, EndedBlocking, TypeOK
  <2> QED
    BY <2>1, <2>2, <2>3, <2>4, <2>5
<1> QED
  BY <1>1, <1>2, <1>3, <1>4, CountsKept

\* A statement is sent: the first one, or one that the retry policy allows.
LEMMA CountsSent ==
    ASSUME KInv, KInv', WithinBudget, WithinReach, AllCounted, NEW m \in Models,
           Dispatch(m) \/ Retry(m)
    PROVE  WithinReach' /\ AllCounted'
<1>1. TypeOK /\ TypeOK'
  BY DEF KInv, IInv
<1>2. /\ Before' = Before /\ Budget' = Budget
      /\ made' = [made EXCEPT ![m] = made[m] + 1] /\ tries' = tries /\ short' = short
      /\ task' = [task EXCEPT ![m] = "exec"]
      /\ pc' = pc
  BY DEF Dispatch, Retry, Before, Budget, bounds, sched
<1>3. Dispatch(m) => status[m] = "pending" /\ task[m] = "none" /\ pc # "down"
  BY DEF Dispatch, KInv, IInv, Guarded, ReadyIsGood, Looping, LiveIsRunning, TypeOK
<1>4. Retry(m) => task[m] = "backoff" /\ pc # "down" /\ status'[m] = status[m]
  BY DEF Retry, KInv, IInv, Guarded, TasksOnlyInLoop, TaskPhases, Looping
<1>5. /\ Sent(m) = tries[m] /\ Sent(m)' = tries[m] + 1
      /\ \A c \in Models \ {m} : Sent(c)' = Sent(c)
  BY <1>1, <1>2, <1>3, <1>4 DEF Sent, TypeOK
<1>6. /\ made[m] < Before + MaxAttempts /\ made[m] <= Before + tries[m]
      /\ m \notin short => made[m] = tries[m]
  <2>1. CASE Dispatch(m)
    BY <1>1, <1>3, <1>5, <2>1, BeforeRange DEF WithinReach, AllCounted
  <2>2. CASE Retry(m)
    BY <1>1, <1>4, <1>5, <2>2, BeforeRange DEF WithinReach, AllCounted
  <2> QED
    BY <2>1, <2>2
<1>7. tries[m] < Budget
  BY <1>3, <1>4 DEF WithinBudget, MayStart
<1>8. status'[m] # "pending" /\ rec'[m] = "running" /\ task'[m] = "exec"
  BY <1>1, <1>2 DEF KInv, IInv, Guarded, LiveIsRunning, RecordInv, TaskOnRecord, TypeOK
<1>9. \A c \in Models \ {m} : /\ made'[c] = made[c] /\ task'[c] = task[c]
                              /\ status'[c] = status[c] /\ rec'[c] = rec[c]
                              /\ recTries'[c] = recTries[c]
  BY <1>1, <1>2 DEF Dispatch, Retry, Persist, Ended, TypeOK, durable
<1>10. made'[m] = made[m] + 1 /\ recTries'[m] \in {recTries[m], 0}
  BY <1>1, <1>2 DEF Dispatch, Retry, Persist, NoTries, TypeOK, durable
<1>11. WithinReach'
  <2> SUFFICES ASSUME NEW c \in Models
               PROVE  /\ made'[c] <= Before' + MaxAttempts
                      /\ recTries'[c] <= made'[c] /\ Sent(c)' <= made'[c]
                      /\ pc' # "down" =>
                            /\ status'[c] = "pending" => made'[c] <= Before'
                            /\ task'[c] # "none" => made'[c] <= Before' + Sent(c)'
                            /\ task'[c] = "backoff" => tries'[c] < MaxAttempts
    BY DEF WithinReach
  <2>1. CASE c = m
    BY <1>1, <1>2, <1>5, <1>6, <1>8, <1>10, <2>1, BeforeRange DEF WithinReach
  <2>2. CASE c # m
    BY <1>2, <1>5, <1>9, <2>2 DEF WithinReach
  <2> QED
    BY <2>1, <2>2
<1>12. AllCounted'
  <2> SUFFICES ASSUME NEW c \in Models \ short
               PROVE  /\ made'[c] <= Budget'
                      /\ pc' # "down" /\ (status'[c] = "pending" \/ task'[c] # "none") =>
                            made'[c] = Sent(c)'
                      /\ rec'[c] \in {"passed", "failed"} \/ task'[c] = "backoff" =>
                            recTries'[c] = made'[c]
    BY <1>2 DEF AllCounted
  <2>1. CASE c = m
    BY <1>1, <1>2, <1>5, <1>6, <1>7, <1>8, <1>10, <2>1, BeforeRange
  <2>2. CASE c # m
    BY <1>2, <1>5, <1>9, <2>2 DEF AllCounted
  <2> QED
    BY <2>1, <2>2
<1> QED
  BY <1>11, <1>12

\* A statement is answered: it is counted.
LEMMA CountsAnswered ==
    ASSUME KInv, KInv', WithinReach, AllCounted, NEW m \in Models,
           NEW retryable \in BOOLEAN, NEW effect \in {rel[m], "absent"},
           AttemptOk(m) \/ AttemptFail(m, retryable, effect)
    PROVE  WithinReach' /\ AllCounted'
<1>1. TypeOK /\ TypeOK'
  BY DEF KInv, IInv
<1>2. /\ Before' = Before /\ Budget' = Budget
      /\ UNCHANGED <<pc, made, short, status>> /\ task[m] = "exec"
      /\ tries' = [tries EXCEPT ![m] = tries[m] + 1]
  BY DEF AttemptOk, AttemptFail, Before, Budget, bounds, sched, history
<1>3. /\ task'[m] \in {"ok", "err", "backoff"}
      /\ \A c \in Models \ {m} : task'[c] = task[c] /\ tries'[c] = tries[c]
  BY <1>1, <1>2 DEF AttemptOk, AttemptFail, TypeOK
<1>4. tries'[m] = tries[m] + 1
  BY <1>1, <1>2, BeforeRange
<1>5. \A c \in Models : Sent(c)' = Sent(c)
  BY <1>2, <1>3, <1>4 DEF Sent
<1>6. task'[m] = "backoff" => tries'[m] < MaxAttempts /\ recTries'[m] = tries'[m]
  BY <1>1, <1>2 DEF AttemptOk, AttemptFail, Persist, TypeOK
<1>7. recTries'[m] \in {recTries[m], tries'[m]}
  BY <1>1, <1>2 DEF AttemptOk, AttemptFail, Persist, TypeOK, durable
<1>8. \A c \in Models \ {m} : rec'[c] = rec[c] /\ recTries'[c] = recTries[c]
  BY <1>1 DEF AttemptOk, AttemptFail, Persist, TypeOK, durable
<1>9. rec'[m] = "running" /\ pc # "down" /\ status[m] # "pending"
  BY <1>2, <1>3 DEF KInv, IInv, Guarded, TasksOnlyInLoop, TaskPhases, Looping, LiveIsRunning,
     RecordInv, TaskOnRecord
<1>10. Sent(m) = tries'[m] /\ Sent(m) <= made[m] /\ (m \notin short => made[m] = Sent(m))
  BY <1>2, <1>4, <1>9 DEF Sent, WithinReach, AllCounted
<1>11. WithinReach'
  <2> SUFFICES ASSUME NEW c \in Models
               PROVE  /\ made'[c] <= Before' + MaxAttempts
                      /\ recTries'[c] <= made'[c] /\ Sent(c)' <= made'[c]
                      /\ pc' # "down" =>
                            /\ status'[c] = "pending" => made'[c] <= Before'
                            /\ task'[c] # "none" => made'[c] <= Before' + Sent(c)'
                            /\ task'[c] = "backoff" => tries'[c] < MaxAttempts
    BY DEF WithinReach
  <2>1. CASE c = m
    BY <1>2, <1>5, <1>6, <1>7, <1>9, <1>10, <2>1 DEF WithinReach
  <2>2. CASE c # m
    BY <1>2, <1>3, <1>5, <1>8, <2>2 DEF WithinReach
  <2> QED
    BY <2>1, <2>2
<1>12. AllCounted'
  <2> SUFFICES ASSUME NEW c \in Models \ short
               PROVE  /\ made'[c] <= Budget'
                      /\ pc' # "down" /\ (status'[c] = "pending" \/ task'[c] # "none") =>
                            made'[c] = Sent(c)'
                      /\ rec'[c] \in {"passed", "failed"} \/ task'[c] = "backoff" =>
                            recTries'[c] = made'[c]
    BY <1>2 DEF AllCounted
  <2>1. CASE c = m
    BY <1>2, <1>5, <1>6, <1>9, <1>10, <2>1 DEF AllCounted
  <2>2. CASE c # m
    BY <1>2, <1>3, <1>5, <1>8, <2>2 DEF AllCounted
  <2> QED
    BY <2>1, <2>2
<1> QED
  BY <1>11, <1>12

\* An invocation dies, or another one begins with what is on record.
LEMMA CountsWorld ==
    ASSUME KInv, KInv', WithinReach, AllCounted, Kill \/ Resume
    PROVE  WithinReach' /\ AllCounted'
<1>1. TypeOK /\ TypeOK'
  BY DEF KInv, IInv
<1>2. made' = made /\ rec' = rec /\ recTries' = recTries
  BY DEF Kill, Resume, durable, history
<1>3. \A m \in Models : task'[m] = "none" /\ status'[m] = "pending" /\ Sent(m)' = tries'[m]
  BY DEF Kill, Resume, Forget, Sent
<1>4. CASE Kill
  <2>1. /\ pc' = "down" /\ Before' = Before /\ Budget' = Budget /\ short' = short
        /\ \A m \in Models : tries'[m] = 0
    BY <1>4 DEF Kill, Before, Budget, bounds, NoTries, history
  <2>2. \A m \in Models : 0 <= made[m]
    BY <1>1, BeforeRange
  <2>3. WithinReach'
    BY <1>2, <1>3, <2>1, <2>2 DEF WithinReach
  <2>4. AllCounted'
    BY <1>2, <1>3, <2>1 DEF AllCounted
  <2> QED
    BY <2>3, <2>4
<1>5. CASE Resume
  <2>1. /\ tries' = recTries /\ epoch' = epoch + 1
        /\ short' = short \cup {m \in Models : recTries[m] < made[m]}
    BY <1>5 DEF Resume
  <2>2. Before' = Before + MaxAttempts /\ Budget' = Budget + 1
    <3>1. \A x, y \in Nat \ {0} : x * ((y + 1) - 1) = x * (y - 1) + x
      OBVIOUS
    <3> QED
      BY <1>1, <2>1, <3>1, BeforeRange DEF Before, Budget
  <2>3. WithinReach'
    <3> SUFFICES ASSUME NEW m \in Models
                 PROVE  /\ made'[m] <= Before' + MaxAttempts
                        /\ recTries'[m] <= made'[m] /\ Sent(m)' <= made'[m]
                        /\ made'[m] <= Before'
                        /\ task'[m] = "none"
      BY DEF WithinReach
    <3> QED
      BY <1>1, <1>2, <1>3, <2>1, <2>2, BeforeRange DEF WithinReach
  <2>4. AllCounted'
    <3> SUFFICES ASSUME NEW m \in Models \ short'
                 PROVE  made'[m] <= Budget' /\ made'[m] = Sent(m)' /\ recTries'[m] = made'[m]
      BY DEF AllCounted
    <3>1. recTries[m] <= made[m] /\ ~(recTries[m] < made[m]) /\ m \notin short
      BY <2>1 DEF WithinReach
    <3>2. recTries[m] = made[m] /\ made[m] <= Budget
      <4>1. recTries[m] \in Nat /\ made[m] \in Nat
        BY <1>1, BeforeRange
      <4>2. recTries[m] = made[m]
        BY <3>1, <4>1
      <4>3. m \in Models \ short
        BY <3>1
      <4> QED
        BY <4>2, <4>3 DEF AllCounted
    <3> QED
      BY <1>1, <1>2, <1>3, <2>1, <2>2, <3>2, BeforeRange
  <2> QED
    BY <2>3, <2>4
<1> QED
  BY <1>4, <1>5

\* The rest sends nothing, answers nothing and records no attempts.
LEMMA CountsElse ==
    ASSUME KInv, KInv', WithinReach, AllCounted,
           UNCHANGED <<status, rec, recTries, epoch, tries, made, short>>,
           pc = "down" <=> pc' = "down",
           \A m \in Models : task'[m] = task[m] \/ task'[m] = "none"
    PROVE  WithinReach' /\ AllCounted'
<1>1. CASE pc # "down"
  BY <1>1, CountsKept
<1>2. CASE pc = "down"
  <2>1. \A m \in Models : task[m] = "none" /\ task'[m] = "none"
    BY <1>2 DEF KInv, IInv, Guarded, TasksOnlyInLoop, TaskPhases, Looping
  <2>2. \A m \in Models : Sent(m)' = Sent(m)
    BY <2>1 DEF Sent
  <2>3. Before' = Before /\ Budget' = Budget
    BY DEF Before, Budget
  <2> QED
    BY <1>2, <2>1, <2>2, <2>3 DEF WithinReach, AllCounted
<1> QED
  BY <1>1, <1>2

LEMMA CountsStep ==
    KInv /\ KInv' /\ WithinBudget /\ WithinReach /\ AllCounted /\ [Next]_vars
        => WithinReach' /\ AllCounted'
<1> SUFFICES ASSUME KInv, KInv', WithinBudget, WithinReach, AllCounted, [Next]_vars
             PROVE  WithinReach' /\ AllCounted'
  OBVIOUS
<1> TypeOK
  BY DEF KInv, IInv
<1> USE DEF work, durable, bounds, history, sched
<1>1. CASE Scheduler
  <2>1. CASE \E s \in Seeds : CancelSeed(s) \/ SkipSeed(s) \/ StartSeed(s)
    BY <2>1, CountsElse DEF CancelSeed, SkipSeed, StartSeed
  <2>2. CASE \E m \in Models : \/ Reuse(m) \/ SkipModel(m) \/ AdoptCached(m)
                              \/ BlockReader(m) \/ Classify(m)
                              \/ JoinPassed(m) \/ JoinFailed(m)
                              \/ DrainPassed(m) \/ DrainFailed(m)
    BY <2>2, CountsRecorded
  <2>3. CASE \E m \in Models : Dispatch(m)
    BY <2>3, CountsSent
  <2>4. CASE \E m \in Models, survives \in BOOLEAN : DrainAbort(m, survives)
    <3>1. PICK m \in Models, survives \in BOOLEAN : DrainAbort(m, survives)
      BY <2>4
    <3>2. \A c \in Models : task'[c] = task[c] \/ task'[c] = "none"
      BY <3>1 DEF DrainAbort, TypeOK
    <3> QED
      BY <3>1, <3>2, CountsElse DEF DrainAbort
  <2>5. CASE \/ \E t \in Tests : SkipTest(t) \/ StartTest(t)
             \/ \E m \in Models : Record(m) \/ RefuseCached(m)
    BY <2>5, CountsElse DEF SkipTest, StartTest, Record, RefuseCached
  <2>6. CASE \/ SeedsDone \/ PrepDone \/ BlockDone \/ LoopTop \/ DispatchDone
             \/ SelectCancel \/ DrainDone \/ TestsDone \/ FinishRun
    BY <2>6, CountsElse DEF SeedsDone, PrepDone, BlockDone, LoopTop, DispatchDone,
       SelectCancel, DrainDone, TestsDone, FinishRun
  <2> QED
    BY <1>1, <2>1, <2>2, <2>3, <2>4, <2>5, <2>6 DEF Scheduler
<1>2. CASE Task
  <2>1. CASE \E s \in Seeds : AnswerSeed(s)
    BY <2>1, CountsElse DEF AnswerSeed, EndSeed
  <2>2. CASE \E t \in Tests : AnswerTest(t)
    BY <2>2, CountsElse DEF AnswerTest, EndTest
  <2>3. CASE \E m \in Models : AnswerModel(m)
    BY <2>3, CountsAnswered DEF AnswerModel
  <2>4. CASE \E m \in Models : Retry(m)
    BY <2>4, CountsSent
  <2> QED
    BY <1>2, <2>1, <2>2, <2>3, <2>4 DEF Task
<1>3. CASE World
  <2>1. CASE Kill \/ Resume
    BY <2>1, CountsWorld
  <2>2. CASE Cancel \/ \E m \in Models : OrphanLands(m) \/ DropRelation(m)
    BY <2>2, CountsElse DEF Cancel, OrphanLands, DropRelation
  <2> QED
    BY <1>3, <2>1, <2>2 DEF World
<1>4. CASE UNCHANGED vars
  BY <1>4, CountsElse DEF vars
<1> QED
  BY <1>1, <1>2, <1>3, <1>4 DEF Next

LEMMA CountsSuffice == KInv /\ WithinReach /\ AllCounted => RetryBudget
<1> SUFFICES ASSUME KInv, WithinReach, AllCounted PROVE RetryBudget
  OBVIOUS
<1> TypeOK
  BY DEF KInv, IInv
<1> QED
  BY BeforeRange DEF WithinReach, AllCounted, RetryBudget, Budget

\* No invocation sends more statements for a model than it has attempts, and as
\* long as each began with all of them on record, a run sends no more than that
\* and one for each resumption, and keeps them on record where a model ended
\* or waits, for any number of attempts and resumptions, wherever it is killed.
THEOREM RetryBudgetHolds == Spec => []RetryBudget
<1> QED
  BY CountsInit, CountsStep, CountsSuffice, BudgetHolds, KInvHolds, PTL DEF Spec

-----------------------------------------------------------------------------
(***************************************************************************)
(* The refinement: every step of the driver is one of the contract's, or   *)
(* none of its business.                                                   *)
(***************************************************************************)
Kept == {m \in Models : rec[m] = "passed"}

LEMMA OutcomeValues ==
    /\ OutcomeOf("pending") = "waiting" /\ OutcomeOf("running") = "working"
    /\ OutcomeOf("failed") = "failed" /\ OutcomeOf("blocked") = "blocked"
    /\ OutcomeOf("cancelled") = "cancelled"
    /\ \A s \in Satisfied : OutcomeOf(s) = "good"
  BY DEF OutcomeOf, Satisfied

\* The outcomes of the units, read off the driver's two maps.
LEMMA OutcomeMap ==
    ASSUME TypeOK
    PROVE  /\ \A m \in Models : m \in Units /\ UnitOutcome[m] = OutcomeOf(status[m])
           /\ \A s \in Seeds : s \in Units /\ UnitOutcome[s] = OutcomeOf(seedStatus[s])
           /\ \A m \in Models : /\ UnitOutcome[m] = "waiting" <=> status[m] = "pending"
                                /\ UnitOutcome[m] = "working" <=> status[m] = "running"
                                /\ UnitOutcome[m] = "good" <=> status[m] \in Satisfied
                                /\ UnitOutcome[m] \in {"failed", "blocked"} <=>
                                      status[m] \in {"failed", "blocked"}
           /\ \A s \in Seeds : /\ UnitOutcome[s] = "waiting" <=> seedStatus[s] = "pending"
                               /\ UnitOutcome[s] = "working" <=> seedStatus[s] = "running"
                               /\ UnitOutcome[s] = "good" <=> seedStatus[s] \in Satisfied
                               /\ UnitOutcome[s] \in {"failed", "blocked"} <=>
                                      seedStatus[s] \in {"failed", "blocked"}
<1>1. \A m \in Models : m \in Units /\ UnitOutcome[m] = OutcomeOf(status[m])
  BY DEF Units, UnitOutcome
<1>2. \A s \in Seeds : s \in Units /\ UnitOutcome[s] = OutcomeOf(seedStatus[s])
  BY DisjointAssumption DEF Units, UnitOutcome
<1>3. \A s \in Status : /\ OutcomeOf(s) = "waiting" <=> s = "pending"
                        /\ OutcomeOf(s) = "working" <=> s = "running"
                        /\ OutcomeOf(s) = "good" <=> s \in Satisfied
                        /\ OutcomeOf(s) \in {"failed", "blocked"} <=> s \in {"failed", "blocked"}
  BY DEF OutcomeOf, Status, Satisfied
<1> QED
  BY <1>1, <1>2, <1>3 DEF TypeOK

LEMMA ModelOutcome ==
    ASSUME TypeOK, NEW m \in Models, NEW st, status' = Ended(m, st),
           seedStatus' = seedStatus
    PROVE  UnitOutcome' = [UnitOutcome EXCEPT ![m] = OutcomeOf(st)]
  BY DEF UnitOutcome, Ended, TypeOK, Units

SeedEnded(s, st) == [seedStatus EXCEPT ![s] = st]

LEMMA SeedOutcome ==
    ASSUME TypeOK, NEW s \in Seeds, NEW st,
           seedStatus' = SeedEnded(s, st), status' = status
    PROVE  UnitOutcome' = [UnitOutcome EXCEPT ![s] = OutcomeOf(st)]
  BY DisjointAssumption DEF UnitOutcome, TypeOK, Units, SeedEnded

\* The units a good model reads are good in the contract's sense, too.
LEMMA NeedsOf ==
    /\ \A m \in Models : Needs[m] = Deps[m] \cup Reads[m] /\ Needs[m] \subseteq Units
    /\ \A s \in Seeds : Needs[s] = {}
  BY DepsFinite, GraphAssumption, DisjointAssumption DEF Needs, Units

LEMMA ContractInit == Init => Contract!Init
<1> SUFFICES ASSUME Init PROVE Contract!Init
  OBVIOUS
<1>1. (pc \in Active) = TRUE /\ Stopped = FALSE
  BY DEF Init, Active, Phase, Stopped
<1>2. UnitOutcome = [u \in Units |-> "waiting"]
  BY OutcomeValues DEF Init, UnitOutcome, Units
<1>3. Kept = {}
  BY DEF Init, Kept
<1>4. Existing \in SUBSET Units
  BY DEF Existing, Units
<1> QED
  BY <1>1, <1>2, <1>3, <1>4 DEF Init, Contract!Init, Contract!AllWait, Kept

\* What the contract does not speak of.
LEMMA ContractStutter ==
    ASSUME (pc' \in Active) = (pc \in Active), Stopped' = Stopped,
           UNCHANGED <<runRow, status, seedStatus, rec, rel, seedRec, seedPlan, dropped>>
    PROVE  UNCHANGED Contract!vars
<1>1. UnitOutcome' = UnitOutcome
  BY DEF UnitOutcome
<1>2. Existing' = Existing /\ Kept' = Kept
  BY DEF Existing, Kept
<1> QED
  BY <1>1, <1>2 DEF Contract!vars, Kept

LEMMA SeedsContract ==
    ASSUME KInv, NEW x \in Seeds, NEW end \in {"passed", "failed"},
           CancelSeed(x) \/ SkipSeed(x) \/ StartSeed(x) \/ EndSeed(x, end)
    PROVE  Contract!Next
<1> USE DEF sched, planVars, work, durable, physical, bounds
<1>1. pc = "seeds" /\ pc' = "seeds" /\ (pc \in Active) /\ (pc' \in Active)
  BY DEF CancelSeed, SkipSeed, StartSeed, EndSeed, Active, Phase
<1>2. UNCHANGED <<seedPlan, status, rel, rec, runRow, dropped>> /\ Kept' = Kept
  BY DEF CancelSeed, SkipSeed, StartSeed, EndSeed, Kept
<1>3. TypeOK
  BY DEF KInv, IInv
<1>4. x \in Units /\ x \notin Models /\ Needs[x] = {}
  BY NeedsOf, DisjointAssumption DEF Units
<1>5. CASE CancelSeed(x)
  <2>1. UnitOutcome' = [UnitOutcome EXCEPT ![x] = "cancelled"]
    <3>1. seedStatus' = SeedEnded(x, "cancelled")
      BY <1>5 DEF SeedEnded, CancelSeed
    <3> QED
      BY <1>2, <1>3, <3>1, SeedOutcome, OutcomeValues DEF Satisfied
  <2>2. UnitOutcome[x] = "waiting" /\ Stopped /\ Stopped' = Stopped
    BY <1>3, <1>5, OutcomeMap DEF CancelSeed, Stopped
  <2>3. seedRec[x] = "passed" => seedPlan[x] = "skip"
    BY <1>5 DEF CancelSeed, KInv, RecordInv, SeedRecord
  <2>4. Existing' = Existing
    BY <1>2, <1>3, <1>5, <2>3 DEF CancelSeed, Existing, TypeOK
  <2>5. Contract!GiveUp(x)
    BY <1>1, <1>2, <1>4, <2>1, <2>2, <2>4
    DEF Contract!GiveUp, Contract!Waiting, Contract!Working, Contract!Broken,
        Contract!KeepsRecords, Kept
  <2> QED
    BY <1>4, <2>5 DEF Contract!Next
<1>6. CASE SkipSeed(x)
  <2>1. PICK st \in {"cached", "skipped"} :
          /\ seedStatus' = [seedStatus EXCEPT ![x] = st]
          /\ seedRec' = seedRec \/ seedRec' = [seedRec EXCEPT ![x] = "skipped"]
    BY <1>6 DEF SkipSeed
  <2>2. UnitOutcome' = [UnitOutcome EXCEPT ![x] = "good"]
    <3>1. seedStatus' = SeedEnded(x, st)
      BY <2>1 DEF SeedEnded
    <3> QED
      BY <1>2, <1>3, <3>1, SeedOutcome, OutcomeValues DEF Satisfied
  <2>3. /\ UnitOutcome[x] = "waiting" /\ Stopped' = Stopped
        /\ seedPlan[x] = "skip" /\ seedStatus[x] = "pending"
    BY <1>3, <1>6, OutcomeMap DEF SkipSeed, Stopped
  <2>4. Existing' = Existing /\ x \in Existing
    BY <1>2, <1>3, <2>1, <2>3 DEF Existing, TypeOK
  <2>5. Contract!Spare(x)
    BY <1>1, <1>2, <2>2, <2>3, <2>4
    DEF Contract!Spare, Contract!KeepsRecords, Kept
  <2> QED
    BY <1>4, <2>5 DEF Contract!Next
<1>7. CASE StartSeed(x)
  <2>1. UnitOutcome' = [UnitOutcome EXCEPT ![x] = "working"]
    <3>1. seedStatus' = SeedEnded(x, "running")
      BY <1>7 DEF SeedEnded, StartSeed
    <3> QED
      BY <1>2, <1>3, <3>1, SeedOutcome, OutcomeValues DEF Satisfied
  <2>2. /\ UnitOutcome[x] = "waiting" /\ ~Stopped /\ Stopped' = Stopped
    BY <1>3, <1>7, OutcomeMap DEF StartSeed, Stopped
  <2>3. Existing' = Existing
    BY <1>7 DEF StartSeed, Existing
  <2>4. Contract!Begin(x)
    BY <1>1, <1>2, <1>4, <2>1, <2>2, <2>3
    DEF Contract!Begin, Contract!KeepsRecords, Kept
  <2> QED
    BY <1>4, <2>4 DEF Contract!Next
<1>8. CASE EndSeed(x, end)
  <2>1. UnitOutcome[x] = "working" /\ (Stopped => Stopped')
    BY <1>3, <1>8, OutcomeMap DEF EndSeed, Stopped, TypeOK
  <2>2. seedPlan[x] = "build" /\ seedRec[x] # "passed"
    BY <1>1, <1>8 DEF EndSeed, KInv, RecordInv, SeedRecord
  <2>3. CASE end = "passed"
    <3>1. UnitOutcome' = [UnitOutcome EXCEPT ![x] = "good"]
      <4>1. seedStatus' = SeedEnded(x, "passed")
        BY <1>8, <2>3 DEF SeedEnded, EndSeed
      <4> QED
        BY <1>2, <1>3, <4>1, SeedOutcome, OutcomeValues DEF Satisfied
    <3>2. Existing' = Existing \cup {x}
      BY <1>2, <1>3, <1>8, <2>3 DEF EndSeed, Existing, TypeOK
    <3>3. Contract!Complete(x)
      BY <1>1, <1>2, <1>4, <2>1, <3>1, <3>2
      DEF Contract!Complete, Contract!MayStop, Kept
    <3> QED
      BY <1>4, <3>3 DEF Contract!Next
  <2>4. CASE end = "failed"
    <3>1. UnitOutcome' = [UnitOutcome EXCEPT ![x] = "failed"]
      <4>1. seedStatus' = SeedEnded(x, "failed")
        BY <1>8, <2>4 DEF SeedEnded, EndSeed
      <4> QED
        BY <1>2, <1>3, <4>1, SeedOutcome, OutcomeValues DEF Satisfied
    <3>2. Existing' = Existing
      BY <1>2, <1>3, <1>8, <2>2, <2>4 DEF EndSeed, Existing, TypeOK
    <3>3. UnitOutcome' = [u \in Units |-> IF u \in {x} THEN "failed"
                                         ELSE IF u \in {} THEN "blocked"
                                         ELSE UnitOutcome[u]]
      BY <3>1 DEF UnitOutcome
    <3>4. Contract!Break({x}, {})
      BY <1>1, <1>2, <2>1, <3>2, <3>3
      DEF Contract!Break, Contract!KeepsRecords, Contract!MayStop, Kept
    <3>5. {x} \in SUBSET Contract!Working /\ {} \in SUBSET Contract!Waiting
      BY <1>4, <2>1 DEF Contract!Working
    <3> QED
      BY <3>4, <3>5 DEF Contract!Next
  <2> QED
    BY <2>3, <2>4
<1> QED
  BY <1>5, <1>6, <1>7, <1>8

LEMMA SpareContract ==
    ASSUME KInv, NEW m \in Models, Reuse(m) \/ SkipModel(m) \/ AdoptCached(m)
    PROVE  Contract!Next
<1> USE DEF sched, planVars, work, durable, physical, bounds
<1>1. pc = "prep" /\ pc' = "prep" /\ (pc \in Active) /\ (pc' \in Active)
  BY DEF Reuse, SkipModel, AdoptCached, Active, Phase
<1>2. /\ UNCHANGED <<seedPlan, seedStatus, seedRec, rel, runRow, dropped>>
      /\ Stopped' = Stopped /\ Existing' = Existing
  BY DEF Reuse, SkipModel, AdoptCached, Existing, Stopped
<1>3. TypeOK
  BY DEF KInv, IInv
<1>4. PICK st \in {"cached", "skipped"} : status' = Ended(m, st)
  BY DEF Reuse, SkipModel, AdoptCached
<1>5. UnitOutcome' = [UnitOutcome EXCEPT ![m] = "good"]
  BY <1>2, <1>3, <1>4, ModelOutcome, OutcomeValues DEF Satisfied
<1>6. m \in Units /\ UnitOutcome[m] = "waiting" /\ status[m] = "pending"
  BY <1>3, OutcomeMap DEF Reuse, SkipModel, AdoptCached
<1>7. m \in Existing
  <2>1. plan[m] # "build"
    BY DEF Reuse, Reusable, SkipModel, AdoptCached
  <2> QED
    BY <1>1, <2>1 DEF KInv, IInv, Guarded, PlannedExists, Existing
<1>8. Kept \ dropped \subseteq Kept' /\ Kept' \subseteq Kept
  <2>1. \A c \in Models : rec'[c] = rec[c] \/ (c = m /\ rec'[m] # "passed")
    BY <1>3, <1>4 DEF Reuse, SkipModel, AdoptCached, Persist, Ended, TypeOK
  <2>2. rec[m] = "passed" /\ rec'[m] # "passed" => m \in dropped
    BY <1>1, <1>6 DEF Reuse, Reusable, SkipModel, AdoptCached, KInv, RecordInv, BuildIsDue,
       Satisfied
  <2> QED
    BY <2>1, <2>2 DEF Kept
<1>9. Contract!Spare(m)
  BY <1>1, <1>2, <1>5, <1>6, <1>7, <1>8
  DEF Contract!Spare, Contract!KeepsRecords, Kept
<1> QED
  BY <1>6, <1>9 DEF Contract!Next

LEMMA DispatchContract ==
    ASSUME KInv, NEW m \in Models, Dispatch(m)
    PROVE  Contract!Next
<1> USE DEF sched, planVars, work, durable, physical, bounds
<1>1. pc = "dispatch" /\ pc' = "dispatch" /\ (pc \in Active) /\ (pc' \in Active)
  BY DEF Dispatch, Active, Phase
<1>2. /\ UNCHANGED <<seedPlan, seedStatus, seedRec, rel, runRow, dropped>>
      /\ Stopped' = Stopped /\ Existing' = Existing /\ ~Stopped
  BY DEF Dispatch, Existing, Stopped, KInv, IInv, Guarded, DispatchGoes
<1>3. TypeOK
  BY DEF KInv, IInv
<1>4. UnitOutcome' = [UnitOutcome EXCEPT ![m] = "working"]
  BY <1>2, <1>3, ModelOutcome, OutcomeValues DEF Dispatch
<1>5. m \in ready /\ status[m] = "pending" /\ Waits(m) = {} /\ ~ReadsFailedSeed(m)
  BY DEF Dispatch, KInv, IInv, Guarded, ReadyIsGood, PendingIsClean, Looping
<1>6. m \in Units /\ UnitOutcome[m] = "waiting"
  BY <1>3, <1>5, OutcomeMap
<1>7. Needs[m] \subseteq Contract!Good \cap Existing
  <2>1. ASSUME NEW d \in Deps[m] PROVE d \in Contract!Good /\ d \in Existing
    <3>1. d \in Models /\ status[d] \in Satisfied
      BY <1>5, DepsFinite DEF Waits
    <3>2. rel[d] # "absent"
      BY <1>1, <3>1 DEF KInv, IInv, Guarded, SatisfiedExists
    <3> QED
      BY <1>3, <3>1, <3>2, OutcomeMap DEF Contract!Good, Existing
  <2>2. ASSUME NEW s \in Reads[m] PROVE s \in Contract!Good /\ s \in Existing
    <3>1. s \in Seeds
      BY GraphAssumption
    <3>2. seedStatus[s] \in Satisfied
      BY <1>1, <1>2, <1>5, <3>1 DEF KInv, IInv, Guarded, SeedsEnd, Terminal, Satisfied,
         ReadsFailedSeed, FailedSeeds
    <3>3. seedRec[s] = "passed" \/ seedPlan[s] = "skip"
      BY <1>1, <3>1, <3>2 DEF KInv, RecordInv, SeedRecord, Satisfied
    <3> QED
      BY <1>3, <3>1, <3>2, <3>3, OutcomeMap DEF Contract!Good, Existing
  <2> QED
    BY <2>1, <2>2, NeedsOf
<1>8. m \in Kept => m \in dropped
  <2>1. plan[m] = "build"
    BY <1>1, <1>5 DEF KInv, CauseInv, EarlyStatus, Satisfied
  <2> QED
    BY <1>1, <1>5, <2>1 DEF KInv, RecordInv, BuildIsDue, Satisfied, Kept
<1>9. Kept \ dropped \subseteq Kept' /\ Kept' \subseteq Kept
  <2>1. \A c \in Models : rec'[c] = rec[c] \/ (c = m /\ rec'[m] # "passed")
    BY <1>3 DEF Dispatch, Persist, Ended, TypeOK
  <2> QED
    BY <1>8, <2>1 DEF Kept
<1>10. Contract!Begin(m)
  BY <1>1, <1>2, <1>4, <1>6, <1>7, <1>8, <1>9
  DEF Contract!Begin, Contract!KeepsRecords, Kept
<1> QED
  BY <1>6, <1>10 DEF Contract!Next

LEMMA CompleteContract ==
    ASSUME KInv, NEW m \in Models, JoinPassed(m) \/ DrainPassed(m)
    PROVE  Contract!Next
<1> USE DEF sched, planVars, work, durable, physical, bounds
<1>1. (pc \in Active) /\ (pc' \in Active) /\ task[m] = "ok"
  BY DEF JoinPassed, DrainPassed, Active, Phase
<1>2. /\ UNCHANGED <<seedPlan, seedStatus, seedRec, rel, runRow, dropped>>
      /\ Stopped' = Stopped /\ Existing' = Existing
  BY DEF JoinPassed, DrainPassed, Existing, Stopped
<1>3. TypeOK
  BY DEF KInv, IInv
<1>4. UnitOutcome' = [UnitOutcome EXCEPT ![m] = "good"]
  BY <1>2, <1>3, ModelOutcome, OutcomeValues DEF JoinPassed, DrainPassed, Satisfied
<1>5. status[m] = "running" /\ rel[m] = "new"
  BY <1>1 DEF KInv, IInv, Guarded, LiveIsRunning, RecordInv, TaskOnRecord
<1>6. m \in Units /\ UnitOutcome[m] = "working" /\ m \in Existing
  BY <1>3, <1>5, OutcomeMap DEF Existing
<1>7. Kept' = Kept \cup {m}
  <2>1. \A c \in Models : rec'[c] = IF c = m THEN "passed" ELSE rec[c]
    BY <1>3 DEF JoinPassed, DrainPassed, Persist, Ended, TypeOK
  <2> QED
    BY <2>1 DEF Kept
<1>8. Contract!Complete(m)
  BY <1>1, <1>2, <1>4, <1>6, <1>7 DEF Contract!Complete, Contract!MayStop, Kept
<1> QED
  BY <1>6, <1>8 DEF Contract!Next

LEMMA BreakContract ==
    ASSUME KInv, NEW m \in Models, BlockReader(m) \/ JoinFailed(m) \/ DrainFailed(m)
    PROVE  Contract!Next
<1> USE DEF sched, planVars, work, durable, physical, bounds
<1>1. (pc \in Active) /\ (pc' \in Active)
  BY DEF BlockReader, JoinFailed, DrainFailed, Active, Phase
<1>2. TypeOK
  BY DEF KInv, IInv
<1>3. /\ UNCHANGED <<seedPlan, seedStatus, seedRec, rel, runRow, dropped>>
      /\ Existing' = Existing /\ (Stopped => Stopped')
  BY <1>2 DEF BlockReader, JoinFailed, DrainFailed, Existing, Stopped, TypeOK
<1>4. PICK st \in {"blocked", "failed"} :
        /\ status' = EndedBlocking(m, st)
        /\ \A c \in Models : rec'[c] = IF c \in {m} \cup Cone(m) THEN status'[c] ELSE rec[c]
        /\ st = "failed" => status[m] = "running" /\ rec[m] = "running"
        /\ st = "blocked" => status[m] = "pending" /\ ReadsFailedSeed(m) /\ pc = "block"
  BY DEF BlockReader, JoinFailed, DrainFailed, Persist, KInv, IInv, Guarded,
     LiveIsRunning, RecordInv, TaskOnRecord
<1>5. \A c \in Cone(m) : c \in Models /\ status[c] = "pending"
  BY <1>2, <1>4, ConeWaits DEF KInv, IInv, Guarded, Satisfied
<1> DEFINE F == IF st = "failed" THEN {m} ELSE {}
           B == IF st = "failed" THEN Cone(m) ELSE {m} \cup Cone(m)
<1>6. F \in SUBSET Contract!Working /\ B \in SUBSET Contract!Waiting
  BY <1>2, <1>4, <1>5, OutcomeMap DEF Contract!Working, Contract!Waiting
<1>7. \A u \in B : Needs[u] \cap (Contract!Broken \cup F \cup B) # {}
  <2>1. ASSUME NEW u \in Cone(m)
        PROVE  Needs[u] \cap (Contract!Broken \cup F \cup B) # {}
    <3>1. PICK d \in Deps[u] : d \in {m} \cup Cone(m)
      BY ConeShape
    <3>2. d \in Needs[u] /\ d \in F \cup B
      BY <1>5, <3>1, NeedsOf
    <3> QED
      BY <3>2
  <2>2. CASE st = "blocked"
    <3>1. PICK s \in Reads[m] : s \in Seeds /\ seedStatus[s] = "failed"
      BY <1>4, <2>2 DEF ReadsFailedSeed, FailedSeeds
    <3>2. s \in Needs[m] /\ s \in Contract!Broken
      BY <1>2, <3>1, NeedsOf, OutcomeMap DEF Contract!Broken
    <3> QED
      BY <2>1, <2>2, <3>2
  <2>3. CASE st = "failed"
    BY <2>1, <2>3
  <2> QED
    BY <2>2, <2>3
<1>8. UnitOutcome' = [u \in Units |-> IF u \in F THEN "failed"
                                     ELSE IF u \in B THEN "blocked"
                                     ELSE UnitOutcome[u]]
  <2>1. \A c \in Models : status'[c] = IF c = m THEN st
                                       ELSE IF c \in Cone(m) THEN "blocked" ELSE status[c]
    BY <1>4 DEF EndedBlocking
  <2>2. ASSUME NEW c \in Models
        PROVE  OutcomeOf(status'[c]) = IF c \in F THEN "failed"
                                       ELSE IF c \in B THEN "blocked"
                                       ELSE OutcomeOf(status[c])
    <3>1. CASE c = m
      BY <1>5, <2>1, <3>1, <1>4, OutcomeValues
    <3>2. CASE c # m
      BY <2>1, <3>2, OutcomeValues
    <3> QED
      BY <3>1, <3>2
  <2>3. \A u \in Units : u \notin Models => u \notin F /\ u \notin B
    BY <1>5
  <2> HIDE DEF F, B
  <2> QED
    BY <1>3, <2>2, <2>3 DEF UnitOutcome
<1>9. Kept \ dropped \subseteq Kept' /\ Kept' \subseteq Kept
  <2>1. \A c \in Models : rec'[c] = rec[c] \/ (c \in {m} \cup Cone(m) /\ rec'[c] # "passed")
    BY <1>4 DEF EndedBlocking
  <2>2. ASSUME NEW c \in {m} \cup Cone(m), rec[c] = "passed"
        PROVE  c \in dropped
    <3>1. c \in Models /\ status[c] = "pending"
      BY <1>4, <1>5, <2>2
    <3>2. plan[c] = "build"
      BY <3>1 DEF KInv, CauseInv, EarlyStatus, Satisfied, Active, Phase, BlockReader,
         JoinFailed, DrainFailed
    <3> QED
      BY <1>1, <2>2, <3>1, <3>2 DEF KInv, RecordInv, BuildIsDue, Satisfied
  <2> QED
    BY <2>1, <2>2 DEF Kept
<1>10. Contract!Break(F, B)
  <2> HIDE DEF F, B
  <2> QED
    BY <1>1, <1>3, <1>7, <1>8, <1>9
    DEF Contract!Break, Contract!KeepsRecords, Contract!MayStop, Kept
<1> HIDE DEF F, B
<1> QED
  BY <1>6, <1>10 DEF Contract!Next

LEMMA ClassifyContract ==
    ASSUME KInv, NEW m \in Models, Classify(m)
    PROVE  Contract!Next
<1> USE DEF sched, planVars, work, durable, physical, bounds
<1>1. /\ pc = "drain" /\ pc' = "drain" /\ (pc \in Active) /\ (pc' \in Active)
      /\ status[m] \notin Terminal
  BY DEF Classify, Active, Phase
<1>2. /\ UNCHANGED <<seedPlan, seedStatus, seedRec, rel, runRow, dropped>>
      /\ Stopped' = Stopped /\ Existing' = Existing
  BY DEF Classify, Existing, Stopped
<1>3. TypeOK /\ Stopped /\ status' = Ended(m, "cancelled")
  BY ClassifyKept DEF KInv, IInv
<1>4. UnitOutcome' = [UnitOutcome EXCEPT ![m] = "cancelled"]
  BY <1>2, <1>3, ModelOutcome, OutcomeValues
<1>5. m \in Contract!Waiting \cup Contract!Working
  <2>1. status[m] \in {"pending", "running"}
    BY <1>1, <1>3 DEF TypeOK, Status, Terminal
  <2> QED
    BY <1>3, <2>1, OutcomeMap DEF Contract!Waiting, Contract!Working
<1>6. Needs[m] \cap Contract!Broken = {}
  <2>1. status[m] \notin {"blocked", "skipped", "cached"}
    BY <1>1 DEF Terminal
  <2>2. ~ReadsFailedSeed(m) /\ \A d \in Deps[m] : status[d] \notin {"failed", "blocked"}
    BY <1>1, <2>1 DEF KInv, CauseInv, BrokenInputPropagates
  <2>3. \A d \in Deps[m] : d \notin Contract!Broken
    BY <1>3, <2>2, OutcomeMap, DepsFinite DEF Contract!Broken
  <2>4. ASSUME NEW s \in Reads[m] PROVE s \notin Contract!Broken
    <3>1. s \in Seeds /\ seedStatus[s] \notin {"failed", "blocked"}
      BY <2>2, GraphAssumption DEF ReadsFailedSeed, FailedSeeds, KInv, IInv, Guarded,
         SeedsEnd
    <3> QED
      BY <1>3, <3>1, OutcomeMap DEF Contract!Broken
  <2> QED
    BY <2>3, <2>4, NeedsOf
<1>7. Kept \ dropped \subseteq Kept' /\ Kept' \subseteq Kept
  <2>1. \A c \in Models : rec'[c] = rec[c] \/ (c = m /\ rec'[m] # "passed")
    BY <1>3 DEF Classify, Persist, Ended, TypeOK
  <2>2. plan[m] = "build" /\ status[m] \notin Satisfied
    BY <1>1 DEF KInv, CauseInv, EarlyStatus, Terminal, Satisfied
  <2> QED
    BY <1>1, <2>1, <2>2 DEF KInv, RecordInv, BuildIsDue, Kept
<1>8. Contract!GiveUp(m)
  BY <1>1, <1>2, <1>3, <1>4, <1>5, <1>6, <1>7
  DEF Contract!GiveUp, Contract!KeepsRecords, Kept
<1> QED
  BY <1>8, NeedsOf DEF Contract!Next, Units

LEMMA TaskContract ==
    ASSUME KInv, NEW m \in Models, NEW survives \in BOOLEAN,
           NEW retryable \in BOOLEAN, NEW effect \in {rel[m], "absent"},
           \/ AttemptOk(m) \/ Retry(m) \/ OrphanLands(m) \/ RefuseCached(m)
           \/ AttemptFail(m, retryable, effect) \/ DrainAbort(m, survives)
    PROVE  Contract!Next \/ UNCHANGED Contract!vars
<1> USE DEF sched, planVars, work, durable, physical, bounds
<1>1. /\ (pc' \in Active) = (pc \in Active) /\ Stopped' = Stopped
      /\ UNCHANGED <<runRow, status, seedStatus, seedRec, seedPlan, dropped>>
  BY DEF AttemptOk, Retry, OrphanLands, RefuseCached, AttemptFail, DrainAbort, Stopped
<1>2. TypeOK
  BY DEF KInv, IInv
<1>3. UnitOutcome' = UnitOutcome
  BY <1>1 DEF UnitOutcome
<1>4. CASE Retry(m) \/ RefuseCached(m) \/ DrainAbort(m, survives)
  <2>1. UNCHANGED <<rec, rel>>
    BY <1>4 DEF Retry, RefuseCached, DrainAbort
  <2> QED
    BY <1>1, <2>1, ContractStutter
<1>5. CASE OrphanLands(m)
  <2>1. Existing' = Existing \cup {m} /\ Kept' = Kept
    BY <1>1, <1>2, <1>5 DEF OrphanLands, Existing, Kept, TypeOK
  <2>2. Contract!Land(m)
    BY <1>1, <1>3, <2>1 DEF Contract!Land, Kept
  <2> QED
    BY <2>2 DEF Contract!Next
<1>6. CASE AttemptOk(m) \/ AttemptFail(m, retryable, effect)
  <2>1. status[m] = "running" /\ rec[m] = "running"
    BY <1>6 DEF AttemptOk, AttemptFail, KInv, IInv, Guarded, LiveIsRunning, RecordInv,
       TaskOnRecord
  <2>2. m \in Units /\ UnitOutcome[m] = "working"
    BY <1>2, <2>1, OutcomeMap
  <2>3. \A c \in Models : rec'[c] = rec[c] /\ (c # m => rel'[c] = rel[c])
    BY <1>2, <1>6, <2>1 DEF AttemptOk, AttemptFail, Persist, TypeOK
  <2>4. Kept' = Kept
    BY <2>3 DEF Kept
  <2>5. Existing' \in {Existing \cup {m}, Existing \ {m}}
    <3>1. m \notin Seeds
      BY DisjointAssumption
    <3>2. CASE rel'[m] = "absent"
      BY <1>1, <2>3, <3>1, <3>2 DEF Existing
    <3>3. CASE rel'[m] # "absent"
      BY <1>1, <2>3, <3>3 DEF Existing
    <3> QED
      BY <3>2, <3>3
  <2>6. Contract!Write(m)
    BY <1>1, <1>3, <2>2, <2>4, <2>5 DEF Contract!Write, Kept
  <2> QED
    BY <2>2, <2>6 DEF Contract!Next
<1> QED
  BY <1>4, <1>5, <1>6

LEMMA ControlContract ==
    ASSUME KInv,
           \/ SeedsDone \/ PrepDone \/ BlockDone \/ LoopTop \/ DispatchDone
           \/ SelectCancel \/ DrainDone \/ TestsDone \/ Cancel
    PROVE  Contract!Next \/ UNCHANGED Contract!vars
<1> USE DEF sched, planVars, work, durable, physical, bounds
<1>1. (pc \in Active) /\ (pc' \in Active)
  BY DEF SeedsDone, PrepDone, BlockDone, LoopTop, DispatchDone, SelectCancel,
         DrainDone, TestsDone, Cancel, Active, Phase
<1>2. UNCHANGED <<runRow, status, seedStatus, rec, rel, seedRec, seedPlan, dropped>>
  BY DEF SeedsDone, PrepDone, BlockDone, LoopTop, DispatchDone, SelectCancel,
         DrainDone, TestsDone, Cancel
<1>3. Stopped' = Stopped \/ Stopped' = TRUE
  BY DEF SeedsDone, PrepDone, BlockDone, LoopTop, DispatchDone, SelectCancel,
         DrainDone, TestsDone, Cancel, Stopped, KInv, IInv, TypeOK
<1>4. CASE Stopped' = Stopped
  BY <1>1, <1>2, <1>4, ContractStutter
<1>5. CASE Stopped' = TRUE
  <2>1. UnitOutcome' = UnitOutcome /\ Existing' = Existing /\ Kept' = Kept
    BY <1>2 DEF UnitOutcome, Existing, Kept
  <2>2. Contract!Stop
    BY <1>1, <1>2, <1>5, <2>1 DEF Contract!Stop, Kept
  <2> QED
    BY <2>2 DEF Contract!Next
<1> QED
  BY <1>3, <1>4, <1>5

LEMMA FinishContract ==
    ASSUME KInv, FinishRun
    PROVE  Contract!Next
<1> USE DEF sched, planVars, work, durable, physical, bounds
<1>1. pc = "record" /\ (pc \in Active) = TRUE /\ (pc' \in Active) = FALSE
  BY DEF FinishRun, Active, Phase
<1>2. /\ UNCHANGED <<status, seedStatus, rec, rel, seedRec, seedPlan, dropped>>
      /\ runRow' = RunStatus /\ Stopped' = Stopped
  BY DEF FinishRun, Stopped
<1>3. TypeOK
  BY DEF KInv, IInv
<1>4. UnitOutcome' = UnitOutcome /\ Existing' = Existing /\ Kept' = Kept
  BY <1>2 DEF UnitOutcome, Existing, Kept
<1>5. Contract!Waiting = {} /\ Contract!Working = {}
  <2>1. \A m \in Models : status[m] \notin {"pending", "running"}
    BY <1>1 DEF KInv, CauseInv, LateStatus, Terminal
  <2>2. \A s \in Seeds : seedStatus[s] \notin {"pending", "running"}
    BY <1>1 DEF KInv, IInv, Guarded, SeedsEnd, Terminal
  <2> QED
    BY <1>3, <2>1, <2>2, OutcomeMap
    DEF Contract!Waiting, Contract!Working, Units
<1>6. RunStatus = "passed" => Contract!Good = Units /\ Units \subseteq Existing
  <2> SUFFICES ASSUME RunStatus = "passed"
               PROVE  Contract!Good = Units /\ Units \subseteq Existing
    OBVIOUS
  <2>1. /\ \A m \in Models : status[m] \in Satisfied
        /\ \A s \in Seeds : seedStatus[s] \in Satisfied
    BY <1>1, WholeAtEnd DEF RunStatus, AnyFailed
  <2>2. \A m \in Models : rel[m] # "absent"
    BY <1>1, <2>1 DEF KInv, IInv, Guarded, SatisfiedExists
  <2>3. \A s \in Seeds : seedPlan[s] = "skip" \/ seedRec[s] = "passed"
    BY <1>1, <2>1 DEF KInv, RecordInv, SeedRecord, Satisfied
  <2> QED
    BY <1>3, <2>1, <2>2, <2>3, OutcomeMap DEF Contract!Good, Existing, Units
<1>7. RunStatus = "cancelled" => Stopped
  BY DEF RunStatus, Stopped
<1>8. RunStatus \in {"passed", "failed", "cancelled"}
  BY DEF RunStatus
<1>9. Contract!Finish(RunStatus)
  BY <1>1, <1>2, <1>4, <1>5, <1>6, <1>7 DEF Contract!Finish, Kept
<1> QED
  BY <1>8, <1>9 DEF Contract!Next

LEMMA WorldContract ==
    ASSUME KInv, World
    PROVE  Contract!Next \/ UNCHANGED Contract!vars
<1> USE DEF sched, planVars, work, durable, physical, bounds
<1>1. ASSUME Forget
      PROVE  UnitOutcome' = [u \in Units |-> "waiting"] /\ Stopped' = FALSE
  BY <1>1, OutcomeValues DEF Forget, UnitOutcome, Units, Stopped
<1>2. CASE Cancel
  BY <1>2, ControlContract
<1>3. CASE Kill
  <2>1. /\ (pc \in Active) = TRUE /\ (pc' \in Active) = FALSE
        /\ UNCHANGED <<runRow, rec, rel, seedRec, seedPlan, dropped>>
    BY <1>3 DEF Kill, Active, Phase
  <2>2. Existing' = Existing /\ Kept' = Kept
    BY <2>1 DEF Existing, Kept
  <2>3. Contract!Kill
    BY <1>1, <1>3, <2>1, <2>2 DEF Kill, Contract!Kill, Contract!AllWait, Kept
  <2> QED
    BY <2>3 DEF Contract!Next
<1>4. CASE Resume
  <2>1. /\ (pc \in Active) = FALSE /\ (pc' \in Active) = TRUE
        /\ runRow \in {"running", "cancelled"} /\ runRow' = "running"
        /\ UNCHANGED <<rec, rel, seedRec, dropped>>
    BY <1>4 DEF Resume, Resumable, Active, Phase, KInv, RecordInv, VerdictLast
  <2>2. \A s \in Seeds : seedPlan'[s] = "skip" \/ seedRec'[s] = "passed"
                           <=> seedPlan[s] = "skip" \/ seedRec[s] = "passed"
    BY <1>4 DEF Resume
  <2>3. Existing' = Existing /\ Kept' = Kept
    BY <2>1, <2>2 DEF Existing, Kept
  <2>4. Contract!Resume
    BY <1>1, <1>4, <2>1, <2>3 DEF Resume, Contract!Resume, Contract!AllWait, Kept
  <2> QED
    BY <2>4 DEF Contract!Next
<1>5. CASE \E m \in Models : OrphanLands(m)
  BY <1>5, TaskContract
<1>6. CASE \E m \in Models : DropRelation(m)
  <2> PICK m \in Models : DropRelation(m)
    BY <1>6
  <2>1. /\ (pc \in Active) = FALSE /\ (pc' \in Active) = FALSE /\ Stopped' = Stopped
        /\ runRow \in {"running", "cancelled"}
        /\ UNCHANGED <<runRow, status, seedStatus, rec, seedRec, seedPlan>>
        /\ dropped' = dropped \cup {m}
    BY DEF DropRelation, Resumable, Active, Phase, Stopped, KInv, RecordInv, VerdictLast
  <2>2. UnitOutcome' = UnitOutcome /\ Kept' = Kept
    BY <2>1 DEF UnitOutcome, Kept
  <2>3. Existing' = Existing \ {m}
    BY <2>1, DisjointAssumption DEF DropRelation, Existing, KInv, IInv, TypeOK
  <2>4. Contract!Drop(m)
    BY <2>1, <2>2, <2>3 DEF Contract!Drop, Kept
  <2> QED
    BY <2>4 DEF Contract!Next
<1> QED
  BY <1>2, <1>3, <1>4, <1>5, <1>6 DEF World

LEMMA ContractStep == KInv /\ [Next]_vars => [Contract!Next]_(Contract!vars)
<1> SUFFICES ASSUME KInv, [Next]_vars
             PROVE  Contract!Next \/ UNCHANGED Contract!vars
  OBVIOUS
<1> USE DEF sched, planVars, work, durable, physical, bounds
<1>1. CASE Scheduler
  <2>1. CASE \E s \in Seeds : CancelSeed(s) \/ SkipSeed(s) \/ StartSeed(s)
    BY <2>1, SeedsContract
  <2>2. CASE \E m \in Models : Reuse(m) \/ SkipModel(m) \/ AdoptCached(m)
    BY <2>2, SpareContract
  <2>3. CASE \E m \in Models : BlockReader(m) \/ JoinFailed(m) \/ DrainFailed(m)
    BY <2>3, BreakContract
  <2>4. CASE \E m \in Models : JoinPassed(m) \/ DrainPassed(m)
    BY <2>4, CompleteContract
  <2>5. CASE \E m \in Models, survives \in BOOLEAN :
                RefuseCached(m) \/ DrainAbort(m, survives)
    BY <2>5, TaskContract
  <2>6. CASE \E m \in Models : Dispatch(m) \/ Classify(m)
    BY <2>6, DispatchContract, ClassifyContract
  <2>7. CASE \/ \E t \in Tests : SkipTest(t) \/ StartTest(t)
             \/ \E m \in Models : Record(m)
    BY <2>7, ContractStutter DEF SkipTest, StartTest, Record, Stopped
  <2>8. CASE \/ SeedsDone \/ PrepDone \/ BlockDone \/ LoopTop \/ DispatchDone
             \/ SelectCancel \/ DrainDone \/ TestsDone
    BY <2>8, ControlContract
  <2>9. CASE FinishRun
    BY <2>9, FinishContract
  <2> QED
    BY <1>1, <2>1, <2>2, <2>3, <2>4, <2>5, <2>6, <2>7, <2>8, <2>9 DEF Scheduler
<1>2. CASE Task
  <2>1. CASE \E s \in Seeds : AnswerSeed(s)
    BY <2>1, SeedsContract DEF AnswerSeed
  <2>2. CASE \E t \in Tests : AnswerTest(t)
    BY <2>2, ContractStutter DEF AnswerTest, EndTest, Stopped
  <2>3. CASE \E m \in Models : AnswerModel(m) \/ Retry(m)
    BY <2>3, TaskContract DEF AnswerModel
  <2> QED
    BY <1>2, <2>1, <2>2, <2>3 DEF Task
<1>3. CASE World
  BY <1>3, WorldContract
<1>4. CASE UNCHANGED vars
  BY <1>4, ContractStutter DEF vars, Stopped
<1> QED
  BY <1>1, <1>2, <1>3, <1>4 DEF Next

\* The driver implements the contract of a run, for every graph of models and
\* seeds, every plan and concurrency, and every order of answers, failures,
\* cancels, kills and resumptions.
THEOREM ContractHolds == Spec => ImplementsContract
<1> QED
  BY ContractInit, ContractStep, KInvHolds, PTL DEF Spec, ImplementsContract, Contract!Spec
=============================================================================
