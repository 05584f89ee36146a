-------------------------- MODULE MaterialiseProofs --------------------------
(***************************************************************************)
(* Theorems about Materialise, for any number of runs, environments,       *)
(* catalogs and versions, and any number of edits, retargets, foreign      *)
(* writes, killed runs and unanswered reads.                               *)
(***************************************************************************)
EXTENDS Materialise, SequenceTheorems, TLAPS

-----------------------------------------------------------------------------
(***************************************************************************)
(* Type correctness.                                                       *)
(***************************************************************************)
LEMMA TypeInit == Init => TypeOK
<1> SUFFICES ASSUME Init PROVE TypeOK
  OBVIOUS
<1>1. PICK base \in Catalogs, other \in Catalogs :
        /\ bind = [e \in Envs |-> IF e \in Base THEN base ELSE other]
        /\ \/ /\ rows = {} /\ holds = <<>>
              /\ snap = [c \in Catalogs |-> None]
           \/ /\ \E ours \in BOOLEAN :
                    rows = {[env |-> "default", version |-> want,
                             target |-> base, identity |-> None, at |-> 0,
                             ours |-> ours, own |-> FALSE]}
              /\ holds = <<want>>
              /\ snap = [c \in Catalogs |-> IF c = base THEN 1 ELSE None]
        /\ job = [r \in Runs |-> [env |-> "default", version |-> want,
                                  target |-> base, resumed |-> FALSE]]
  BY DEF Init
<1>2. want \in Versions
  BY DEF Init
<1>3. bind \in [Envs -> Catalogs] /\ bind["default"] = bind["main"]
  BY <1>1 DEF Envs, Base
<1>4. holds \in Seq(Versions \cup {Unknown}) /\ snap \in [Catalogs -> Snapshots]
  <2>1. CASE holds = <<>> /\ snap = [c \in Catalogs |-> None]
    BY <2>1 DEF Snapshots, None
  <2>2. CASE /\ holds = <<want>>
             /\ snap = [c \in Catalogs |-> IF c = base THEN 1 ELSE None]
    <3>1. holds \in Seq(Versions \cup {Unknown}) /\ Len(holds) = 1
      BY <2>2, <1>2
    <3> QED
      BY <2>2, <3>1 DEF Snapshots, None
  <2> QED
    BY <1>1, <2>1, <2>2
<1>5. rows \subseteq Row /\ \A x, y \in rows : x.env = y.env => x = y
  <2>1. CASE rows = {}
    BY <2>1
  <2>2. CASE \E ours \in BOOLEAN :
                rows = {[env |-> "default", version |-> want,
                         target |-> base, identity |-> None, at |-> 0,
                         ours |-> ours, own |-> FALSE]}
    BY <2>2, <1>2 DEF Row, Envs, Base, None
  <2> QED
    BY <1>1, <2>1, <2>2
<1>6. job \in [Runs -> Job]
  BY <1>1, <1>2 DEF Job, Envs, Base
<1>7. stage \in [Runs -> Stage]
  BY DEF Init, Stage
<1>8. seen \in [Runs -> [exists : BOOLEAN, current : SUBSET Row,
                         elsewhere : SUBSET Row]]
  BY DEF Init, NoEvidence
<1>9. output \in [Runs -> [wrote : Nat, captured : Nat, at : Nat]]
  BY DEF Init, NoOutput, None
<1>10. started \in 0..MaxRuns /\ moves \in 0..MaxMoves
  BY BoundAssumption DEF Init
<1> QED
  BY <1>2, <1>3, <1>4, <1>5, <1>6, <1>7, <1>8, <1>9, <1>10 DEF Init, TypeOK

\* A run that reads an identity, dies, or a change of the world uses a move.
LEMMA TypeMove ==
    ASSUME TypeOK, Move \/ UNCHANGED bounds
    PROVE  started' \in 0..MaxRuns /\ moves' \in 0..MaxMoves
  BY BoundAssumption DEF TypeOK, Move, bounds

\* What a write of a relation leaves: one snapshot more, and valid numbers.
LEMMA TypeWrite ==
    ASSUME TypeOK, NEW c \in Catalogs, NEW v \in Versions \cup {Unknown},
           NewSnapshot(c, v)
    PROVE  /\ holds' \in Seq(Versions \cup {Unknown})
           /\ Len(holds') = Len(holds) + 1
           /\ \A i \in 1..Len(holds) : holds'[i] = holds[i]
           /\ holds'[Len(holds) + 1] = v
           /\ snap' \in [Catalogs -> Snapshots']
           /\ intact' \subseteq Runs
<1>1. /\ holds' \in Seq(Versions \cup {Unknown})
      /\ Len(holds') = Len(holds) + 1
      /\ \A i \in 1..Len(holds) : holds'[i] = holds[i]
      /\ holds'[Len(holds) + 1] = v
  BY DEF TypeOK, NewSnapshot
<1>2. Len(holds) \in Nat
  BY DEF TypeOK
<1> QED
  BY <1>1, <1>2 DEF TypeOK, NewSnapshot, Writes, Snapshots

\* An upsert keeps one row for an environment.
LEMMA TypeUpsert ==
    ASSUME TypeOK, NEW x \in Row, Upsert(x)
    PROVE  /\ rows' \subseteq Row
           /\ \A y, z \in rows' : y.env = z.env => y = z
<1>1. CASE rows' = rows
  BY <1>1 DEF TypeOK
<1>2. CASE rows' = {y \in rows : y.env # x.env} \cup {x}
  BY <1>2 DEF TypeOK
<1> QED
  BY <1>1, <1>2 DEF Upsert

LEMMA TypeClaim ==
    ASSUME TypeOK, NEW r \in Runs, NEW i \in Nat, NEW at \in Nat,
           NEW own \in BOOLEAN
    PROVE  Claim(r, i, at, own) \in Row
<1>1. job[r] \in Job
  BY DEF TypeOK
<1> QED
  BY <1>1 DEF Claim, Row, Job

\* What a run has seen, and one field of it read.
Seen == [exists : BOOLEAN, current : SUBSET Row, elsewhere : SUBSET Row]
LEMMA TypeSeen ==
    ASSUME TypeOK, NEW r \in Runs
    PROVE  /\ \A b \in BOOLEAN : [seen[r] EXCEPT !.exists = b] \in Seen
           /\ \A s \in SUBSET Row : [seen[r] EXCEPT !.current = s] \in Seen
           /\ \A s \in SUBSET Row : [seen[r] EXCEPT !.elsewhere = s] \in Seen
<1>1. seen[r] \in Seen
  BY DEF TypeOK, Seen
<1> QED
  BY <1>1 DEF Seen

LEMMA TypePlanning ==
    ASSUME TypeOK, NEW r \in Runs,
           \/ \E e \in Envs : Start(r, e)
           \/ Resume(r) \/ Probe(r) \/ ReadScope(r) \/ ReadCandidates(r)
    PROVE  TypeOK'
<1> USE DEF world, store, bounds
<1>1. \A e \in Envs, b \in BOOLEAN : Compiled(e, b) \in Job
  BY DEF TypeOK, Compiled, Job
<1>2. job[r] \in Job
  BY DEF TypeOK
<1>3. ASSUME NEW e \in Envs, Start(r, e) PROVE TypeOK'
  <2>1. job' \in [Runs -> Job]
    BY <1>1, <1>3 DEF TypeOK, Start
  <2>2. stage' \in [Runs -> Stage]
    BY <1>3 DEF TypeOK, Start, Stage, Planning
  <2>3. output' \in [Runs -> [wrote : Nat, captured : Nat, at : Nat]]
    BY <1>3 DEF TypeOK, Start, NoOutput, None
  <2>4. passed' \in [Runs -> SUBSET Versions] /\ intact' \subseteq Runs
    BY <1>3 DEF TypeOK, Start
  <2>5. started' \in 0..MaxRuns /\ moves' \in 0..MaxMoves
    BY <1>3, BoundAssumption DEF TypeOK, Start
  <2> QED
    BY <1>3, <2>1, <2>2, <2>3, <2>4, <2>5 DEF TypeOK, Start, Snapshots
<1>4. CASE Resume(r)
  <2>1. job' \in [Runs -> Job]
    BY <1>1, <1>2, <1>4 DEF TypeOK, Resume, Job
  <2>2. stage' \in [Runs -> Stage]
    BY <1>4 DEF TypeOK, Resume, At, Stage, Planning
  <2> QED
    BY <1>4, <2>1, <2>2 DEF TypeOK, Resume, Snapshots
<1>5. CASE Probe(r)
  <2>1. seen' = [seen EXCEPT ![r] = [seen[r] EXCEPT !.exists = snap[job[r].target] # None]]
    BY <1>5 DEF TypeOK, Probe
  <2>2. stage' \in [Runs -> Stage]
    BY <1>5 DEF TypeOK, Probe, At, Stage, Planning
  <2>3. seen' \in [Runs -> Seen]
    <3>1. (snap[job[r].target] # None) \in BOOLEAN /\ seen \in [Runs -> Seen]
      BY DEF TypeOK, Seen
    <3>2. PICK new \in Seen : seen' = [seen EXCEPT ![r] = new]
      BY <2>1, <3>1, TypeSeen
    <3> QED
      BY <3>1, <3>2
  <2> QED
    BY <1>5, <2>2, <2>3 DEF TypeOK, Probe, At, Seen, Snapshots
<1>6. CASE ReadScope(r)
  <2>1. Scope(job[r].env) \subseteq Row
    BY DEF TypeOK, Scope
  <2>2. stage' \in [Runs -> Stage]
    BY <1>6 DEF TypeOK, ReadScope, At, Stage, Planning
  <2>3. seen' = [seen EXCEPT ![r] = [seen[r] EXCEPT !.current = Scope(job[r].env)]]
    BY <1>6 DEF TypeOK, ReadScope
  <2>4. seen' \in [Runs -> Seen]
    <3>1. seen \in [Runs -> Seen]
      BY DEF TypeOK, Seen
    <3>2. PICK new \in Seen : seen' = [seen EXCEPT ![r] = new]
      BY <2>1, <2>3, <3>1, TypeSeen
    <3> QED
      BY <3>1, <3>2
  <2> QED
    BY <1>6, <2>2, <2>4 DEF TypeOK, ReadScope, Seen, Snapshots
<1>7. CASE ReadCandidates(r)
  <2>1. Elsewhere(r) \subseteq Row
    BY DEF TypeOK, Elsewhere
  <2>2. stage' \in [Runs -> Stage]
    BY <1>7 DEF TypeOK, ReadCandidates, At, Stage, Planning
  <2>3. seen' = [seen EXCEPT ![r] = [seen[r] EXCEPT !.elsewhere = Elsewhere(r)]]
    BY <1>7 DEF TypeOK, ReadCandidates
  <2>4. seen' \in [Runs -> Seen]
    BY <2>1, <2>3, TypeSeen DEF TypeOK, Seen
  <2> QED
    BY <1>7, <2>2, <2>4 DEF TypeOK, ReadCandidates, At, Seen, Snapshots
<1> QED
  BY <1>3, <1>4, <1>5, <1>6, <1>7

LEMMA TypeDecide ==
    ASSUME TypeOK, NEW r \in Runs, Decide(r)
    PROVE  TypeOK'
<1> USE DEF world, store
<1>1. PICK live \in Snapshots :
        /\ \/ Reads(job[r].target, live)
           \/ live = None /\ UNCHANGED bounds
        /\ \/ stage' = [stage EXCEPT ![r] = "keep"] /\ UNCHANGED reuse
           \/ /\ stage' = [stage EXCEPT ![r] = Verdict(job[r], seen[r], live)]
              /\ UNCHANGED reuse
           \/ /\ stage' = [stage EXCEPT ![r] = "cached"]
              /\ \E x \in Adoptable(job[r], seen[r], live) :
                   reuse' = [reuse EXCEPT ![r] = {x}]
           \/ stage' = [stage EXCEPT ![r] = "build"] /\ UNCHANGED reuse
  BY DEF Decide, At
<1>2. started' \in 0..MaxRuns /\ moves' \in 0..MaxMoves
  BY <1>1, TypeMove DEF Reads
<1>3. Verdict(job[r], seen[r], live) \in Planned
  BY DEF Verdict, Planned
<1>4. stage' \in [Runs -> Stage]
  BY <1>1, <1>3 DEF TypeOK, Stage, Planned
<1>5. seen[r].current \subseteq Row /\ seen[r].elsewhere \subseteq Row
  BY DEF TypeOK
<1>6. Adoptable(job[r], seen[r], live) \subseteq Row
  BY <1>5 DEF Adoptable, Shared, Moved
<1>7. reuse' \in [Runs -> SUBSET Row]
  BY <1>1, <1>6 DEF TypeOK
<1>8. seen' \in [Runs -> [exists : BOOLEAN, current : SUBSET Row,
                          elsewhere : SUBSET Row]]
  BY DEF TypeOK, Decide, NoEvidence
<1> QED
  BY <1>2, <1>4, <1>7, <1>8 DEF TypeOK, Decide, Snapshots

\* Assigning one field of a run's output.
LEMMA TypeOutput ==
    ASSUME TypeOK, NEW r \in Runs, NEW n \in Nat
    PROVE  /\ [output EXCEPT ![r].captured = n]
                \in [Runs -> [wrote : Nat, captured : Nat, at : Nat]]
           /\ [output EXCEPT ![r].at = n]
                \in [Runs -> [wrote : Nat, captured : Nat, at : Nat]]
<1>1. output \in [Runs -> [wrote : Nat, captured : Nat, at : Nat]]
  BY DEF TypeOK
<1>2. /\ [output[r] EXCEPT !.captured = n] \in [wrote : Nat, captured : Nat, at : Nat]
      /\ [output[r] EXCEPT !.at = n] \in [wrote : Nat, captured : Nat, at : Nat]
  BY <1>1
<1> QED
  BY <1>1, <1>2

LEMMA TypeExecute ==
    ASSUME TypeOK, NEW r \in Runs,
           \/ Refuse(r) \/ Apply(r) \/ Verify(r) \/ Adopt(r) \/ Finish(r)
           \/ Check(r) \/ Record(r) \/ Dies(r)
    PROVE  TypeOK'
<1> USE DEF world, store
<1>1. CASE Refuse(r)
  <2>1. stage' \in [Runs -> Stage] /\ reuse' \in [Runs -> SUBSET Row]
    BY <1>1 DEF TypeOK, Refuse, Stage, Ended
  <2> QED
    BY <1>1, <2>1 DEF TypeOK, Refuse, bounds, Snapshots
<1>2. CASE Apply(r)
  <2>1. stage' \in [Runs -> Stage]
    BY <1>2 DEF TypeOK, Apply, At, Stage, Running, Ended
  <2> QED
    BY <1>2, <2>1 DEF TypeOK, Apply, bounds, Snapshots
<1>3. CASE Verify(r)
  <2>1. stage' \in [Runs -> Stage] /\ reuse' \in [Runs -> SUBSET Row]
    BY <1>3 DEF TypeOK, Verify, At, Stage, Running
  <2>2. Move \/ UNCHANGED bounds
    BY <1>3 DEF Verify, Reads
  <2> QED
    BY <1>3, <2>1, <2>2, TypeMove DEF TypeOK, Verify, Snapshots
<1>4. CASE Adopt(r)
  <2>1. stage' \in [Runs -> Stage] /\ reuse' \in [Runs -> SUBSET Row]
    BY <1>4 DEF TypeOK, Adopt, At, Stage, Ended
  <2>2. PICK x \in reuse[r] : Upsert(Claim(r, x.identity, x.at, x.own))
    BY <1>4 DEF Adopt
  <2>3. x \in Row
    BY <2>2 DEF TypeOK
  <2>4. Claim(r, x.identity, x.at, x.own) \in Row
    BY <2>3, TypeClaim DEF Row
  <2>5. rows' \subseteq Row /\ \A y, z \in rows' : y.env = z.env => y = z
    BY <2>2, <2>4, TypeUpsert
  <2> QED
    BY <1>4, <2>1, <2>5 DEF TypeOK, Adopt, bounds, Snapshots
<1>5. CASE Finish(r)
  <2>1. stage' \in [Runs -> Stage]
    BY <1>5 DEF TypeOK, Finish, At, Stage, Running
  <2>2. output' \in [Runs -> [wrote : Nat, captured : Nat, at : Nat]]
        /\ clock' \in Nat
    <3>1. clock + 1 \in Nat /\ clock' = clock + 1
      BY <1>5 DEF TypeOK, Finish
    <3>2. output' = [output EXCEPT ![r].at = clock + 1]
      BY <1>5 DEF Finish
    <3> QED
      BY <3>1, <3>2, TypeOutput DEF TypeOK
  <2> QED
    BY <1>5, <2>1, <2>2 DEF TypeOK, Finish, bounds, Snapshots
<1>6. CASE Check(r)
  <2>1. stage' \in [Runs -> Stage]
    BY <1>6 DEF TypeOK, Check, At, Stage, Running, Ended
  <2>2. Move \/ UNCHANGED bounds
    BY <1>6 DEF Check, Reads
  <2> QED
    BY <1>6, <2>1, <2>2, TypeMove DEF TypeOK, Check, Snapshots
<1>7. CASE Record(r)
  <2>1. stage' \in [Runs -> Stage]
    BY <1>7 DEF TypeOK, Record, At, Stage, Ended
  <2>2. output[r] \in [wrote : Nat, captured : Nat, at : Nat]
    BY DEF TypeOK
  <2>3. Claim(r, output[r].captured, output[r].at,
              output[r].captured = output[r].wrote) \in Row
    BY <2>2, TypeClaim
  <2>4. rows' \subseteq Row /\ \A y, z \in rows' : y.env = z.env => y = z
    BY <1>7, <2>3, TypeUpsert DEF Record
  <2> QED
    BY <1>7, <2>1, <2>4 DEF TypeOK, Record, bounds, Snapshots
<1>8. CASE Dies(r)
  <2>1. stage' \in [Runs -> Stage] /\ reuse' \in [Runs -> SUBSET Row]
    BY <1>8 DEF TypeOK, Dies, Stage
  <2> QED
    BY <1>8, <2>1, TypeMove DEF TypeOK, Dies, Snapshots
<1> QED
  BY <1>1, <1>2, <1>3, <1>4, <1>5, <1>6, <1>7, <1>8

LEMMA TypeBuild ==
    ASSUME TypeOK, NEW r \in Runs, Build(r) \/ Capture(r)
    PROVE  TypeOK'
<1>1. job[r].target \in Catalogs /\ job[r].version \in Versions
  BY DEF TypeOK, Job
<1>2. Len(holds) \in Nat
  BY DEF TypeOK
<1>3. CASE Build(r)
  <2>1. /\ holds' \in Seq(Versions \cup {Unknown})
        /\ snap' \in [Catalogs -> Snapshots'] /\ intact' \subseteq Runs
    BY <1>1, <1>3, TypeWrite DEF Build
  <2>2. stage' \in [Runs -> Stage] /\ passed' \in [Runs -> SUBSET Versions]
    BY <1>3 DEF TypeOK, Build, At, Stage, Running
  <2>3. output' \in [Runs -> [wrote : Nat, captured : Nat, at : Nat]]
    BY <1>2, <1>3 DEF TypeOK, Build, NoOutput, None
  <2> QED
    BY <1>3, <2>1, <2>2, <2>3 DEF TypeOK, Build, bounds
<1>4. CASE Capture(r)
  <2>1. stage' \in [Runs -> Stage] /\ passed' \in [Runs -> SUBSET Versions]
        /\ intact' \subseteq Runs
    BY <1>1, <1>4 DEF TypeOK, Capture, At, Stage, Running
  <2>2. output' \in [Runs -> [wrote : Nat, captured : Nat, at : Nat]]
    <3>1. PICK live \in Snapshots : output' = [output EXCEPT ![r].captured = live]
      BY <1>4 DEF Capture
    <3>2. live \in Nat
      BY <1>2, <3>1 DEF Snapshots
    <3> QED
      BY <3>1, <3>2, TypeOutput
  <2>3. Move \/ UNCHANGED bounds
    BY <1>4 DEF Capture, Reads
  <2> QED
    BY <1>4, <2>1, <2>2, <2>3, TypeMove DEF TypeOK, Capture, world, Snapshots
<1> QED
  BY <1>3, <1>4

LEMMA TypeWorld == ASSUME TypeOK, WorldStep PROVE TypeOK'
<1> USE DEF store, process
<1>1. CASE Edit
  BY <1>1, TypeMove DEF TypeOK, Edit, Snapshots
<1>2. ASSUME NEW e \in Envs, NEW c \in Catalogs, Rebind(e, c) PROVE TypeOK'
  <2>1. bind' \in [Envs -> Catalogs] /\ bind'["default"] = bind'["main"]
    BY <1>2 DEF TypeOK, Rebind, Envs, Base
  <2> QED
    BY <1>2, <2>1, TypeMove DEF TypeOK, Rebind, Snapshots
<1>3. ASSUME NEW c \in Catalogs, NEW d \in Catalogs, Inherit(c, d) PROVE TypeOK'
  BY <1>3, TypeMove DEF TypeOK, Inherit, Writes, Snapshots
<1>4. ASSUME NEW c \in Catalogs, Foreign(c) PROVE TypeOK'
  <2>1. CASE NewSnapshot(c, Unknown)
    <3>1. /\ holds' \in Seq(Versions \cup {Unknown})
          /\ snap' \in [Catalogs -> Snapshots'] /\ intact' \subseteq Runs
      BY <2>1, TypeWrite
    <3> QED
      BY <1>4, <3>1, TypeMove DEF TypeOK, Foreign
  <2>2. CASE Writes(c, None) /\ UNCHANGED holds
    <3>1. snap' \in [Catalogs -> Snapshots'] /\ intact' \subseteq Runs
      BY <2>2 DEF TypeOK, Writes, Snapshots, None
    <3> QED
      BY <1>4, <2>2, <3>1, TypeMove DEF TypeOK, Foreign
  <2> QED
    BY <1>4, <2>1, <2>2 DEF Foreign
<1> QED
  BY <1>1, <1>2, <1>3, <1>4 DEF WorldStep

LEMMA TypeStep == TypeOK /\ [Next]_vars => TypeOK'
<1> SUFFICES ASSUME TypeOK, [Next]_vars PROVE TypeOK'
  OBVIOUS
<1>1. ASSUME NEW r \in Runs, RunStep(r) PROVE TypeOK'
  BY <1>1, TypePlanning, TypeDecide, TypeExecute, TypeBuild DEF RunStep
<1>2. CASE WorldStep
  BY <1>2, TypeWorld
<1>3. CASE UNCHANGED vars
  BY <1>3 DEF TypeOK, vars, world, store, process, bounds, Snapshots
<1> QED
  BY <1>1, <1>2, <1>3 DEF Next

\* The state keeps its shape, and an environment never has two records.
THEOREM TypeCorrect == Spec => []TypeOK
<1> QED
  BY TypeInit, TypeStep, PTL DEF Spec

-----------------------------------------------------------------------------
(***************************************************************************)
(* Records tell the truth about the snapshots they name.  The inductive    *)
(* invariant follows a record from the table into the evidence a planner   *)
(* has read and the record a run is about to adopt, and the content of a   *)
(* build until it is recorded.                                             *)
(***************************************************************************)
Genuine(x) ==
    x.own /\ x.identity # None =>
        x.identity \in 1..Len(holds) /\ holds[x.identity] = x.version

Adopting == {"cached", "verify", "adopt"}
Written == {"built", "captured", "finished", "checked"}

RowsGenuine == \A x \in rows : Genuine(x)
EvidenceGenuine ==
    \A r \in Runs : /\ \A x \in seen[r].current : Genuine(x)
                    /\ \A x \in seen[r].elsewhere : Genuine(x)
CandidatesWanted ==
    \A r \in Runs : stage[r] = "decide" =>
        \A x \in seen[r].elsewhere : x.version = job[r].version
ReuseGenuine ==
    \A r \in Runs : /\ \A x \in reuse[r] : Genuine(x)
                    /\ stage[r] \in Adopting =>
                         \A x \in reuse[r] : x.version = job[r].version
OutputGenuine ==
    \A r \in Runs : stage[r] \in Written =>
        /\ output[r].wrote \in 1..Len(holds)
        /\ holds[output[r].wrote] = job[r].version

TruthInv == /\ TypeOK
            /\ RowsGenuine /\ EvidenceGenuine /\ CandidatesWanted
            /\ ReuseGenuine /\ OutputGenuine

LEMMA TruthInit == Init => TruthInv
<1> SUFFICES ASSUME Init PROVE TruthInv
  OBVIOUS
<1>1. RowsGenuine
  BY DEF Init, RowsGenuine, Genuine
<1>2. EvidenceGenuine /\ CandidatesWanted
  BY DEF Init, EvidenceGenuine, CandidatesWanted, NoEvidence
<1>3. ReuseGenuine /\ OutputGenuine
  BY DEF Init, ReuseGenuine, OutputGenuine, Adopting, Written
<1> QED
  BY <1>1, <1>2, <1>3, TypeInit DEF TruthInv

\* Snapshots are only ever added, so what is true of a record stays true.
Grows ==
    /\ Len(holds') \in Nat /\ Len(holds) <= Len(holds')
    /\ \A i \in 1..Len(holds) : holds'[i] = holds[i]

LEMMA GenuineStays ==
    ASSUME TypeOK, Grows
    PROVE  \A x : Genuine(x) => Genuine(x)'
<1>1. Len(holds) \in Nat
  BY DEF TypeOK
<1> QED
  BY <1>1 DEF Grows, Genuine

\* A step that leaves records, evidence and outputs alone, and keeps the runs
\* in the phases where those matter, keeps what is said of them.
LEMMA TruthKept ==
    ASSUME TruthInv, Grows
    PROVE  /\ UNCHANGED rows => RowsGenuine'
           /\ UNCHANGED seen => EvidenceGenuine'
           /\ UNCHANGED <<stage, seen, job>> => CandidatesWanted'
           /\ UNCHANGED <<stage, reuse, job>> => ReuseGenuine'
           /\ UNCHANGED <<stage, output, job>> => OutputGenuine'
<1>1. \A x : Genuine(x) => Genuine(x)'
  BY GenuineStays DEF TruthInv
<1>2. Len(holds) \in Nat
  BY DEF TruthInv, TypeOK
<1>3. UNCHANGED rows => RowsGenuine'
  BY <1>1 DEF TruthInv, RowsGenuine
<1>4. UNCHANGED seen => EvidenceGenuine'
  BY <1>1 DEF TruthInv, EvidenceGenuine
<1>5. UNCHANGED <<stage, seen, job>> => CandidatesWanted'
  BY DEF TruthInv, CandidatesWanted
<1>6. UNCHANGED <<stage, reuse, job>> => ReuseGenuine'
  BY <1>1 DEF TruthInv, ReuseGenuine
<1>7. UNCHANGED <<stage, output, job>> => OutputGenuine'
  BY <1>2 DEF TruthInv, OutputGenuine, Grows
<1> QED
  BY <1>3, <1>4, <1>5, <1>6, <1>7

LEMMA SameHolds == ASSUME TypeOK, UNCHANGED holds PROVE Grows
<1>1. Len(holds) \in Nat
  BY DEF TypeOK
<1> QED
  BY <1>1 DEF Grows

\* An upsert adds at most the new record.
LEMMA TruthUpsert ==
    ASSUME RowsGenuine, UNCHANGED holds, NEW x, Upsert(x), Genuine(x)
    PROVE  RowsGenuine'
<1>1. rows' \subseteq rows \cup {x}
  BY DEF Upsert
<1>2. \A y : Genuine(y) => Genuine(y)'
  BY DEF Genuine
<1> QED
  BY <1>1, <1>2 DEF RowsGenuine

LEMMA TruthPlanning ==
    ASSUME TruthInv, NEW r \in Runs,
           \/ \E e \in Envs : Start(r, e)
           \/ Resume(r) \/ Probe(r) \/ ReadScope(r) \/ ReadCandidates(r)
    PROVE  TruthInv'
<1> USE DEF world, store
<1>1. TypeOK /\ TypeOK'
  BY TypePlanning DEF TruthInv
<1>2. Grows
  BY <1>1, SameHolds DEF Start, Resume, Probe, ReadScope, ReadCandidates
<1>3. RowsGenuine'
  BY <1>2, TruthKept DEF Start, Resume, Probe, ReadScope, ReadCandidates
<1>4. \A x : Genuine(x) => Genuine(x)'
  BY <1>1, <1>2, GenuineStays
<1>5. ASSUME \/ \E e \in Envs : Start(r, e)
             \/ Resume(r)
      PROVE  TruthInv'
  <2>1. stage' = [stage EXCEPT ![r] = "probe"]
    BY <1>5 DEF Start, Resume, At
  <2>2. \A q \in Runs : q # r => job'[q] = job[q] /\ output'[q] = output[q]
    BY <1>1, <1>5 DEF TypeOK, Start, Resume
  <2>3. UNCHANGED <<holds, seen, reuse>>
    BY <1>5 DEF Start, Resume
  <2>4. stage'[r] = "probe" /\ \A q \in Runs : q # r => stage'[q] = stage[q]
    BY <1>1, <2>1 DEF TypeOK
  <2>5. EvidenceGenuine' /\ CandidatesWanted'
    BY <1>2, <2>2, <2>3, <2>4, TruthKept DEF TruthInv, CandidatesWanted
  <2>6. ReuseGenuine'
    BY <1>4, <2>2, <2>3, <2>4 DEF TruthInv, ReuseGenuine, Adopting
  <2>7. OutputGenuine'
    BY <2>2, <2>3, <2>4 DEF TruthInv, OutputGenuine, Written
  <2> QED
    BY <1>1, <1>3, <2>5, <2>6, <2>7 DEF TruthInv
<1>6. ASSUME Probe(r) \/ ReadScope(r) \/ ReadCandidates(r) PROVE TruthInv'
  <2>1. UNCHANGED <<holds, rows, job, reuse, output>>
    BY <1>6 DEF Probe, ReadScope, ReadCandidates
  <2>2. /\ stage'[r] \in {"scope", "candidates", "decide"}
        /\ \A q \in Runs : q # r => stage'[q] = stage[q] /\ seen'[q] = seen[q]
    BY <1>1, <1>6 DEF TypeOK, Probe, ReadScope, ReadCandidates, At
  <2>3. ReuseGenuine' /\ OutputGenuine'
    BY <1>4, <2>1, <2>2
    DEF TruthInv, ReuseGenuine, OutputGenuine, Adopting, Written
  <2>4. /\ \A x \in seen'[r].current \cup seen'[r].elsewhere : Genuine(x)
        /\ stage'[r] = "decide" =>
             \A x \in seen'[r].elsewhere : x.version = job[r].version
    <3>1. CASE Probe(r)
      <4>1. /\ seen'[r].current = seen[r].current
            /\ seen'[r].elsewhere = seen[r].elsewhere
            /\ stage'[r] = "scope"
        BY <1>1, <3>1 DEF TypeOK, Probe, At
      <4> QED
        BY <4>1 DEF TruthInv, EvidenceGenuine
    <3>2. CASE ReadScope(r)
      <4>1. /\ seen'[r].current = Scope(job[r].env)
            /\ seen'[r].elsewhere = seen[r].elsewhere
            /\ stage'[r] = "candidates"
        BY <1>1, <3>2 DEF TypeOK, ReadScope, At
      <4>2. Scope(job[r].env) \subseteq rows
        BY DEF Scope
      <4> QED
        BY <4>1, <4>2 DEF TruthInv, EvidenceGenuine, RowsGenuine
    <3>3. CASE ReadCandidates(r)
      <4>1. /\ seen'[r].current = seen[r].current
            /\ seen'[r].elsewhere = Elsewhere(r)
        BY <1>1, <3>3 DEF TypeOK, ReadCandidates
      <4>2. Elsewhere(r) \subseteq {x \in rows : x.version = job[r].version}
        BY DEF Elsewhere
      <4> QED
        BY <4>1, <4>2 DEF TruthInv, EvidenceGenuine, RowsGenuine
    <3> QED
      BY <1>6, <3>1, <3>2, <3>3
  <2>5. EvidenceGenuine' /\ CandidatesWanted'
    BY <1>4, <2>1, <2>2, <2>4 DEF TruthInv, EvidenceGenuine, CandidatesWanted
  <2> QED
    BY <1>1, <1>3, <2>3, <2>5 DEF TruthInv
<1> QED
  BY <1>5, <1>6

\* What may be adopted was recorded for the version the run is to leave, and
\* names what the relation was read to hold.
LEMMA AdoptableGenuine ==
    ASSUME TruthInv, NEW r \in Runs, stage[r] = "decide", NEW live,
           NEW x \in Adoptable(job[r], seen[r], live)
    PROVE  Genuine(x) /\ x.version = job[r].version /\ x.identity = live
<1>1. CASE x \in Shared(job[r], seen[r], live)
  <2>1. x \in seen[r].elsewhere /\ x.identity = live
    BY <1>1 DEF Shared
  <2> QED
    BY <2>1 DEF TruthInv, EvidenceGenuine, CandidatesWanted
<1>2. CASE x \in Moved(job[r], seen[r], live)
  <2>1. /\ x \in seen[r].current /\ x.identity = live
        /\ x.version = job[r].version
    BY <1>2 DEF Moved
  <2> QED
    BY <2>1 DEF TruthInv, EvidenceGenuine
<1> QED
  BY <1>1, <1>2 DEF Adoptable

LEMMA TruthDecide ==
    ASSUME TruthInv, NEW r \in Runs, Decide(r)
    PROVE  TruthInv'
<1> USE DEF world, store
<1>1. TypeOK /\ TypeOK'
  BY TypeDecide DEF TruthInv
<1>2. Grows /\ RowsGenuine'
  BY <1>1, SameHolds, TruthKept DEF Decide
<1>3. \A x : Genuine(x) => Genuine(x)'
  BY <1>1, <1>2, GenuineStays
<1>4. UNCHANGED <<holds, job, output>> /\ seen' = [seen EXCEPT ![r] = NoEvidence]
  BY DEF Decide
<1>5. stage[r] = "decide"
  BY DEF Decide, At
<1>6. /\ stage'[r] \in Planned
      /\ \A q \in Runs : q # r => stage'[q] = stage[q]
  <2>1. \A live : Verdict(job[r], seen[r], live) \in Planned
    BY DEF Verdict, Planned
  <2>2. \E to \in Planned : stage' = [stage EXCEPT ![r] = to]
    <3>1. PICK live \in Snapshots :
            \/ stage' = [stage EXCEPT ![r] = "keep"]
            \/ stage' = [stage EXCEPT ![r] = Verdict(job[r], seen[r], live)]
            \/ stage' = [stage EXCEPT ![r] = "cached"]
            \/ stage' = [stage EXCEPT ![r] = "build"]
      BY DEF Decide, At
    <3>2. {"keep", "cached", "build"} \subseteq Planned
      BY DEF Planned
    <3> QED
      BY <2>1, <3>1, <3>2
  <2> QED
    BY <1>1, <2>2 DEF TypeOK
<1>7. EvidenceGenuine' /\ CandidatesWanted'
  <2>1. \A q \in Runs : q # r => seen'[q] = seen[q]
    BY <1>1, <1>4 DEF TypeOK
  <2>2. seen'[r].current = {} /\ seen'[r].elsewhere = {}
    BY <1>1, <1>4 DEF TypeOK, NoEvidence
  <2> QED
    BY <1>3, <1>4, <1>6, <2>1, <2>2
    DEF TruthInv, EvidenceGenuine, CandidatesWanted
<1>8. ReuseGenuine'
  <2>1. \/ UNCHANGED reuse /\ stage' # [stage EXCEPT ![r] = "cached"]
        \/ \E live : \E x \in Adoptable(job[r], seen[r], live) :
               reuse' = [reuse EXCEPT ![r] = {x}]
    <3>1. PICK live \in Snapshots :
            \/ At(r, "decide", "keep") /\ UNCHANGED reuse
            \/ /\ Verdict(job[r], seen[r], live) # "cached"
               /\ At(r, "decide", Verdict(job[r], seen[r], live))
               /\ UNCHANGED reuse
            \/ \E x \in Adoptable(job[r], seen[r], live) :
                   reuse' = [reuse EXCEPT ![r] = {x}]
            \/ At(r, "decide", "build") /\ UNCHANGED reuse
      BY DEF Decide
    <3>2. ASSUME NEW to \in {"keep", "build", Verdict(job[r], seen[r], live)},
                 to # "cached", At(r, "decide", to)
          PROVE  stage' # [stage EXCEPT ![r] = "cached"]
      <4>1. stage'[r] = to
        BY <1>1, <3>2 DEF At, TypeOK
      <4>2. [stage EXCEPT ![r] = "cached"][r] = "cached"
        BY <1>1 DEF TypeOK
      <4> QED
        BY <3>2, <4>1, <4>2
    <3> QED
      BY <3>1, <3>2
  <2>2. CASE UNCHANGED reuse /\ stage' # [stage EXCEPT ![r] = "cached"]
    <3>1. stage'[r] \notin Adopting
      <4>1. stage'[r] # "cached"
        <5> SUFFICES ASSUME stage'[r] = "cached" PROVE FALSE
          OBVIOUS
        <5>1. stage' = [stage EXCEPT ![r] = "cached"]
          BY <1>1, <1>6 DEF TypeOK
        <5> QED
          BY <2>2, <5>1
      <4> QED
        BY <1>6, <4>1 DEF Planned, Adopting
    <3> QED
      BY <1>3, <1>4, <1>6, <2>2, <3>1 DEF TruthInv, ReuseGenuine
  <2>3. ASSUME NEW live, NEW x \in Adoptable(job[r], seen[r], live),
               reuse' = [reuse EXCEPT ![r] = {x}]
        PROVE  ReuseGenuine'
    <3>1. Genuine(x) /\ x.version = job[r].version
      BY <1>5, AdoptableGenuine
    <3>2. reuse'[r] = {x} /\ \A q \in Runs : q # r => reuse'[q] = reuse[q]
      BY <1>1, <2>3 DEF TypeOK
    <3> QED
      BY <1>3, <1>4, <1>6, <3>1, <3>2 DEF TruthInv, ReuseGenuine
  <2> QED
    BY <2>1, <2>2, <2>3
<1>9. OutputGenuine'
  BY <1>4, <1>6 DEF TruthInv, OutputGenuine, Planned, Written
<1> QED
  BY <1>1, <1>2, <1>7, <1>8, <1>9 DEF TruthInv

LEMMA TruthExecute ==
    ASSUME TruthInv, NEW r \in Runs,
           \/ Refuse(r) \/ Apply(r) \/ Verify(r) \/ Adopt(r) \/ Finish(r)
           \/ Check(r) \/ Record(r) \/ Dies(r)
    PROVE  TruthInv'
<1> USE DEF world, store
<1>1. TypeOK /\ TypeOK'
  BY TypeExecute DEF TruthInv
<1>2. UNCHANGED <<holds, seen, job>>
  BY DEF Refuse, Apply, Verify, Adopt, Finish, Check, Record, Dies
<1>3. \A x : Genuine(x) => Genuine(x)'
  BY <1>1, <1>2, SameHolds, GenuineStays
<1>4. EvidenceGenuine'
  BY <1>1, <1>2, SameHolds, TruthKept
<1>5. /\ stage'[r] # "decide"
      /\ stage'[r] \in Adopting => stage[r] \in Adopting
      /\ stage'[r] \in Written => stage[r] \in Written
      /\ \A q \in Runs : q # r => stage'[q] = stage[q]
  <2>1. CASE Refuse(r) \/ Apply(r)
    BY <1>1, <2>1 DEF TypeOK, Refuse, Apply, At, Adopting, Written
  <2>2. CASE Verify(r)
    BY <1>1, <2>2 DEF TypeOK, Verify, At, Adopting, Written
  <2>3. CASE Adopt(r)
    BY <1>1, <2>3 DEF TypeOK, Adopt, At, Adopting, Written
  <2>4. CASE Finish(r) \/ Check(r) \/ Record(r) \/ Dies(r)
    BY <1>1, <2>4 DEF TypeOK, Finish, Check, Record, Dies, At, Adopting, Written
  <2> QED
    BY <2>1, <2>2, <2>3, <2>4
<1>6. CandidatesWanted'
  BY <1>2, <1>5 DEF TruthInv, CandidatesWanted
<1>7. \A q \in Runs : reuse'[q] = reuse[q] \/ reuse'[q] = {}
  <2>1. reuse' = reuse \/ \E q \in Runs : reuse' = [reuse EXCEPT ![q] = {}]
    BY DEF Refuse, Apply, Verify, Adopt, Finish, Check, Record, Dies
  <2> QED
    BY <1>1, <2>1 DEF TypeOK
<1>8. ReuseGenuine'
  BY <1>2, <1>3, <1>5, <1>7 DEF TruthInv, ReuseGenuine
<1>9. \A q \in Runs : output'[q].wrote = output[q].wrote
  <2>1. CASE UNCHANGED output
    BY <2>1
  <2>2. CASE output' = [output EXCEPT ![r].at = clock + 1]
    BY <1>1, <2>2 DEF TypeOK
  <2> QED
    BY <2>1, <2>2 DEF Refuse, Apply, Verify, Adopt, Finish, Check, Record, Dies
<1>10. OutputGenuine'
  BY <1>2, <1>5, <1>9 DEF TruthInv, OutputGenuine
<1>11. RowsGenuine'
  <2>1. CASE UNCHANGED rows
    BY <1>1, <1>2, <2>1, SameHolds, TruthKept
  <2>2. CASE Adopt(r)
    <3>1. PICK x \in reuse[r] : Upsert(Claim(r, x.identity, x.at, x.own))
      BY <2>2 DEF Adopt
    <3>2. Genuine(x) /\ x.version = job[r].version
      BY <2>2, <3>1 DEF TruthInv, ReuseGenuine, Adopt, At, Adopting
    <3>3. Genuine(Claim(r, x.identity, x.at, x.own))
      BY <3>2 DEF Genuine, Claim
    <3> QED
      BY <1>2, <3>1, <3>3, TruthUpsert DEF TruthInv
  <2>3. CASE Record(r)
    <3> DEFINE own == output[r].captured = output[r].wrote
               c == Claim(r, output[r].captured, output[r].at, own)
    <3>1. Upsert(c)
      BY <2>3 DEF Record
    <3>2. /\ output[r].wrote \in 1..Len(holds)
          /\ holds[output[r].wrote] = job[r].version
      BY <2>3 DEF TruthInv, OutputGenuine, Record, At, Written
    <3>3. c.own = own /\ c.identity = output[r].captured
          /\ c.version = job[r].version
      BY DEF Claim
    <3>4. Genuine(c)
      BY <3>2, <3>3 DEF Genuine
    <3> QED
      BY <1>2, <3>1, <3>4, TruthUpsert DEF TruthInv
  <2> QED
    BY <2>1, <2>2, <2>3 DEF Refuse, Apply, Verify, Finish, Check, Dies
<1> QED
  BY <1>1, <1>4, <1>6, <1>8, <1>10, <1>11 DEF TruthInv

LEMMA TruthBuild ==
    ASSUME TruthInv, NEW r \in Runs, Build(r) \/ Capture(r)
    PROVE  TruthInv'
<1>1. TypeOK /\ TypeOK'
  BY TypeBuild DEF TruthInv
<1>2. UNCHANGED <<rows, seen, reuse, job>>
  BY DEF Build, Capture
<1>3. /\ stage'[r] \in {"built", "captured"}
      /\ \A q \in Runs : q # r => stage'[q] = stage[q]
  BY <1>1 DEF TypeOK, Build, Capture, At
<1>4. Grows
  <2>1. CASE Build(r)
    <3>1. job[r].target \in Catalogs /\ job[r].version \in Versions
      BY <1>1 DEF TypeOK, Job
    <3>2. Len(holds') = Len(holds) + 1 /\ \A i \in 1..Len(holds) : holds'[i] = holds[i]
      BY <1>1, <2>1, <3>1, TypeWrite DEF Build
    <3> QED
      BY <1>1, <3>2 DEF Grows, TypeOK
  <2>2. CASE Capture(r)
    BY <1>1, <2>2, SameHolds DEF Capture, world
  <2> QED
    BY <2>1, <2>2
<1>5. RowsGenuine' /\ EvidenceGenuine'
  BY <1>2, <1>4, TruthKept
<1>6. \A x : Genuine(x) => Genuine(x)'
  BY <1>1, <1>4, GenuineStays
<1>7. CandidatesWanted' /\ ReuseGenuine'
  BY <1>2, <1>3, <1>6 DEF TruthInv, CandidatesWanted, ReuseGenuine, Adopting
<1>8. \A q \in Runs : q # r => output'[q] = output[q]
  BY <1>1 DEF TypeOK, Build, Capture
<1>9. output'[r].wrote \in 1..Len(holds') /\ holds'[output'[r].wrote] = job[r].version
  <2>1. CASE Build(r)
    <3>1. job[r].target \in Catalogs /\ job[r].version \in Versions
      BY <1>1 DEF TypeOK, Job
    <3>2. /\ Len(holds') = Len(holds) + 1
          /\ holds'[Len(holds) + 1] = job[r].version
      BY <1>1, <2>1, <3>1, TypeWrite DEF Build
    <3>3. output'[r].wrote = Len(holds) + 1
      BY <1>1, <2>1 DEF TypeOK, Build, NoOutput
    <3>4. Len(holds) \in Nat
      BY <1>1 DEF TypeOK
    <3> QED
      BY <3>2, <3>3, <3>4
  <2>2. CASE Capture(r)
    <3>1. output'[r].wrote = output[r].wrote /\ UNCHANGED holds
      BY <1>1, <2>2 DEF TypeOK, Capture, world
    <3>2. stage[r] \in Written
      BY <2>2 DEF Capture, At, Written
    <3> QED
      BY <3>1, <3>2 DEF TruthInv, OutputGenuine
  <2> QED
    BY <2>1, <2>2
<1>10. OutputGenuine'
  <2>1. Len(holds) \in Nat
    BY <1>1 DEF TypeOK
  <2> QED
    BY <1>2, <1>3, <1>4, <1>8, <1>9, <2>1 DEF TruthInv, OutputGenuine, Grows
<1> QED
  BY <1>1, <1>5, <1>7, <1>10 DEF TruthInv

LEMMA TruthWorld == ASSUME TruthInv, WorldStep PROVE TruthInv'
<1>1. TypeOK /\ TypeOK'
  BY TypeWorld DEF TruthInv
<1>2. UNCHANGED <<rows, stage, seen, reuse, output, job>>
  BY DEF WorldStep, Edit, Rebind, Inherit, Foreign, store, process
<1>3. Grows
  <2>1. CASE UNCHANGED holds
    BY <1>1, <2>1, SameHolds
  <2>2. ASSUME NEW c \in Catalogs, NewSnapshot(c, Unknown) PROVE Grows
    <3>1. Len(holds') = Len(holds) + 1 /\ \A i \in 1..Len(holds) : holds'[i] = holds[i]
      BY <1>1, <2>2, TypeWrite
    <3> QED
      BY <1>1, <3>1 DEF Grows, TypeOK
  <2> QED
    BY <2>1, <2>2 DEF WorldStep, Edit, Rebind, Inherit, Foreign
<1> QED
  BY <1>1, <1>2, <1>3, TruthKept DEF TruthInv

LEMMA TruthStep == TruthInv /\ [Next]_vars => TruthInv'
<1> SUFFICES ASSUME TruthInv, [Next]_vars PROVE TruthInv'
  OBVIOUS
<1>1. ASSUME NEW r \in Runs, RunStep(r) PROVE TruthInv'
  BY <1>1, TruthPlanning, TruthDecide, TruthExecute, TruthBuild DEF RunStep
<1>2. CASE WorldStep
  BY <1>2, TruthWorld
<1>3. CASE UNCHANGED vars
  <2>1. UNCHANGED <<holds, rows, stage, seen, reuse, output, job>>
    BY <1>3 DEF vars, world, store, process
  <2>2. TypeOK /\ TypeOK'
    BY TypeStep DEF TruthInv
  <2> QED
    BY <2>1, <2>2, SameHolds, TruthKept DEF TruthInv
<1> QED
  BY <1>1, <1>2, <1>3 DEF Next

LEMMA TruthAlways == Spec => []TruthInv
<1> QED
  BY TruthInit, TruthStep, PTL DEF Spec

\* A record that names a snapshot, made by a run that captured the snapshot it
\* wrote, or adopted from such a record any number of times, names one built
\* from the version it records.
THEOREM RecordsAreTruthful == Spec => []RowsTruthful
<1>1. TruthInv => RowsTruthful
  BY DEF TruthInv, RowsGenuine, Genuine, RowsTruthful, True
<1> QED
  BY <1>1, TruthAlways, PTL

\* A plan skips, and a run adopts, on the word of such a record only when the
\* relation holds the version wanted at the last reading of its identity.
LEMMA ReuseStep ==
    ASSUME TruthInv, [Next]_vars, NEW r \in Runs,
           \/ /\ stage[r] = "decide" /\ stage'[r] = "skip"
              /\ \A x \in seen[r].current : Vouched(x)
           \/ /\ stage[r] = "verify" /\ stage'[r] = "adopt"
              /\ \A x \in reuse[r] : Vouched(x)
    PROVE  Holds(r)
<1>1. TypeOK
  BY DEF TruthInv
<1>2. stage'[r] # stage[r]
  OBVIOUS
<1>3. ~WorldStep /\ ~UNCHANGED vars
  BY <1>2 DEF WorldStep, Edit, Rebind, Inherit, Foreign, process, vars
<1>4. PICK q \in Runs : RunStep(q)
  BY <1>3 DEF Next
<1>5. q = r
  BY <1>1, <1>2, <1>4
  DEF TypeOK, RunStep, Start, Resume, Probe, ReadScope, ReadCandidates, Decide,
      Refuse, Apply, Verify, Adopt, Build, Capture, Finish, Check, Record, Dies, At
<1>6. CASE stage[r] = "decide" /\ stage'[r] = "skip"
                                /\ \A x \in seen[r].current : Vouched(x)
  <2>1. Decide(r)
    BY <1>4, <1>5, <1>6
    DEF RunStep, Start, Resume, Probe, ReadScope, ReadCandidates, Refuse, Apply,
        Verify, Adopt, Build, Capture, Finish, Check, Record, Dies, At, Ended, Running
  <2>2. PICK live \in Snapshots :
          /\ IF Asked(job[r], seen[r]) THEN Reads(job[r].target, live)
             ELSE live = None /\ UNCHANGED bounds
          /\ Verdict(job[r], seen[r], live) = "skip"
    BY <1>1, <1>6, <2>1 DEF Decide, At, TypeOK
  <2>3. PICK x \in seen[r].current :
          /\ x.version = job[r].version /\ x.identity \in {None, live}
    BY <2>2 DEF Verdict, Unchanged
  <2>4. x.own /\ x.identity # None /\ x.identity = live
    BY <1>6, <2>3 DEF Vouched
  <2>5. live = snap[job[r].target]
    BY <2>2, <2>4 DEF Asked, Reads
  <2>6. Genuine(x)
    BY <2>3 DEF TruthInv, EvidenceGenuine
  <2> QED
    BY <2>3, <2>4, <2>5, <2>6 DEF Genuine, Holds
<1>7. CASE stage[r] = "verify" /\ stage'[r] = "adopt"
                                /\ \A x \in reuse[r] : Vouched(x)
  <2>1. Verify(r)
    BY <1>1, <1>4, <1>5, <1>7
    DEF TypeOK, RunStep, Start, Resume, Probe, ReadScope, ReadCandidates, Decide, Refuse,
        Apply, Adopt, Build, Capture, Finish, Check, Record, Dies, At, Ended
  <2>2. PICK live \in Snapshots :
          /\ Reads(job[r].target, live)
          /\ \E x \in reuse[r] : x.identity = live
    BY <1>1, <1>7, <2>1 DEF Verify, At, TypeOK
  <2>3. PICK x \in reuse[r] : x.identity = live
    BY <2>2
  <2>4. x.own /\ x.identity # None /\ live = snap[job[r].target]
    BY <1>7, <2>2, <2>3 DEF Vouched, Reads
  <2>5. Genuine(x) /\ x.version = job[r].version
    BY <1>7, <2>3 DEF TruthInv, ReuseGenuine, Adopting
  <2> QED
    BY <2>3, <2>4, <2>5 DEF Genuine, Holds
<1> QED
  BY <1>6, <1>7

THEOREM ReuseIsCurrent == Spec => OnlyCurrentIsReused
<1>1. TruthInv /\ [Next]_vars =>
        [\A r \in Runs :
            \/ /\ stage[r] = "decide" /\ stage'[r] = "skip"
               /\ \A x \in seen[r].current : Vouched(x)
            \/ /\ stage[r] = "verify" /\ stage'[r] = "adopt"
               /\ \A x \in reuse[r] : Vouched(x)
            => Holds(r)]_vars
  BY ReuseStep
<1> QED
  BY <1>1, TruthAlways, PTL DEF Spec, OnlyCurrentIsReused

-----------------------------------------------------------------------------
(***************************************************************************)
(* The record that stands.  Until somebody writes the relation again it    *)
(* holds what the run captured, so that whatever is recorded for it from   *)
(* then on, by builds that finish later and by adoptions, names that.      *)
(***************************************************************************)
\* What is on record of a build, or on its way there, was made by now.
Dated(x) == x.at <= clock /\ (x.own => x.identity # None)
DatedInv ==
    /\ \A x \in rows : Dated(x)
    /\ \A r \in Runs :
        /\ \A x \in seen[r].current \cup seen[r].elsewhere \cup reuse[r] : Dated(x)
        /\ \A x, y \in reuse[r] : x = y
        /\ output[r].at <= clock
        /\ stage[r] \in Written => output[r].wrote # None

\* A run that knows its own output where nobody wrote since.
Shown(r) == r \in intact /\ output[r].captured = output[r].wrote
Past == {"finished", "checked", "recorded"}
ShownInv == \A r \in Runs : Shown(r) /\ stage[r] \in {"captured"} \cup Past =>
    snap[job[r].target] = output[r].captured

\* What may be recorded over it.
Agrees(r, target, own, at, identity) ==
    own /\ target = job[r].target /\ at >= output[r].at => identity = output[r].captured
StandInv == \A r \in Runs : Shown(r) /\ stage[r] \in Past =>
    /\ \A x \in rows : Agrees(r, x.target, x.own, x.at, x.identity)
    /\ \A q \in Runs :
        /\ stage[q] = "adopt" => \A x \in reuse[q] :
                Agrees(r, job[q].target, x.own, x.at, x.identity)
        /\ stage[q] = "checked" =>
                Agrees(r, job[q].target, output[q].captured = output[q].wrote,
                       output[q].at, output[q].captured)
LeftInv == \A r \in Runs : stage[r] = "recorded" =>
    \E x \in rows : x.env = job[r].env /\ x.at >= output[r].at

RecordInv == DatedInv /\ ShownInv /\ StandInv /\ LeftInv

\* A run is moved by its own steps, and loses its place when somebody writes.
LEMMA RunMoves ==
    ASSUME TypeOK, [Next]_vars, NEW q \in Runs, ~RunStep(q)
    PROVE  /\ stage'[q] = stage[q] /\ job'[q] = job[q] /\ seen'[q] = seen[q]
           /\ reuse'[q] = reuse[q] /\ output'[q] = output[q]
           /\ q \in intact' => q \in intact
<1> USE DEF world, store, bounds
<1>1. ASSUME NEW r \in Runs, RunStep(r)
      PROVE  /\ stage'[q] = stage[q] /\ job'[q] = job[q] /\ seen'[q] = seen[q]
             /\ reuse'[q] = reuse[q] /\ output'[q] = output[q]
             /\ q \in intact' => q \in intact
  <2>0. q # r
    BY <1>1
  <2>1. stage'[q] = stage[q]
    BY <1>1, <2>0
       DEF TypeOK, RunStep, Start, Resume, Probe, ReadScope, ReadCandidates, Decide,
           Refuse, Apply, Verify, Adopt, Build, Capture, Finish, Check, Record, Dies, At
  <2>2. job'[q] = job[q] /\ seen'[q] = seen[q]
    BY <1>1, <2>0
       DEF TypeOK, RunStep, Start, Resume, Probe, ReadScope, ReadCandidates, Decide,
           Refuse, Apply, Verify, Adopt, Build, Capture, Finish, Check, Record, Dies
  <2>3. reuse'[q] = reuse[q] /\ output'[q] = output[q]
    BY <1>1, <2>0
       DEF TypeOK, RunStep, Start, Resume, Probe, ReadScope, ReadCandidates, Decide,
           Refuse, Apply, Verify, Adopt, Build, Capture, Finish, Check, Record, Dies
  <2>4. q \in intact' => q \in intact
    BY <1>1, <2>0
       DEF RunStep, Start, Resume, Probe, ReadScope, ReadCandidates, Decide, Refuse,
           Apply, Verify, Adopt, Build, NewSnapshot, Writes, Capture, Finish, Check,
           Record, Dies
  <2> QED
    BY <2>1, <2>2, <2>3, <2>4
<1>2. CASE WorldStep \/ UNCHANGED vars
  BY <1>2
     DEF WorldStep, Edit, Rebind, Inherit, Foreign, NewSnapshot, Writes, vars, process
<1> QED
  BY <1>1, <1>2 DEF Next

LEMMA StoreMoves ==
    ASSUME TypeOK, [Next]_vars
    PROVE  /\ rows' = rows \/ \E r \in Runs : Adopt(r) \/ Record(r)
           /\ clock' = clock \/ \E r \in Runs : Finish(r)
           /\ \A q \in Runs : q \in intact /\ q \in intact' =>
                snap'[job[q].target] = snap[job[q].target]
<1> USE DEF world, store, bounds
<1>1. ASSUME NEW q \in Runs, q \in intact', NEW c \in Catalogs, NEW s, Writes(c, s)
      PROVE  snap'[job[q].target] = snap[job[q].target]
  BY <1>1 DEF Writes, TypeOK
<1>2. ASSUME NEW r \in Runs, RunStep(r)
      PROVE  /\ rows' = rows \/ Adopt(r) \/ Record(r)
             /\ clock' = clock \/ Finish(r)
             /\ \A q \in Runs : q \in intact' => snap'[job[q].target] = snap[job[q].target]
  <2>1. CASE Build(r)
    <3>1. job[r].target \in Catalogs
      BY DEF TypeOK, Job
    <3> QED
      BY <1>1, <2>1, <3>1 DEF Build, NewSnapshot
  <2>2. CASE ~Build(r)
    BY <1>2, <2>2
       DEF RunStep, Start, Resume, Probe, ReadScope, ReadCandidates, Decide, Refuse, Apply,
           Verify, Adopt, Capture, Finish, Check, Record, Dies
  <2> QED
    BY <2>1, <2>2
<1>3. CASE WorldStep \/ UNCHANGED vars
  <2>1. rows' = rows /\ clock' = clock
    BY <1>3 DEF WorldStep, Edit, Rebind, Inherit, Foreign, vars
  <2>2. ASSUME NEW q \in Runs, q \in intact'
        PROVE  snap'[job[q].target] = snap[job[q].target]
    BY <1>1, <1>3, <2>2
       DEF WorldStep, Edit, Rebind, Inherit, Foreign, NewSnapshot, vars
  <2> QED
    BY <2>1, <2>2
<1> QED
  BY <1>2, <1>3 DEF Next

\* Every step of a run, by the stage it takes it to.
LEMMA StageMoves ==
    ASSUME TypeOK, NEW r \in Runs, RunStep(r)
    PROVE  /\ stage'[r] = "adopt" => Verify(r)
           /\ stage'[r] = "built" => Build(r)
           /\ stage'[r] = "captured" => Capture(r)
           /\ stage'[r] = "finished" => Finish(r)
           /\ stage'[r] = "checked" => Check(r)
           /\ stage'[r] = "recorded" => Record(r)
<1> USE DEF At, TypeOK
<1>1. CASE Decide(r)
  <2>1. \A j, ev, live : Verdict(j, ev, live) \in {"build", "skip", "cached"}
    BY DEF Verdict
  <2>2. \E live \in Snapshots :
            \/ At(r, "decide", "keep")
            \/ At(r, "decide", Verdict(job[r], seen[r], live))
            \/ At(r, "decide", "cached") \/ At(r, "decide", "build")
    BY <1>1 DEF Decide
  <2>3. stage'[r] \in {"keep", "build", "skip", "cached"}
    BY <2>1, <2>2
  <2> QED
    BY <2>3
<1>2. CASE (\E e \in Envs : Start(r, e)) \/ Resume(r) \/ Probe(r) \/ ReadScope(r)
           \/ ReadCandidates(r) \/ Refuse(r) \/ Apply(r) \/ Adopt(r) \/ Dies(r)
  <2>1. stage'[r] \in {"probe", "scope", "candidates", "decide", "refused", "building",
                       "verify", "kept", "skipped", "adopted", "dead"}
    BY <1>2
       DEF Start, Resume, Probe, ReadScope, ReadCandidates, Refuse, Apply, Adopt, Dies
  <2> QED
    BY <2>1
<1>3. CASE Verify(r)
  <2>1. stage'[r] \in {"adopt", "building"}
    BY <1>3 DEF Verify
  <2> QED
    BY <1>3, <2>1
<1>4. CASE Build(r) \/ Capture(r) \/ Finish(r) \/ Record(r)
  BY <1>4 DEF Build, Capture, Finish, Record
<1>5. CASE Check(r)
  <2>1. stage'[r] \in {"checked", "yielded"}
    BY <1>5 DEF Check
  <2> QED
    BY <1>5, <2>1
<1> QED
  BY <1>1, <1>2, <1>3, <1>4, <1>5 DEF RunStep

LEMMA UpsertMoves ==
    ASSUME NEW x, Upsert(x)
    PROVE  rows' \subseteq rows \cup {x}
  BY DEF Upsert

LEMMA ClaimIs ==
    ASSUME NEW r, NEW i, NEW a, NEW o
    PROVE  /\ Claim(r, i, a, o).env = job[r].env /\ Claim(r, i, a, o).target = job[r].target
           /\ Claim(r, i, a, o).identity = i /\ Claim(r, i, a, o).at = a
           /\ Claim(r, i, a, o).own = o
  BY DEF Claim

LEMMA RecordInvInit == Init => RecordInv
<1> SUFFICES ASSUME Init PROVE RecordInv
  OBVIOUS
<1>1. \A x \in rows : x.at = 0 /\ x.own = FALSE
  BY DEF Init
<1>2. clock = 0 /\ \A r \in Runs : output[r].at = 0 /\ stage[r] = "idle" /\ reuse[r] = {}
  BY DEF Init, NoOutput
<1>3. \A r \in Runs : seen[r].current = {} /\ seen[r].elsewhere = {}
  BY DEF Init, NoEvidence
<1>4. DatedInv
  BY <1>1, <1>2, <1>3 DEF DatedInv, Dated, Written
<1>5. ShownInv /\ StandInv /\ LeftInv
  BY <1>2 DEF ShownInv, StandInv, LeftInv, Past
<1> QED
  BY <1>4, <1>5 DEF RecordInv

LEMMA DatedStep ==
    ASSUME TypeOK, DatedInv, [Next]_vars
    PROVE  DatedInv'
<1> DEFINE New(x) == x.at <= clock' /\ (x.own => x.identity # None)
<1>0. /\ stage \in [Runs -> Stage] /\ job \in [Runs -> Job]
      /\ seen \in [Runs -> [exists : BOOLEAN, current : SUBSET Row, elsewhere : SUBSET Row]]
      /\ reuse \in [Runs -> SUBSET Row]
      /\ output \in [Runs -> [wrote : Nat, captured : Nat, at : Nat]]
      /\ rows \subseteq Row /\ clock \in Nat /\ Len(holds) \in Nat
  BY DEF TypeOK
<1>1. clock' \in Nat /\ clock <= clock'
  BY <1>0, StoreMoves DEF Finish
<1>2. ASSUME NEW x, x.at \in Nat, Dated(x) PROVE New(x)
  BY <1>0, <1>1, <1>2 DEF Dated
<1> HIDE DEF New
<1>3. ASSUME NEW x \in rows' PROVE New(x)
  <2>1. CASE x \in rows
    <3>1. x.at \in Nat /\ Dated(x)
      BY <1>0, <2>1 DEF Row, DatedInv
    <3> QED
      BY <1>2, <3>1
  <2>2. ASSUME NEW r \in Runs, Adopt(r), x \notin rows PROVE New(x)
    <3>1. PICK y \in reuse[r] : Upsert(Claim(r, y.identity, y.at, y.own))
      BY <2>2 DEF Adopt
    <3>2. x = Claim(r, y.identity, y.at, y.own)
      BY <1>3, <2>2, <3>1, UpsertMoves
    <3>3. y.at \in Nat /\ Dated(y)
      BY <1>0, <3>1 DEF Row, DatedInv
    <3>4. x.at = y.at /\ x.own = y.own /\ x.identity = y.identity
      BY <3>2, ClaimIs
    <3>5. x.at \in Nat /\ Dated(x)
      BY <3>3, <3>4 DEF Dated
    <3> QED
      BY <1>2, <3>5
  <2>3. ASSUME NEW r \in Runs, Record(r), x \notin rows PROVE New(x)
    <3> DEFINE own == output[r].captured = output[r].wrote
    <3>1. Upsert(Claim(r, output[r].captured, output[r].at, own)) /\ stage[r] = "checked"
      BY <2>3 DEF Record, At
    <3>2. x = Claim(r, output[r].captured, output[r].at, own)
      BY <1>3, <2>3, <3>1, UpsertMoves
    <3>3. x.at = output[r].at /\ x.own = own /\ x.identity = output[r].captured
      BY <3>2, ClaimIs
    <3>4. output[r].at \in Nat /\ output[r].at <= clock /\ output[r].wrote # None
      BY <1>0, <3>1 DEF DatedInv, Written
    <3>5. x.at \in Nat /\ Dated(x)
      BY <3>3, <3>4 DEF Dated
    <3> QED
      BY <1>2, <3>5
  <2> QED
    BY <1>3, <2>1, <2>2, <2>3, StoreMoves
<1>4. ASSUME NEW r \in Runs, NEW x \in seen[r].current \cup seen[r].elsewhere \cup reuse[r]
      PROVE  New(x)
  <2>1. x.at \in Nat /\ Dated(x)
    BY <1>0, <1>4 DEF Row, DatedInv
  <2> QED
    BY <1>2, <2>1
<1>5. ASSUME NEW x \in rows PROVE New(x)
  <2>1. x.at \in Nat /\ Dated(x)
    BY <1>0, <1>5 DEF Row, DatedInv
  <2> QED
    BY <1>2, <2>1
<1>6. ASSUME NEW r \in Runs
      PROVE  /\ \A x \in seen'[r].current \cup seen'[r].elsewhere \cup reuse'[r] : New(x)
             /\ \A x, y \in reuse'[r] : x = y
  <2>1. CASE ~RunStep(r)
    BY <1>4, <2>1, RunMoves DEF DatedInv
  <2>2. CASE RunStep(r)
    <3>1. /\ seen'[r].current \subseteq seen[r].current \cup rows
          /\ seen'[r].elsewhere \subseteq seen[r].elsewhere \cup rows
      <4>0. /\ seen[r] \in [exists : BOOLEAN, current : SUBSET Row, elsewhere : SUBSET Row]
            /\ \A f : (seen' = [seen EXCEPT ![r] = f]) => seen'[r] = f
        BY <1>0
      <4>1. CASE seen' = seen
        BY <4>1
      <4>2. CASE Probe(r)
        <5>1. \E b : seen'[r] = [seen[r] EXCEPT !.exists = b]
          BY <1>0, <4>2 DEF Probe
        <5> QED
          BY <4>0, <5>1
      <4>3. CASE ReadScope(r)
        <5>1. seen'[r] = [seen[r] EXCEPT !.current = Scope(job[r].env)]
          BY <1>0, <4>3 DEF ReadScope
        <5>2. Scope(job[r].env) \subseteq rows
          BY DEF Scope
        <5> QED
          BY <4>0, <5>1, <5>2
      <4>4. CASE ReadCandidates(r)
        <5>1. seen'[r] = [seen[r] EXCEPT !.elsewhere = Elsewhere(r)]
          BY <1>0, <4>4 DEF ReadCandidates
        <5>2. Elsewhere(r) \subseteq rows
          BY DEF Elsewhere
        <5> QED
          BY <4>0, <5>1, <5>2
      <4>5. CASE Decide(r)
        <5>1. seen'[r] = NoEvidence
          BY <4>0, <4>5 DEF Decide
        <5> QED
          BY <5>1 DEF NoEvidence
      <4>6. seen' = seen \/ Probe(r) \/ ReadScope(r) \/ ReadCandidates(r) \/ Decide(r)
        BY <2>2
           DEF RunStep, Start, Resume, Refuse, Apply, Verify, Adopt, Build, Capture,
               Finish, Check, Record, Dies
      <4> QED
        BY <4>1, <4>2, <4>3, <4>4, <4>5, <4>6
    <3>3. \/ reuse'[r] \subseteq reuse[r]
          \/ \E x \in seen[r].current \cup seen[r].elsewhere : reuse'[r] = {x}
      <4>1. CASE Decide(r)
        <5>1. \A live : Adoptable(job[r], seen[r], live) \subseteq
                            seen[r].current \cup seen[r].elsewhere
          BY DEF Adoptable, Shared, Moved
        <5>2. \/ UNCHANGED reuse
              \/ \E live \in Snapshots : \E x \in Adoptable(job[r], seen[r], live) :
                    reuse' = [reuse EXCEPT ![r] = {x}]
          BY <4>1 DEF Decide
        <5> QED
          BY <1>0, <5>1, <5>2
      <4>2. CASE ~Decide(r)
        BY <1>0, <2>2, <4>2
           DEF RunStep, Start, Resume, Probe, ReadScope, ReadCandidates, Refuse, Apply,
               Verify, Adopt, Build, Capture, Finish, Check, Record, Dies
      <4> QED
        BY <4>1, <4>2
    <3>4. \A x, y \in reuse'[r] : x = y
      BY <3>3 DEF DatedInv
    <3> QED
      BY <1>4, <1>5, <3>1, <3>3, <3>4
  <2> QED
    BY <2>1, <2>2
<1>7. ASSUME NEW r \in Runs PROVE output'[r].at <= clock'
  <2>1. output[r].at \in Nat /\ output[r].at <= clock
    BY <1>0 DEF DatedInv
  <2>2. CASE ~RunStep(r)
    BY <1>0, <1>1, <2>1, <2>2, RunMoves
  <2>3. CASE RunStep(r) /\ Finish(r)
    BY <1>0, <2>3 DEF Finish
  <2>4. CASE RunStep(r) /\ ~Finish(r)
    <3>1. CASE output' = output
      BY <1>0, <1>1, <2>1, <3>1
    <3>2. CASE Capture(r)
      <4>1. output'[r].at = output[r].at
        BY <1>0, <3>2 DEF Capture
      <4> QED
        BY <1>0, <1>1, <2>1, <4>1
    <3>3. CASE Build(r) \/ \E e \in Envs : Start(r, e)
      <4>1. ASSUME Build(r) PROVE output'[r].at = 0
        <5>1. output'[r] = [NoOutput EXCEPT !.wrote = Len(holds) + 1]
          BY <1>0, <4>1 DEF Build
        <5> QED
          BY <5>1 DEF NoOutput
      <4>2. ASSUME NEW e \in Envs, Start(r, e) PROVE output'[r].at = 0
        BY <1>0, <4>2 DEF Start, NoOutput
      <4> QED
        BY <1>0, <1>1, <3>3, <4>1, <4>2
    <3> QED
      BY <2>4, <3>1, <3>2, <3>3
         DEF RunStep, Resume, Probe, ReadScope, ReadCandidates, Decide, Refuse, Apply,
             Verify, Adopt, Check, Record, Dies
  <2> QED
    BY <2>2, <2>3, <2>4
<1>8. ASSUME NEW r \in Runs, stage'[r] \in Written PROVE output'[r].wrote # None
  <2>1. CASE ~RunStep(r)
    BY <1>8, <2>1, RunMoves DEF DatedInv
  <2>2. CASE RunStep(r)
    <3>1. CASE Build(r)
      BY <1>0, <3>1 DEF Build, NoOutput, None
    <3>2. CASE Capture(r) \/ Finish(r) \/ Check(r)
      <4>1. stage[r] \in Written
        BY <3>2 DEF Capture, Finish, Check, At, Written
      <4>2. output'[r].wrote = output[r].wrote
        BY <1>0, <3>2 DEF Capture, Finish, Check
      <4> QED
        BY <4>1, <4>2 DEF DatedInv
    <3> QED
      BY <1>8, <2>2, <3>1, <3>2, StageMoves DEF Written
  <2> QED
    BY <2>1, <2>2
<1> QED
  BY <1>3, <1>6, <1>7, <1>8 DEF DatedInv, Dated, New

LEMMA ShownStep ==
    ASSUME TypeOK, DatedInv, ShownInv, [Next]_vars
    PROVE  ShownInv'
<1>0. /\ output \in [Runs -> [wrote : Nat, captured : Nat, at : Nat]]
      /\ stage \in [Runs -> Stage]
  BY DEF TypeOK
<1> SUFFICES ASSUME NEW r \in Runs, r \in intact', output'[r].captured = output'[r].wrote,
                    stage'[r] \in {"captured"} \cup Past
             PROVE  snap'[job'[r].target] = output'[r].captured
  BY DEF ShownInv, Shown
<1>1. CASE ~RunStep(r)
  <2>1. /\ stage'[r] = stage[r] /\ job'[r] = job[r] /\ output'[r] = output[r]
        /\ r \in intact
    BY <1>1, RunMoves
  <2>2. snap'[job[r].target] = snap[job[r].target]
    BY <2>1, StoreMoves
  <2> QED
    BY <2>1, <2>2 DEF ShownInv, Shown
<1>2. CASE RunStep(r) /\ stage'[r] = "captured"
  <2>1. Capture(r)
    BY <1>2, StageMoves
  <2>2. PICK live \in Snapshots :
          Reads(job[r].target, live) /\ output' = [output EXCEPT ![r].captured = live]
    BY <2>1 DEF Capture
  <2>3. output'[r].captured = live /\ output'[r].wrote = output[r].wrote
    BY <1>0, <2>2
  <2>4. output[r].wrote # None
    BY <2>1 DEF Capture, At, DatedInv, Written
  <2>5. live = snap[job[r].target]
    BY <2>2, <2>3, <2>4 DEF Reads
  <2>6. snap' = snap /\ job' = job
    BY <2>1 DEF Capture, world
  <2> QED
    BY <2>3, <2>5, <2>6
<1>3. CASE RunStep(r) /\ stage'[r] \in Past
  <2>1. Finish(r) \/ Check(r) \/ Record(r)
    BY <1>3, StageMoves DEF Past
  <2>2. /\ snap' = snap /\ job' = job /\ intact' = intact
        /\ stage[r] \in {"captured"} \cup Past
    BY <2>1 DEF Finish, Check, Record, At, Past, world
  <2>3. output'[r].captured = output[r].captured /\ output'[r].wrote = output[r].wrote
    BY <1>0, <2>1 DEF Finish, Check, Record
  <2> QED
    BY <2>2, <2>3 DEF ShownInv, Shown
<1> QED
  BY <1>1, <1>2, <1>3

\* A finished run is dated after everything on record or about to be; what is
\* added later comes from a run that read the same snapshot, or none.
LEMMA StandStep ==
    ASSUME TypeOK, DatedInv, ShownInv, StandInv, [Next]_vars
    PROVE  StandInv'
<1>0. /\ output \in [Runs -> [wrote : Nat, captured : Nat, at : Nat]]
      /\ reuse \in [Runs -> SUBSET Row] /\ stage \in [Runs -> Stage]
      /\ rows \subseteq Row /\ clock \in Nat
  BY DEF TypeOK
<1> SUFFICES ASSUME NEW r \in Runs, Shown(r)', stage'[r] \in Past
             PROVE  /\ \A x \in rows' : Agrees(r, x.target, x.own, x.at, x.identity)'
                    /\ \A q \in Runs :
                        /\ stage'[q] = "adopt" => \A x \in reuse'[q] :
                             Agrees(r, job[q].target, x.own, x.at, x.identity)'
                        /\ stage'[q] = "checked" =>
                             Agrees(r, job[q].target, output[q].captured = output[q].wrote,
                                    output[q].at, output[q].captured)'
  BY DEF StandInv
<1> DEFINE Ok(target, own, at, identity) ==
             own /\ target = job'[r].target /\ at >= output'[r].at
             => identity = output'[r].captured
<1> SUFFICES /\ \A x \in rows' : Ok(x.target, x.own, x.at, x.identity)
             /\ \A q \in Runs :
                 /\ stage'[q] = "adopt" => \A x \in reuse'[q] :
                      Ok(job'[q].target, x.own, x.at, x.identity)
                 /\ stage'[q] = "checked" =>
                      Ok(job'[q].target, output'[q].captured = output'[q].wrote,
                         output'[q].at, output'[q].captured)
  BY DEF Agrees
<1>1. CASE RunStep(r) /\ stage'[r] = "finished"
  <2>1. Finish(r)
    BY <1>1, StageMoves
  <2>2. /\ output'[r].at = clock + 1 /\ rows' = rows /\ reuse' = reuse
        /\ \A q \in Runs : q # r => output'[q] = output[q] /\ stage'[q] = stage[q]
    BY <1>0, <2>1 DEF Finish, store, At
  <2>3. \A x \in rows : x.at \in Nat /\ x.at <= clock
    BY <1>0 DEF DatedInv, Dated, Row
  <2>4. \A q \in Runs : \A x \in reuse[q] : x.at \in Nat /\ x.at <= clock
    BY <1>0 DEF DatedInv, Dated, Row
  <2>5. \A q \in Runs : output[q].at \in Nat /\ output[q].at <= clock
    BY <1>0 DEF DatedInv
  <2>6. \A n \in Nat : n <= clock => ~(n >= output'[r].at)
    BY <1>0, <2>2
  <2> QED
    BY <1>1, <2>2, <2>3, <2>4, <2>5, <2>6
<1> DEFINE Was(target, own, at, identity) ==
             own /\ target = job[r].target /\ at >= output[r].at
             => identity = output[r].captured
<1>2. ASSUME Shown(r), stage[r] \in Past
      PROVE  /\ \A x \in rows : Was(x.target, x.own, x.at, x.identity)
             /\ \A q \in Runs :
                 /\ stage[q] = "adopt" => \A x \in reuse[q] :
                      Was(job[q].target, x.own, x.at, x.identity)
                 /\ stage[q] = "checked" =>
                      Was(job[q].target, output[q].captured = output[q].wrote,
                          output[q].at, output[q].captured)
  BY <1>2 DEF StandInv, Agrees
<1> HIDE DEF Was, Ok
<1>3. CASE RunStep(r) /\ stage'[r] \in {"checked", "recorded"}
  <2>1. Check(r) \/ Record(r)
    BY <1>3, StageMoves
  <2>2. /\ job' = job /\ output' = output /\ intact' = intact /\ reuse' = reuse
        /\ stage[r] \in Past
        /\ \A q \in Runs : q # r => stage'[q] = stage[q]
    BY <1>0, <2>1 DEF Check, Record, At, Past
  <2>3. Shown(r)
    BY <2>2 DEF Shown
  <2>4. \A t, o, a, i : Was(t, o, a, i) => Ok(t, o, a, i)
    BY <2>2 DEF Was, Ok
  <2>5. \A t, o, a : Ok(t, o, a, output[r].captured)
    BY <2>2 DEF Ok
  <2>6. ASSUME NEW x \in rows' PROVE Ok(x.target, x.own, x.at, x.identity)
    <3>1. CASE x \in rows
      BY <1>2, <2>2, <2>3, <2>4, <3>1
    <3>2. CASE x \notin rows
      <4>1. Record(r)
        BY <2>1, <2>6, <3>2 DEF Check, store
      <4>2. x.identity = output[r].captured
        BY <2>6, <3>2, <4>1, UpsertMoves, ClaimIs DEF Record
      <4> QED
        BY <2>5, <4>2
    <3> QED
      BY <3>1, <3>2
  <2>7. ASSUME NEW q \in Runs
        PROVE  /\ stage'[q] = "adopt" => \A x \in reuse'[q] :
                    Ok(job'[q].target, x.own, x.at, x.identity)
               /\ stage'[q] = "checked" =>
                    Ok(job'[q].target, output'[q].captured = output'[q].wrote,
                       output'[q].at, output'[q].captured)
    <3>1. CASE q = r
      BY <1>3, <2>2, <2>5, <3>1
    <3>2. CASE q # r
      BY <1>2, <2>2, <2>3, <2>4, <3>2
    <3> QED
      BY <3>1, <3>2
  <2> QED
    BY <2>6, <2>7
<1>4. CASE ~RunStep(r)
  <2>1. /\ job'[r] = job[r] /\ output'[r] = output[r] /\ stage'[r] = stage[r]
        /\ r \in intact /\ r \in intact'
    BY <1>4, RunMoves DEF Shown
  <2>2. Shown(r) /\ stage[r] \in Past
    BY <2>1 DEF Shown
  <2>3. snap[job[r].target] = output[r].captured
    BY <2>2 DEF ShownInv
  <2>4. \A t, o, a, i : Was(t, o, a, i) => Ok(t, o, a, i)
    BY <2>1 DEF Was, Ok
  <2>5. ASSUME NEW t, NEW o, NEW a, NEW i, o /\ t = job[r].target => i = snap[t]
        PROVE  Ok(t, o, a, i)
    BY <2>1, <2>3, <2>5 DEF Ok
  <2>6. ASSUME NEW x \in rows' PROVE Ok(x.target, x.own, x.at, x.identity)
    <3>1. CASE x \in rows
      BY <1>2, <2>2, <2>4, <3>1
    <3>2. ASSUME NEW q \in Runs, Adopt(q), x \notin rows
          PROVE  Ok(x.target, x.own, x.at, x.identity)
      <4>1. PICK y \in reuse[q] : Upsert(Claim(q, y.identity, y.at, y.own))
        BY <3>2 DEF Adopt
      <4>2. x = Claim(q, y.identity, y.at, y.own)
        BY <2>6, <3>2, <4>1, UpsertMoves
      <4>3. /\ x.target = job[q].target /\ x.own = y.own /\ x.at = y.at
            /\ x.identity = y.identity
        BY <4>2, ClaimIs
      <4>4. stage[q] = "adopt"
        BY <3>2 DEF Adopt, At
      <4> QED
        BY <1>2, <2>2, <2>4, <4>1, <4>3, <4>4
    <3>3. ASSUME NEW q \in Runs, Record(q), x \notin rows
          PROVE  Ok(x.target, x.own, x.at, x.identity)
      <4> DEFINE own == output[q].captured = output[q].wrote
      <4>1. Upsert(Claim(q, output[q].captured, output[q].at, own)) /\ stage[q] = "checked"
        BY <3>3 DEF Record, At
      <4>2. x = Claim(q, output[q].captured, output[q].at, own)
        BY <2>6, <3>3, <4>1, UpsertMoves
      <4>3. /\ x.target = job[q].target /\ x.own = own /\ x.at = output[q].at
            /\ x.identity = output[q].captured
        BY <4>2, ClaimIs
      <4> QED
        BY <1>2, <2>2, <2>4, <4>1, <4>3
    <3> QED
      BY <2>6, <3>1, <3>2, <3>3, StoreMoves
  <2>7. ASSUME NEW q \in Runs, ~RunStep(q)
        PROVE  /\ stage'[q] = "adopt" => \A x \in reuse'[q] :
                    Ok(job'[q].target, x.own, x.at, x.identity)
               /\ stage'[q] = "checked" =>
                    Ok(job'[q].target, output'[q].captured = output'[q].wrote,
                       output'[q].at, output'[q].captured)
    BY <1>2, <2>2, <2>4, <2>7, RunMoves
  <2>8. ASSUME NEW q \in Runs, RunStep(q), stage'[q] = "adopt", NEW x \in reuse'[q]
        PROVE  Ok(job'[q].target, x.own, x.at, x.identity)
    <3>1. Verify(q)
      BY <2>8, StageMoves
    <3>2. PICK live \in Snapshots :
            /\ Reads(job[q].target, live)
            /\ \/ (\E y \in reuse[q] : y.identity = live) /\ UNCHANGED reuse
               \/ At(q, "verify", "building")
      BY <3>1 DEF Verify
    <3>3. (\E y \in reuse[q] : y.identity = live) /\ reuse' = reuse /\ job' = job
      BY <1>0, <2>8, <3>1, <3>2 DEF At, Verify
    <3>4. x.identity = live
      BY <2>8, <3>3 DEF DatedInv
    <3>5. x.own => x.identity # None
      BY <2>8, <3>3 DEF DatedInv, Dated
    <3>6. x.own => x.identity = snap[job[q].target]
      BY <3>2, <3>4, <3>5 DEF Reads
    <3> QED
      BY <2>5, <3>3, <3>6
  <2>9. ASSUME NEW q \in Runs, RunStep(q), stage'[q] = "checked"
        PROVE  Ok(job'[q].target, output'[q].captured = output'[q].wrote,
                  output'[q].at, output'[q].captured)
    <3>1. Check(q)
      BY <2>9, StageMoves
    <3>2. output' = output /\ job' = job /\ output[q].wrote # None
      BY <3>1 DEF Check, At, DatedInv, Written
    <3>3. \/ output[q].captured = None
          \/ \E live \in Snapshots :
                /\ Reads(job[q].target, live)
                /\ At(q, "finished", IF live = output[q].captured
                                     THEN "checked" ELSE "yielded")
      BY <3>1 DEF Check
    <3>4. \/ output[q].captured = None
          \/ Reads(job[q].target, output[q].captured)
      BY <1>0, <2>9, <3>3 DEF At
    <3>5. output[q].captured = output[q].wrote =>
            output[q].captured = snap[job[q].target]
      BY <3>2, <3>4 DEF Reads
    <3> QED
      BY <2>5, <3>2, <3>5
  <2> QED
    BY <2>6, <2>7, <2>8, <2>9
<1> QED
  BY <1>1, <1>3, <1>4 DEF Past

\* An upsert leaves an environment a record at least as late as the one it had.
LEMMA UpsertKeeps ==
    ASSUME NEW x \in rows, NEW c, x.at \in Nat, c.at \in Nat, Upsert(c)
    PROVE  \E y \in rows' : y.env = x.env /\ y.at >= x.at
  BY DEF Upsert

LEMMA LeftStep ==
    ASSUME TypeOK, LeftInv, [Next]_vars
    PROVE  LeftInv'
<1>0. /\ output \in [Runs -> [wrote : Nat, captured : Nat, at : Nat]]
      /\ reuse \in [Runs -> SUBSET Row] /\ rows \subseteq Row
  BY DEF TypeOK
<1> SUFFICES ASSUME NEW r \in Runs, stage'[r] = "recorded"
             PROVE  \E x \in rows' : x.env = job'[r].env /\ x.at >= output'[r].at
  BY DEF LeftInv
<1>1. CASE RunStep(r)
  <2> DEFINE c == Claim(r, output[r].captured, output[r].at,
                        output[r].captured = output[r].wrote)
  <2>1. Upsert(c) /\ job' = job /\ output' = output
    BY <1>1, StageMoves DEF Record
  <2>2. c.env = job[r].env /\ c.at = output[r].at
    BY ClaimIs
  <2>3. output[r].at \in Nat
    BY <1>0
  <2> HIDE DEF c
  <2>4. CASE \E y \in rows : y.env = c.env /\ y.at > c.at
    <3>1. PICK y \in rows : y.env = c.env /\ y.at > c.at
      BY <2>4
    <3>2. rows' = rows /\ y.at \in Nat
      BY <1>0, <2>1, <3>1 DEF Upsert, Row
    <3> QED
      BY <2>1, <2>2, <2>3, <3>1, <3>2
  <2>5. CASE ~\E y \in rows : y.env = c.env /\ y.at > c.at
    <3>1. c \in rows'
      BY <2>1, <2>5 DEF Upsert
    <3> QED
      BY <2>1, <2>2, <2>3, <3>1
  <2> QED
    BY <2>4, <2>5
<1>2. CASE ~RunStep(r)
  <2>1. job'[r] = job[r] /\ output'[r] = output[r] /\ stage[r] = "recorded"
    BY <1>2, RunMoves
  <2>2. PICK x \in rows : x.env = job[r].env /\ x.at >= output[r].at
    BY <2>1 DEF LeftInv
  <2>3. x.at \in Nat /\ output[r].at \in Nat
    BY <1>0, <2>2 DEF Row
  <2>4. ASSUME NEW c, c.at \in Nat, Upsert(c)
        PROVE  \E y \in rows' : y.env = job[r].env /\ y.at >= output[r].at
    <3>1. PICK y \in rows' : y.env = x.env /\ y.at >= x.at
      BY <2>2, <2>3, <2>4, UpsertKeeps
    <3>2. y.at \in Nat
      BY <1>0, <2>4, <3>1, UpsertMoves DEF Row
    <3> QED
      BY <2>2, <2>3, <3>1, <3>2
  <2>5. CASE rows' = rows
    BY <2>1, <2>2, <2>5
  <2>6. ASSUME NEW q \in Runs, Adopt(q)
        PROVE  \E y \in rows' : y.env = job[r].env /\ y.at >= output[r].at
    <3>1. PICK y \in reuse[q] : Upsert(Claim(q, y.identity, y.at, y.own))
      BY <2>6 DEF Adopt
    <3>2. Claim(q, y.identity, y.at, y.own).at = y.at /\ y.at \in Nat
      BY <1>0, <3>1, ClaimIs DEF Row
    <3> QED
      BY <2>4, <3>1, <3>2
  <2>7. ASSUME NEW q \in Runs, Record(q)
        PROVE  \E y \in rows' : y.env = job[r].env /\ y.at >= output[r].at
    <3> DEFINE c == Claim(q, output[q].captured, output[q].at,
                          output[q].captured = output[q].wrote)
    <3>1. Upsert(c)
      BY <2>7 DEF Record
    <3>2. c.at = output[q].at /\ output[q].at \in Nat
      BY <1>0, ClaimIs
    <3> HIDE DEF c
    <3> QED
      BY <2>4, <3>1, <3>2
  <2> QED
    BY <2>1, <2>5, <2>6, <2>7, StoreMoves
<1> QED
  BY <1>1, <1>2

LEMMA RecordInvAlways == Spec => [](TypeOK /\ RecordInv)
<1>1. Init => TypeOK /\ RecordInv
  BY TypeInit, RecordInvInit
<1>2. TypeOK /\ RecordInv /\ [Next]_vars => TypeOK' /\ RecordInv'
  <2> SUFFICES ASSUME TypeOK, RecordInv, [Next]_vars PROVE TypeOK' /\ RecordInv'
    OBVIOUS
  <2>1. TypeOK'
    BY TypeStep
  <2>2. DatedInv' /\ ShownInv' /\ StandInv' /\ LeftInv'
    BY DatedStep, ShownStep, StandStep, LeftStep DEF RecordInv
  <2> QED
    BY <2>1, <2>2 DEF RecordInv
<1> QED
  BY <1>1, <1>2, PTL DEF Spec

\* When a run has recorded what it built and nobody wrote the relation since it
\* was seen there, the record its environment reads is of that output, in any
\* order of finishing and recording (record_materialized's ordered upsert, and
\* the second look at the identity before it).
THEOREM TheRecordStands == Spec => []RecordedStands
<1>1. ASSUME TypeOK, RecordInv PROVE RecordedStands
  <2>0. rows \subseteq Row /\ output \in [Runs -> [wrote : Nat, captured : Nat, at : Nat]]
    BY <1>1 DEF TypeOK
  <2> SUFFICES ASSUME NEW r \in Runs, stage[r] = "recorded", Shown(r),
                      NEW x \in Scope(job[r].env), x.own, x.target = job[r].target
               PROVE  x.identity = output[r].captured
    BY DEF RecordedStands, Shown
  <2>1. PICK w \in rows : w.env = job[r].env /\ w.at >= output[r].at
    BY <1>1 DEF RecordInv, LeftInv
  <2>2. w.env \in Labels(job[r].env)
    BY <2>1 DEF Labels
  <2>3. x \in rows /\ (x = w \/ Shadows(job[r].env, x, w))
    BY <2>1, <2>2 DEF Scope
  <2>4. x.at \in Nat /\ w.at \in Nat /\ output[r].at \in Nat
    BY <2>0, <2>1, <2>3 DEF Row
  <2>5. x.at >= output[r].at
    BY <2>1, <2>3, <2>4 DEF Shadows
  <2>6. Agrees(r, x.target, x.own, x.at, x.identity)
    BY <1>1, <2>3 DEF RecordInv, StandInv, Past
  <2> QED
    BY <2>5, <2>6 DEF Agrees
<1> QED
  BY <1>1, RecordInvAlways, PTL
=============================================================================
