-------------------------- MODULE OperationsProofs --------------------------
(***************************************************************************)
(* Theorems about Operations, for any requests and keys and any number of  *)
(* operations, crashes and failed appends.                                 *)
(***************************************************************************)
EXTENDS Operations, FiniteSetTheorems, TLAPS

-----------------------------------------------------------------------------
(***************************************************************************)
(* Type correctness.                                                       *)
(***************************************************************************)
\* The journal as open reads it is well typed, and its notes are countable.
LEMMA LinesType ==
    ASSUME TypeOK, NEW o \in Ids
    PROVE  /\ Lines(o) \in Seq(OperationStatus)
           /\ Cardinality(Unfinished(o)) \in Nat
           /\ Unfinished(o) # {} => Cardinality(Unfinished(o)) - 1 \in Nat
<1>1. Lines(o) \in Seq(OperationStatus)
  BY DEF TypeOK, Lines, Line
<1>2. IsFiniteSet(1..Len(Lines(o)))
  BY <1>1, FS_Interval
<1>3. Unfinished(o) \subseteq 1..Len(Lines(o))
  BY <1>1 DEF Unfinished
<1>4. IsFiniteSet(Unfinished(o))
  BY <1>2, <1>3, FS_Subset
<1>5. Cardinality(Unfinished(o)) \in Nat
  BY <1>4, FS_CardinalityType
<1>6. Unfinished(o) # {} => Cardinality(Unfinished(o)) # 0
  BY <1>4, FS_EmptySet
<1>7. Unfinished(o) # {} => Cardinality(Unfinished(o)) - 1 \in Nat
  BY <1>5, <1>6
<1> QED
  BY <1>1, <1>5, <1>7

LEMMA RestoredType ==
    ASSUME TypeOK, NEW o \in Ids, Lines(o) # <<>>
    PROVE  Restored(o) \in Terminal
  BY DEF Restored, Terminal

LEMMA NotesType ==
    ASSUME NEW n \in Nat, NEW s \in Seq(OperationStatus)
    PROVE  s \o Notes(n) \in Seq(OperationStatus)
<1>1. Notes(n) \in Seq(OperationStatus)
  BY DEF Notes, OperationStatus
<1> QED
  BY <1>1

LEMMA TypeInit == Init => TypeOK
<1> SUFFICES ASSUME Init PROVE TypeOK
  OBVIOUS
<1>1. PICK legacy \in {{}, {1}}, k \in Keys :
        /\ req = [o \in Ids |-> IF o \in legacy THEN NoHash
                               ELSE CHOOSE r \in Requests : TRUE]
        /\ key = [o \in Ids |-> IF o \in legacy THEN k ELSE NoKey]
        /\ log = [o \in Ids |-> IF o \in legacy THEN <<"succeeded">> ELSE <<>>]
        /\ made = Cardinality(legacy)
        /\ acked = legacy /\ ran = legacy
  BY DEF Init
<1>2. made \in 0..MaxOps
  <2>1. Cardinality({}) = 0 /\ Cardinality({1}) = 1
    BY FS_EmptySet, FS_Singleton
  <2>2. made = 0 \/ made = 1
    BY <1>1, <2>1
  <2> QED
    BY <2>2, BoundAssumption
<1>3. acked \in SUBSET Ids /\ ran \in SUBSET Ids
  BY <1>1, BoundAssumption DEF Ids
<1>4. log \in [Ids -> Seq(OperationStatus)]
  <2>1. <<"succeeded">> \in Seq(OperationStatus) /\ <<>> \in Seq(OperationStatus)
    BY DEF OperationStatus
  <2> QED
    BY <1>1, <2>1
<1>5. (CHOOSE r \in Requests : TRUE) \in Requests
  BY RequestAssumption
<1>6. req \in [Ids -> Requests \cup {NoHash}] /\ key \in [Ids -> Keys \cup {NoKey}]
  BY <1>1, <1>5
<1>7. crashes \in 0..MaxCrashes /\ faults \in 0..MaxFaults
  BY BoundAssumption DEF Init
<1>8. status \in [Ids -> OperationStatus] /\ phase \in [Ids -> Phase]
  BY DEF Init, OperationStatus, Phase
<1>9. keyOf \in [Keys -> Ids \cup {NoOp}]
  BY DEF Init
<1> QED
  BY <1>2, <1>3, <1>4, <1>6, <1>7, <1>8, <1>9 DEF Init, TypeOK

\* What follows an append, whichever it is.
LEMMA TypeFollows ==
    ASSUME TypeOK, NEW o \in Ids,
           Visible(o) \/ Executing(o) \/ Releasing(o) \/ Refused(o)
    PROVE  /\ phase' \in [Ids -> Phase] /\ known' \in SUBSET Ids
           /\ status' \in [Ids -> OperationStatus] /\ flag' \in SUBSET Ids
           /\ keyOf' \in [Keys -> Ids \cup {NoOp}]
           /\ lock' \in Ids \cup {NoOp} /\ busy' \in BOOLEAN
           /\ acked' \in SUBSET Ids /\ ran' \in SUBSET Ids
<1> USE DEF TypeOK, Unlocked, history
<1>1. Phase # {} /\ {"start", "exec", "release", "none"} \subseteq Phase
  BY DEF Phase
<1>2. "queued" \in OperationStatus
  BY DEF OperationStatus
<1>3. CASE Visible(o)
  BY <1>1, <1>2, <1>3 DEF Visible
<1>4. CASE Executing(o)
  BY <1>1, <1>4 DEF Executing
<1>5. CASE Releasing(o)
  BY <1>1, <1>5 DEF Releasing
<1>6. CASE Refused(o)
  BY <1>1, <1>6 DEF Refused, Freed
<1> QED
  BY <1>3, <1>4, <1>5, <1>6

LEMMA TypeThread ==
    ASSUME TypeOK, NEW o \in Ids,
           Thread(o) \/ Finish(o) \/ Cancel(o) \/
           (\E half \in BOOLEAN : AppendFails(o, half))
    PROVE  TypeOK'
<1>1. CASE AppendRecord(o)
  <2>1. phase' \in [Ids -> Phase]
    <3>1. Newline[phase[o]] \in Phase
      BY <1>1 DEF AppendRecord, Phase, Ending
    <3> QED
      BY <1>1, <3>1 DEF AppendRecord, TypeOK
  <2>2. tail' \in Line \cup {Blank, Spoilt}
    BY <1>1 DEF AppendRecord, TypeOK, Line, OperationStatus
  <2>3. torn' \in BOOLEAN
    BY <1>1 DEF AppendRecord, TypeOK
  <2> QED
    BY <1>1, <2>1, <2>2, <2>3 DEF AppendRecord, TypeOK, records, history, bounds
<1>2. CASE AppendNewline(o)
  <2>1. Visible(o) \/ Executing(o) \/ Releasing(o)
    BY <1>2 DEF AppendNewline
  <2>2. log' \in [Ids -> Seq(OperationStatus)]
    <3>1. log \in [Ids -> Seq(OperationStatus)]
      BY DEF TypeOK
    <3>2. CASE tail \in Line
      <4>1. tail.op \in Ids /\ tail.status \in OperationStatus
        BY <3>2 DEF Line
      <4>2. Append(log[tail.op], tail.status) \in Seq(OperationStatus)
        BY <3>1, <4>1
      <4>3. log' = [log EXCEPT ![tail.op] = Append(@, tail.status)]
        BY <1>2, <3>2 DEF AppendNewline
      <4> QED
        BY <3>1, <4>1, <4>2, <4>3
    <3>3. CASE tail \notin Line
      BY <1>2, <3>1, <3>3 DEF AppendNewline
    <3> QED
      BY <3>2, <3>3
  <2>3. tail' = Blank /\ UNCHANGED <<up, torn, records, bounds>>
    BY <1>2 DEF AppendNewline
  <2> QED
    BY <2>1, <2>2, <2>3, TypeFollows DEF TypeOK, records, bounds
<1>3. CASE MarkRunning(o)
  <2>1. "note" \in Phase /\ "running" \in OperationStatus
    BY DEF Phase, Appending, OperationStatus
  <2> QED
    BY <1>3, <2>1 DEF MarkRunning, TypeOK, journal, records, history, bounds
<1>4. CASE Release(o)
  <2>1. "none" \in Phase
    BY DEF Phase
  <2>2. busy' \in BOOLEAN
    BY <1>4 DEF Release, Freed, TypeOK
  <2> QED
    BY <1>4, <2>1, <2>2 DEF Release, TypeOK, journal, records, history, bounds
<1>5. CASE Finish(o)
  <2>1. "final" \in Phase
    BY DEF Phase, Appending
  <2>2. \A end \in {"succeeded", "failed"} : Verdict(o, end) \in OperationStatus
    BY DEF Verdict, OperationStatus
  <2> QED
    BY <1>5, <2>1, <2>2 DEF Finish, TypeOK, journal, records, history, bounds
<1>6. CASE Cancel(o)
  BY <1>6 DEF Cancel, TypeOK, journal, records, history, bounds
<1>7. CASE \E half \in BOOLEAN : AppendFails(o, half)
  <2>1. PICK half \in BOOLEAN : AppendFails(o, half)
    BY <1>7
  <2>2. Refused(o) \/ Executing(o) \/ Releasing(o)
    BY <2>1 DEF AppendFails, AfterLost
  <2>3. tail' \in Line \cup {Blank, Spoilt} /\ torn' \in BOOLEAN
    BY <2>1 DEF AppendFails, TypeOK
  <2>4. faults' \in 0..MaxFaults
    <3>1. faults < MaxFaults /\ faults' = faults + 1
      BY <2>1 DEF AppendFails
    <3>2. faults \in 0..MaxFaults
      BY DEF TypeOK
    <3> QED
      BY <3>1, <3>2, BoundAssumption
  <2>5. UNCHANGED <<up, log, records, made, crashes>>
    BY <2>1 DEF AppendFails
  <2> QED
    BY <2>2, <2>3, <2>4, <2>5, TypeFollows DEF TypeOK, records
<1> QED
  BY <1>1, <1>2, <1>3, <1>4, <1>5, <1>6, <1>7 DEF Thread

LEMMA TypeOpen == TypeOK /\ Open => TypeOK'
<1> SUFFICES ASSUME TypeOK, Open PROVE TypeOK'
  OBVIOUS
<1>1. known' \in SUBSET Ids
  BY DEF Open
<1>2. status' \in [Ids -> OperationStatus]
  <2>1. \A o \in known' : Restored(o) \in OperationStatus
    BY RestoredType DEF Open, Terminal, OperationStatus
  <2> QED
    BY <2>1 DEF Open, OperationStatus
<1>3. log' \in [Ids -> Seq(OperationStatus)]
  <2>1. CASE tail = Blank \/ \A o \in Ids : Unfinished(o) = {}
    <3>1. log' = [o \in Ids |-> log[o] \o Notes(Cardinality(Unfinished(o)))]
      BY <2>1 DEF Open
    <3>2. \A o \in Ids :
              log[o] \o Notes(Cardinality(Unfinished(o))) \in Seq(OperationStatus)
      BY LinesType, NotesType DEF TypeOK
    <3> QED
      BY <3>1, <3>2
  <2>2. CASE ~(tail = Blank \/ \A o \in Ids : Unfinished(o) = {})
    <3>1. PICK first \in {o \in Ids : Unfinished(o) # {}} :
              log' = [o \in Ids |->
                  log[o] \o Notes(Cardinality(Unfinished(o))
                                  - IF o = first THEN 1 ELSE 0)]
      BY <2>2 DEF Open
    <3>2. ASSUME NEW o \in Ids
          PROVE  Cardinality(Unfinished(o)) - (IF o = first THEN 1 ELSE 0) \in Nat
      BY LinesType
    <3>3. \A o \in Ids :
              log[o] \o Notes(Cardinality(Unfinished(o))
                              - IF o = first THEN 1 ELSE 0)
                  \in Seq(OperationStatus)
      BY <3>2, NotesType DEF TypeOK
    <3> QED
      BY <3>1, <3>3
  <2> QED
    BY <2>1, <2>2
<1>4. tail' \in Line \cup {Blank, Spoilt} /\ torn' \in BOOLEAN
  BY DEF Open, TypeOK
<1>5. up' \in BOOLEAN /\ keyOf' \in [Keys -> Ids \cup {NoOp}]
  BY DEF Open
<1> QED
  BY <1>1, <1>2, <1>3, <1>4, <1>5 DEF Open, TypeOK, records, history, bounds

LEMMA TypeStep == TypeOK /\ [Next]_vars => TypeOK'
<1> SUFFICES ASSUME TypeOK, [Next]_vars PROVE TypeOK'
  OBVIOUS
<1>1. ASSUME NEW k \in Keys \cup {NoKey}, NEW r \in Requests, Reserve(k, r)
      PROVE  TypeOK'
  <2>1. made + 1 \in Ids /\ made' \in 0..MaxOps
    BY <1>1, BoundAssumption DEF Reserve, TypeOK, Ids
  <2>2. "reserve" \in Phase
    BY DEF Phase, Appending
  <2>3. phase' \in [Ids -> Phase] /\ lock' \in Ids \cup {NoOp}
    BY <1>1, <2>1, <2>2 DEF Reserve, TypeOK
  <2>4. req' \in [Ids -> Requests \cup {NoHash}]
    BY <1>1, <2>1 DEF Reserve, TypeOK
  <2>5. key' \in [Ids -> Keys \cup {NoKey}]
    BY <1>1, <2>1 DEF Reserve, TypeOK
  <2>6. busy' \in BOOLEAN
    BY <1>1 DEF Reserve, TypeOK
  <2> QED
    BY <1>1, <2>1, <2>3, <2>4, <2>5, <2>6
       DEF Reserve, TypeOK, journal, history
<1>2. ASSUME NEW o \in Ids,
             Thread(o) \/ Finish(o) \/ Cancel(o) \/
             (\E half \in BOOLEAN : AppendFails(o, half))
      PROVE  TypeOK'
  BY <1>2, TypeThread
<1>3. ASSUME Crash PROVE TypeOK'
  <2>1. "none" \in Phase /\ "queued" \in OperationStatus
    BY DEF Phase, OperationStatus
  <2>2. crashes' \in 0..MaxCrashes
    BY <1>3, BoundAssumption DEF Crash, TypeOK
  <2> QED
    BY <1>3, <2>1, <2>2 DEF Crash, Forgotten, TypeOK, journal, records, history
<1>4. ASSUME Open PROVE TypeOK'
  BY <1>4, TypeOpen
<1>5. ASSUME UNCHANGED vars PROVE TypeOK'
  BY <1>5 DEF TypeOK, vars, memory, journal, records, history, bounds
<1> QED
  BY <1>1, <1>2, <1>3, <1>4, <1>5 DEF Next

\* Every reachable state is well typed.
THEOREM TypeCorrect == Spec => []TypeOK
<1> QED
  BY TypeInit, TypeStep, PTL DEF Spec

-----------------------------------------------------------------------------
(***************************************************************************)
(* The gate and cancellation.                                              *)
(***************************************************************************)
DownIsEmpty == ~up => /\ \A o \in Ids : phase[o] = "none"
                      /\ known = {} /\ flag = {} /\ ~busy
FirstStart == ~up /\ crashes = 0 =>
    tail = Blank /\ \A o \in Ids : log[o] \in {<<>>, <<"succeeded">>}
NotMade == \A o \in Ids : o > made => phase[o] = "none"

GInv == /\ TypeOK /\ DownIsEmpty /\ FirstStart /\ NotMade
        /\ OneMutating /\ CancelDecides

LEMMA GInit == Init => GInv
<1> SUFFICES ASSUME Init PROVE GInv
  OBVIOUS
<1>1. OneMutating
  BY DEF Init, OneMutating, InGate
<1>2. FirstStart
  BY DEF Init, FirstStart
<1>3. CancelDecides /\ DownIsEmpty /\ NotMade
  BY DEF Init, CancelDecides, DownIsEmpty, NotMade
<1> QED
  BY <1>1, <1>2, <1>3, TypeInit DEF GInv

\* A thread that moves on inside the gate changes nothing about the gate.
LEMMA GateMoves ==
    ASSUME GInv, NEW o \in Ids, NEW p \in Phase \ {"none"},
           phase[o] # "none",
           phase' = [phase EXCEPT ![o] = p],
           UNCHANGED <<busy, req, made>>
    PROVE  OneMutating' /\ NotMade'
<1>1. InGate' = InGate
  BY DEF GInv, TypeOK, InGate
<1>2. OneMutating'
  BY <1>1 DEF GInv, OneMutating
<1>3. NotMade'
  BY DEF GInv, TypeOK, NotMade
<1> QED
  BY <1>2, <1>3

\* A thread that leaves frees the gate exactly if it was in it.
LEMMA GateLeft ==
    ASSUME GInv, NEW o \in Ids, phase[o] # "none",
           phase' = [phase EXCEPT ![o] = "none"],
           busy' = Freed(o), UNCHANGED <<req, made>>
    PROVE  OneMutating' /\ NotMade'
<1>1. InGate' = InGate \ {o}
  BY DEF GInv, TypeOK, InGate
<1>2. \A p, q \in InGate' : p = q
  BY <1>1 DEF GInv, OneMutating
<1>3. NotMade'
  BY DEF GInv, TypeOK, NotMade
<1>4. CASE req[o] \in Mutating
  <2>1. InGate' = {}
    BY <1>1, <1>4 DEF GInv, OneMutating, InGate
  <2>2. busy' = FALSE
    BY <1>4 DEF Freed
  <2>3. busy' <=> InGate' # {}
    BY <2>1, <2>2
  <2> QED
    BY <1>2, <1>3, <2>3, Zenon DEF OneMutating
<1>5. CASE req[o] \notin Mutating
  <2>1. InGate' = InGate
    BY <1>1, <1>5 DEF InGate
  <2>2. busy' = busy
    BY <1>5 DEF Freed, GInv, TypeOK
  <2>3. busy' <=> InGate' # {}
    BY <2>1, <2>2 DEF OneMutating, GInv
  <2> QED
    BY <1>2, <1>3, <2>3, Zenon DEF OneMutating
<1> QED
  BY <1>4, <1>5, <1>3

\* What follows an append.
LEMMA GateFollows ==
    ASSUME GInv, NEW o \in Ids, phase[o] # "none",
           Visible(o) \/ Executing(o) \/ Releasing(o) \/ Refused(o),
           UNCHANGED <<req, made, crashes>>
    PROVE  OneMutating' /\ NotMade' /\ CancelDecides'
<1>1. CASE Visible(o)
  <2>1. OneMutating' /\ NotMade'
    BY <1>1, GateMoves DEF Visible, Phase
  <2>2. CancelDecides'
    BY <1>1 DEF Visible, CancelDecides, GInv, TypeOK, Terminal
  <2> QED
    BY <2>1, <2>2
<1>2. CASE Executing(o)
  <2>1. OneMutating' /\ NotMade'
    BY <1>2, GateMoves DEF Executing, Phase
  <2>2. CancelDecides'
    BY <1>2 DEF Executing, CancelDecides, GInv
  <2> QED
    BY <2>1, <2>2
<1>3. CASE Releasing(o)
  <2>1. OneMutating' /\ NotMade'
    BY <1>3, GateMoves DEF Releasing, Phase
  <2>2. CancelDecides'
    BY <1>3 DEF Releasing, CancelDecides, GInv
  <2> QED
    BY <2>1, <2>2
<1>4. CASE Refused(o)
  <2>1. OneMutating' /\ NotMade'
    BY <1>4, GateLeft DEF Refused
  <2>2. CancelDecides'
    BY <1>4 DEF Refused, CancelDecides, GInv
  <2> QED
    BY <2>1, <2>2
<1> QED
  BY <1>1, <1>2, <1>3, <1>4

\* While the daemon is up, what it needs to be empty when down does not matter.
LEMMA UpStays ==
    ASSUME GInv, up' = up, up PROVE DownIsEmpty' /\ FirstStart'
  BY DEF DownIsEmpty, FirstStart

LEMMA NewlinePhases ==
    /\ Ending = {"reserve_newline", "note_newline", "final_newline"}
    /\ \A p \in Appending : p # "none" /\ Newline[p] \in Ending
<1>1. /\ Newline["reserve"] = "reserve_newline"
      /\ Newline["note"] = "note_newline" /\ Newline["final"] = "final_newline"
  BY DEF Newline
<1>2. Ending = {"reserve_newline", "note_newline", "final_newline"}
  BY <1>1 DEF Ending, Appending
<1>3. \A p \in Appending : p # "none" /\ Newline[p] \in Ending
  BY <1>1, <1>2 DEF Appending
<1> QED
  BY <1>2, <1>3

LEMMA GThread ==
    ASSUME GInv, NEW o \in Ids,
           Thread(o) \/ Finish(o) \/ Cancel(o) \/
           (\E half \in BOOLEAN : AppendFails(o, half))
    PROVE  GInv'
<1>1. TypeOK'
  BY TypeThread DEF GInv
<1>2. ASSUME phase[o] # "none" PROVE up
  BY <1>2 DEF GInv, DownIsEmpty
<1>3. \A p \in Appending : p # "none" /\ Newline[p] \in Phase \ {"none"}
  BY NewlinePhases DEF Phase
<1>4. "none" \notin Appending \cup Ending
  BY NewlinePhases DEF Appending
<1>5. CASE AppendRecord(o)
  <2>1. phase[o] # "none" /\ Newline[phase[o]] \in Phase \ {"none"}
    BY <1>3, <1>5 DEF AppendRecord
  <2>2. OneMutating' /\ NotMade'
    BY <1>5, <2>1, GateMoves DEF AppendRecord, records, bounds, GInv, TypeOK
  <2>3. CancelDecides'
    BY <1>5 DEF AppendRecord, GInv, CancelDecides, bounds
  <2> QED
    BY <1>1, <1>2, <1>5, <2>1, <2>2, <2>3, UpStays DEF AppendRecord, GInv
<1>6. CASE AppendNewline(o)
  <2>1. phase[o] # "none"
    BY <1>4, <1>6 DEF AppendNewline
  <2>2. OneMutating' /\ NotMade' /\ CancelDecides'
    BY <1>6, <2>1, GateFollows DEF AppendNewline, records, bounds
  <2> QED
    BY <1>1, <1>2, <1>6, <2>1, <2>2, UpStays DEF AppendNewline, GInv
<1>7. CASE MarkRunning(o)
  <2>1. phase[o] # "none" /\ "note" \in Phase \ {"none"}
    BY <1>7 DEF MarkRunning, Phase, Appending
  <2>2. OneMutating' /\ NotMade'
    BY <1>7, <2>1, GateMoves DEF MarkRunning, records, bounds
  <2>3. CancelDecides'
    BY <1>7 DEF MarkRunning, GInv, CancelDecides, bounds, TypeOK, Terminal
  <2> QED
    BY <1>1, <1>2, <1>7, <2>1, <2>2, <2>3, UpStays DEF MarkRunning, GInv
<1>8. CASE Release(o)
  <2>1. phase[o] # "none"
    BY <1>8 DEF Release
  <2>2. OneMutating' /\ NotMade'
    BY <1>8, <2>1, GateLeft DEF Release, records, bounds
  <2>3. CancelDecides'
    BY <1>8 DEF Release, GInv, CancelDecides, bounds
  <2> QED
    BY <1>1, <1>2, <1>8, <2>1, <2>2, <2>3, UpStays DEF Release, GInv
<1>9. CASE Finish(o)
  <2>1. phase[o] # "none" /\ "final" \in Phase \ {"none"}
    BY <1>9 DEF Finish, Phase, Appending
  <2>2. OneMutating' /\ NotMade'
    BY <1>9, <2>1, GateMoves DEF Finish, records, bounds
  <2>3. PICK end \in {"succeeded", "failed"} :
            status' = [status EXCEPT ![o] = Verdict(o, end)]
    BY <1>9 DEF Finish
  <2>4. /\ o \in flag => status'[o] = "cancelled"
        /\ status'[o] = "cancelled" => o \in flag
        /\ \A p \in Ids \ {o} : status'[p] = status[p]
    BY <2>3 DEF Verdict, GInv, TypeOK
  <2>5. CancelDecides'
    BY <1>9, <2>4 DEF Finish, GInv, CancelDecides, bounds, TypeOK
  <2> QED
    BY <1>1, <1>2, <1>9, <2>1, <2>2, <2>5, UpStays DEF Finish, GInv
<1>10. CASE Cancel(o)
  <2>1. OneMutating' /\ NotMade'
    BY <1>10 DEF Cancel, records, bounds, GInv, OneMutating, InGate, NotMade
  <2>2. CancelDecides'
    BY <1>10 DEF Cancel, GInv, CancelDecides, bounds
  <2> QED
    BY <1>1, <1>10, <2>1, <2>2, UpStays DEF Cancel, GInv
<1>11. CASE \E half \in BOOLEAN : AppendFails(o, half)
  <2>1. PICK half \in BOOLEAN : AppendFails(o, half)
    BY <1>11
  <2>2. Refused(o) \/ Executing(o) \/ Releasing(o)
    BY <2>1 DEF AppendFails, AfterLost
  <2>3. phase[o] # "none"
    BY <1>4, <2>1 DEF AppendFails
  <2>4. UNCHANGED <<up, req, made, crashes>>
    BY <2>1 DEF AppendFails, records
  <2>5. OneMutating' /\ NotMade' /\ CancelDecides'
    BY <2>2, <2>3, <2>4, GateFollows
  <2> QED
    BY <1>1, <1>2, <2>3, <2>4, <2>5, UpStays DEF GInv
<1> QED
  BY <1>5, <1>6, <1>7, <1>8, <1>9, <1>10, <1>11 DEF Thread

LEMMA GStep == GInv /\ [Next]_vars => GInv'
<1> SUFFICES ASSUME GInv, [Next]_vars PROVE GInv'
  OBVIOUS
<1>0. TypeOK'
  BY TypeStep DEF GInv
<1>1. ASSUME NEW k \in Keys \cup {NoKey}, NEW r \in Requests, Reserve(k, r)
      PROVE  GInv'
  <2> DEFINE o == made + 1
  <2>1. o \in Ids
    BY <1>1, BoundAssumption DEF Reserve, GInv, TypeOK, Ids
  <2>2. phase[o] = "none"
    BY <2>1 DEF GInv, NotMade, TypeOK
  <2>3. /\ phase' = [phase EXCEPT ![o] = "reserve"]
        /\ req' = [req EXCEPT ![o] = r] /\ made' = o
        /\ busy' = (busy \/ r \in Mutating)
        /\ UNCHANGED <<up, known, status, flag, crashes>> /\ up
    BY <1>1 DEF Reserve
  <2>4. r \in Mutating => ~busy
    BY <1>1 DEF Reserve, Outcome
  <2>5. InGate' = IF r \in Mutating THEN InGate \cup {o} ELSE InGate
    BY <2>1, <2>2, <2>3 DEF InGate, GInv, TypeOK
  <2>6. OneMutating'
    <3>1. CASE r \in Mutating
      <4>1. InGate = {}
        BY <2>4, <3>1 DEF GInv, OneMutating
      <4> QED
        BY <2>3, <2>5, <3>1, <4>1 DEF OneMutating
    <3>2. CASE r \notin Mutating
      BY <2>3, <2>5, <3>2 DEF OneMutating, GInv, TypeOK
    <3> QED
      BY <3>1, <3>2
  <2>7. NotMade'
    BY <2>1, <2>3 DEF NotMade, GInv, TypeOK, Ids
  <2>8. CancelDecides'
    BY <2>3 DEF CancelDecides, GInv
  <2> QED
    BY <1>0, <2>3, <2>6, <2>7, <2>8, UpStays DEF GInv
<1>2. ASSUME NEW o \in Ids,
             Thread(o) \/ Finish(o) \/ Cancel(o) \/
             (\E half \in BOOLEAN : AppendFails(o, half))
      PROVE  GInv'
  BY <1>2, GThread
<1>3. ASSUME Crash PROVE GInv'
  <2>1. crashes' # 0
    BY <1>3 DEF Crash, GInv, TypeOK
  <2>2. DownIsEmpty' /\ NotMade'
    BY <1>3 DEF Crash, Forgotten, DownIsEmpty, NotMade
  <2>3. OneMutating'
    BY <1>3 DEF Crash, Forgotten, OneMutating, InGate
  <2>4. CancelDecides' /\ FirstStart'
    BY <1>3, <2>1 DEF Crash, Forgotten, CancelDecides, FirstStart
  <2> QED
    BY <1>0, <2>2, <2>3, <2>4 DEF GInv
<1>4. ASSUME Open PROVE GInv'
  <2>1. /\ up' /\ ~up /\ flag' = {} /\ ~busy' /\ phase' = phase
        /\ UNCHANGED <<req, made, crashes>>
        /\ \A o \in Ids : phase[o] = "none"
    BY <1>4 DEF Open, records, bounds, GInv, DownIsEmpty
  <2>2. OneMutating' /\ NotMade' /\ DownIsEmpty' /\ FirstStart'
    BY <2>1 DEF OneMutating, InGate, NotMade, DownIsEmpty, FirstStart
  <2>3. ASSUME NEW o \in known', status'[o] = "cancelled", crashes' = 0
        PROVE  FALSE
    <3>1. o \in Ids /\ Lines(o) # <<>> /\ status'[o] = Restored(o)
      BY <1>4, <2>3 DEF Open
    <3>2. tail = Blank /\ log[o] \in {<<>>, <<"succeeded">>}
      BY <2>1, <2>3, <3>1 DEF GInv, FirstStart
    <3>3. Lines(o) = log[o]
      BY <3>2 DEF Lines, Line, Blank, OperationStatus
    <3>4. Lines(o) = <<"succeeded">>
      BY <3>1, <3>2, <3>3
    <3>5. Restored(o) = "succeeded"
      BY <3>4 DEF Restored, Terminal
    <3> QED
      BY <2>3, <3>1, <3>5
  <2>4. CancelDecides'
    <3>1. crashes' \in Nat
      BY <1>0 DEF TypeOK
    <3> QED
      BY <2>1, <2>3, <3>1 DEF CancelDecides
  <2> QED
    BY <1>0, <2>2, <2>4 DEF GInv
<1>5. ASSUME UNCHANGED vars PROVE GInv'
  <2>1. UNCHANGED <<up, phase, known, status, flag, busy, req, made, crashes,
                    log, tail>>
    BY <1>5 DEF vars, memory, journal, records, bounds
  <2> QED
    BY <1>0, <2>1 DEF GInv, DownIsEmpty, FirstStart, NotMade, OneMutating,
                      InGate, CancelDecides
<1> QED
  BY <1>1, <1>2, <1>3, <1>4, <1>5 DEF Next

THEOREM GInvHolds == Spec => []GInv
<1> QED
  BY GInit, GStep, PTL DEF Spec

\* acquire and release: at most one mutating operation at a time, and the gate
\* is held exactly while there is one.
THEOREM OneMutatingHolds == Spec => []OneMutating
<1>1. GInv => OneMutating
  BY DEF GInv
<1> QED
  BY <1>1, GInvHolds, PTL

\* finish and cancel: a cancel that was accepted decides how the operation
\* ends.
THEOREM CancelDecidesHolds == Spec => []CancelDecides
<1>1. GInv => CancelDecides
  BY DEF GInv
<1> QED
  BY <1>1, GInvHolds, PTL

-----------------------------------------------------------------------------
(***************************************************************************)
(* Idempotency keys across restarts.                                       *)
(***************************************************************************)
Submitting == {"reserve", "reserve_newline"}

\* A submission under a key holds the mutex and has the key to itself; past
\* its submission an operation is acknowledged.
Submissions ==
    /\ \A o \in Ids : phase[o] \in Submitting =>
           /\ o \notin acked
           /\ key[o] # NoKey => lock = o /\ keyOf[key[o]] = NoOp
    /\ \A o \in Ids : phase[o] \notin Submitting \cup {"none"} => o \in acked
    /\ ran \subseteq acked
    /\ \A o \in acked : o <= made
    /\ ~up => \A o \in Ids : phase[o] = "none"
    /\ \A o \in Ids : o > made => phase[o] = "none"

\* In a journal that is not torn, exactly the acknowledged operations have a
\* line, and the unterminated one belongs to the thread that is to end it, or
\* was left by a thread that could not.
JournalWhole ==
    ~torn =>
        /\ \A o \in Ids : log[o] # <<>> <=> o \in acked
        /\ tail # Spoilt
        /\ tail \in Line /\ tail.op \notin acked => tail.status = "queued"
        /\ \A o \in Ids : phase[o] \in Ending => tail \in Line /\ tail.op = o

\* Each key has one acknowledged operation, and answers with it.
KeysBound ==
    ~torn =>
        /\ \A o, p \in acked : key[o] = key[p] /\ key[o] # NoKey => o = p
        /\ up => \A o \in acked :
               /\ o \in known
               /\ key[o] # NoKey => keyOf[key[o]] = o

KInv == TypeOK /\ Submissions /\ JournalWhole /\ KeysBound

LEMMA KInit == Init => KInv
<1> SUFFICES ASSUME Init PROVE KInv
  OBVIOUS
<1>1. PICK legacy \in {{}, {1}} :
        /\ log = [o \in Ids |-> IF o \in legacy THEN <<"succeeded">> ELSE <<>>]
        /\ made = Cardinality(legacy)
        /\ acked = legacy /\ ran = legacy
  BY DEF Init
<1>2. Cardinality({}) = 0 /\ Cardinality({1}) = 1
  BY FS_EmptySet, FS_Singleton
<1>3. /\ \A o \in Ids : phase[o] = "none"
      /\ tail = Blank /\ ~up
  BY DEF Init
<1>4. Submissions
  <2>1. \A o \in acked : o <= made
    BY <1>1, <1>2
  <2> QED
    BY <1>1, <1>3, <2>1 DEF Submissions, Submitting
<1>5. JournalWhole
  <2>1. \A o \in Ids : phase[o] \notin Ending
    BY <1>3, NewlinePhases
  <2>2. Blank # Spoilt /\ Blank \notin Line
    BY DEF Blank, Spoilt, Line, OperationStatus
  <2>3. \A o \in Ids : log[o] # <<>> <=> o \in acked
    BY <1>1
  <2> QED
    BY <1>3, <2>1, <2>2, <2>3 DEF JournalWhole
<1>6. KeysBound
  BY <1>1, <1>3 DEF KeysBound
<1> QED
  BY <1>4, <1>5, <1>6, TypeInit DEF KInv

LEMMA NotALine == Blank \notin Line /\ Blank # Spoilt /\ Spoilt \notin Line
  BY DEF Blank, Spoilt, Line, OperationStatus

LEMMA KReserve ==
    ASSUME KInv, NEW k \in Keys \cup {NoKey}, NEW r \in Requests, Reserve(k, r)
    PROVE  Submissions' /\ JournalWhole' /\ KeysBound'
<1> DEFINE o == made + 1
<1>1. o \in Ids /\ made' = o
  BY BoundAssumption DEF Reserve, KInv, TypeOK, Ids
<1>2. phase[o] = "none" /\ o \notin acked
  BY <1>1 DEF KInv, Submissions, TypeOK
<1>3. /\ phase' = [phase EXCEPT ![o] = "reserve"]
      /\ key' = [key EXCEPT ![o] = k]
      /\ lock' = (IF k = NoKey THEN lock ELSE o)
      /\ UNCHANGED <<up, known, keyOf, log, tail, torn, acked, ran>> /\ up
  BY DEF Reserve, journal, history
<1>4. k # NoKey => lock = NoOp /\ keyOf[k] = NoOp
  BY DEF Reserve, LockFree, Outcome, Bound
<1>5. Submissions'
  <2>1. ASSUME NEW p \in Ids, phase'[p] \in Submitting
        PROVE  p \notin acked' /\
               (key'[p] # NoKey => lock' = p /\ keyOf'[key'[p]] = NoOp)
    <3>1. CASE p = o
      BY <1>1, <1>2, <1>3, <1>4, <3>1 DEF KInv, TypeOK
    <3>2. CASE p # o
      <4>1. phase[p] \in Submitting /\ key'[p] = key[p]
        BY <1>1, <1>3, <2>1, <3>2 DEF KInv, TypeOK
      <4>2. key[p] # NoKey => lock = p /\ p # NoOp
        BY <4>1 DEF KInv, Submissions, Ids, NoOp
      <4> QED
        BY <1>3, <1>4, <4>1, <4>2 DEF KInv, Submissions
    <3> QED
      BY <3>1, <3>2
  <2>2. ASSUME NEW p \in Ids, phase'[p] \notin Submitting \cup {"none"}
        PROVE  p \in acked'
    <3>1. p # o
      BY <1>1, <1>3, <2>2 DEF KInv, TypeOK, Submitting
    <3> QED
      BY <1>1, <1>3, <2>2, <3>1 DEF KInv, TypeOK, Submissions
  <2>3. \A p \in acked' : p <= made'
    BY <1>1, <1>3 DEF KInv, Submissions, TypeOK, Ids
  <2>4. \A p \in Ids : p > made' => phase'[p] = "none"
    BY <1>1, <1>3 DEF KInv, Submissions, TypeOK, Ids
  <2>5. ran' \subseteq acked' /\ up'
    BY <1>3 DEF KInv, Submissions
  <2> QED
    BY <2>1, <2>2, <2>3, <2>4, <2>5 DEF Submissions
<1>6. JournalWhole'
  <2>1. \A p \in Ids : phase'[p] \in Ending => phase[p] \in Ending
    BY <1>1, <1>3, NewlinePhases DEF KInv, TypeOK
  <2> QED
    BY <1>3, <2>1 DEF KInv, JournalWhole
<1>7. KeysBound'
  <2>1. \A p \in acked : key'[p] = key[p]
    BY <1>1, <1>2, <1>3 DEF KInv, TypeOK
  <2> QED
    BY <1>3, <2>1 DEF KInv, KeysBound
<1> QED
  BY <1>5, <1>6, <1>7

LEMMA KAppendRecord ==
    ASSUME KInv, NEW o \in Ids, AppendRecord(o)
    PROVE  Submissions' /\ JournalWhole' /\ KeysBound'
<1>1. /\ phase[o] \in Appending
      /\ phase' = [phase EXCEPT ![o] = Newline[phase[o]]]
      /\ torn' = (torn \/ tail # Blank)
      /\ tail = Blank =>
             tail' = [op |-> o, status |-> IF phase[o] = "reserve" THEN "queued"
                                           ELSE status[o]]
      /\ UNCHANGED <<up, known, status, keyOf, lock, log, key, made, acked, ran>>
  BY DEF AppendRecord, records, history, bounds, KInv, TypeOK
<1>2. /\ Newline["reserve"] = "reserve_newline"
      /\ Newline["note"] = "note_newline" /\ Newline["final"] = "final_newline"
  BY DEF Newline
<1>3. up
  BY <1>1, NewlinePhases DEF KInv, Submissions
<1>4. /\ phase'[o] \in Submitting <=> phase[o] \in Submitting
      /\ phase'[o] # "none" /\ phase[o] # "none"
  BY <1>1, <1>2 DEF Submitting, Appending, KInv, TypeOK
<1>5. \A p \in Ids \ {o} : phase'[p] = phase[p]
  BY <1>1 DEF KInv, TypeOK
<1>6. Submissions'
  BY <1>1, <1>3, <1>4, <1>5 DEF KInv, Submissions
<1>7. JournalWhole'
  <2> SUFFICES ASSUME ~torn' PROVE JournalWhole'
    BY DEF JournalWhole
  <2>1. ~torn /\ tail = Blank
    BY <1>1
  <2>2. tail' = [op |-> o, status |-> IF phase[o] = "reserve" THEN "queued"
                                      ELSE status[o]]
    BY <1>1, <2>1
  <2>3. tail' \in Line /\ tail'.op = o
    BY <2>2 DEF Line, KInv, TypeOK, OperationStatus
  <2>4. o \notin acked => tail'.status = "queued"
    <3>1. o \notin acked => phase[o] = "reserve"
      BY <1>1 DEF KInv, Submissions, Submitting, Appending
    <3> QED
      BY <2>2, <3>1
  <2>5. \A p \in Ids : phase'[p] \in Ending => p = o
    BY <1>5, <2>1, NotALine DEF KInv, JournalWhole
  <2> QED
    BY <1>1, <2>1, <2>3, <2>4, <2>5, NotALine DEF KInv, JournalWhole
<1>8. KeysBound'
  BY <1>1 DEF KInv, KeysBound
<1> QED
  BY <1>6, <1>7, <1>8

\* A reservation that becomes visible is the only one of its key.
LEMMA KVisible ==
    ASSUME KInv, NEW o \in Ids, phase[o] = "reserve_newline", Visible(o),
           UNCHANGED <<up, torn, key, made>>
    PROVE  Submissions' /\ KeysBound'
<1>1. o \notin acked /\ (key[o] # NoKey => lock = o /\ keyOf[key[o]] = NoOp)
  BY DEF KInv, Submissions, Submitting
<1>2. /\ known' = known \cup {o} /\ acked' = acked \cup {o} /\ ran' = ran
      /\ phase' = [phase EXCEPT ![o] = "start"]
      /\ keyOf' = [k \in Keys |-> IF k = key[o] THEN o ELSE keyOf[k]]
      /\ lock' = Unlocked(o)
  BY DEF Visible
<1>3. up /\ o <= made
  <2>1. phase[o] # "none"
    OBVIOUS
  <2>2. up
    BY <2>1 DEF KInv, Submissions
  <2>3. o <= made
    BY <2>1, BoundAssumption DEF KInv, Submissions, TypeOK, Ids
  <2> QED
    BY <2>2, <2>3
<1>4. \A p \in Ids \ {o} : phase'[p] = phase[p]
  BY <1>2 DEF KInv, TypeOK
<1>5. phase'[o] = "start"
  BY <1>2 DEF KInv, TypeOK
<1>6. ASSUME NEW p \in Ids, phase'[p] \in Submitting
      PROVE  p \notin acked' /\
             (key'[p] # NoKey => lock' = p /\ keyOf'[key'[p]] = NoOp)
  <2>1. p # o /\ phase[p] \in Submitting
    BY <1>4, <1>5, <1>6 DEF Submitting
  <2>2. p \notin acked /\ (key[p] # NoKey => lock = p /\ keyOf[key[p]] = NoOp)
    BY <2>1 DEF KInv, Submissions
  <2>3. CASE key[p] = NoKey
    BY <1>2, <2>1, <2>2, <2>3
  <2>4. CASE key[p] # NoKey
    <3>1. lock = p /\ key[o] = NoKey
      BY <1>1, <2>1, <2>2, <2>4
    <3>2. key[p] \in Keys /\ key[p] # key[o]
      BY <2>4, <3>1 DEF KInv, TypeOK
    <3>3. keyOf'[key[p]] = NoOp /\ lock' = p
      BY <1>2, <2>1, <2>2, <2>4, <3>1, <3>2 DEF Unlocked
    <3> QED
      BY <1>2, <2>1, <2>2, <3>3
  <2> QED
    BY <2>3, <2>4
<1>7. Submissions'
  BY <1>2, <1>3, <1>4, <1>5, <1>6 DEF KInv, Submissions, TypeOK
<1>8. KeysBound'
  <2> SUFFICES ASSUME ~torn PROVE KeysBound'
    BY DEF KeysBound
  <2>1. ASSUME NEW p \in acked, key[p] # NoKey PROVE key[p] # key[o]
    <3>1. keyOf[key[p]] = p
      BY <1>3, <2>1 DEF KInv, KeysBound
    <3>2. p # NoOp
      BY <2>1, BoundAssumption DEF KInv, TypeOK, Ids, NoOp
    <3> QED
      BY <1>1, <2>1, <3>1, <3>2
  <2>2. \A p, q \in acked' : key[p] = key[q] /\ key[p] # NoKey => p = q
    BY <1>2, <2>1 DEF KInv, KeysBound
  <2>3. ASSUME NEW p \in acked', key[p] # NoKey PROVE keyOf'[key[p]] = p
    <3>1. key[p] \in Keys
      BY <1>2, <2>3 DEF KInv, TypeOK
    <3>2. CASE p = o
      BY <1>2, <3>1, <3>2
    <3>3. CASE p # o
      BY <1>2, <1>3, <2>1, <2>3, <3>1, <3>3 DEF KInv, KeysBound
    <3> QED
      BY <3>2, <3>3
  <2>4. \A p \in acked' : p \in known'
    BY <1>2, <1>3 DEF KInv, KeysBound
  <2> QED
    BY <2>2, <2>3, <2>4 DEF KeysBound
<1> QED
  BY <1>7, <1>8

\* A thread past its submission that moves on, or leaves.
LEMMA KMoves ==
    ASSUME KInv, NEW o \in Ids, phase[o] \notin Submitting \cup {"none"},
           NEW p \in {"none", "start", "note", "exec", "final", "release"},
           phase' = [phase EXCEPT ![o] = p],
           UNCHANGED <<up, key, keyOf, lock, known, made, acked>>,
           ran' \in {ran, ran \cup {o}}, torn => torn'
    PROVE  Submissions' /\ KeysBound'
<1>1. o \in acked
  BY DEF KInv, Submissions
<1>2. \A q \in Ids : phase'[q] = IF q = o THEN p ELSE phase[q]
  BY DEF KInv, TypeOK
<1>3. p \notin Submitting
  BY DEF Submitting
<1>4. up /\ o <= made
  BY <1>1 DEF KInv, Submissions
<1>5. Submissions'
  BY <1>1, <1>2, <1>3, <1>4 DEF KInv, Submissions, TypeOK, Ids
<1>6. KeysBound'
  BY DEF KInv, KeysBound
<1> QED
  BY <1>5, <1>6

LEMMA KAppendNewline ==
    ASSUME KInv, NEW o \in Ids, AppendNewline(o)
    PROVE  Submissions' /\ JournalWhole' /\ KeysBound'
<1>1. /\ phase[o] \in Ending /\ tail' = Blank
      /\ UNCHANGED <<up, torn, req, key, made>>
      /\ \/ phase[o] = "reserve_newline" /\ Visible(o)
         \/ phase[o] = "note_newline" /\ Executing(o)
         \/ phase[o] = "final_newline" /\ Releasing(o)
  BY DEF AppendNewline, records, bounds
<1>2. Submissions' /\ KeysBound'
  <2>1. CASE phase[o] = "reserve_newline" /\ Visible(o)
    BY <1>1, <2>1, KVisible
  <2>2. CASE phase[o] = "note_newline" /\ Executing(o)
    BY <1>1, <2>2, KMoves DEF Executing, Submitting
  <2>3. CASE phase[o] = "final_newline" /\ Releasing(o)
    BY <1>1, <2>3, KMoves DEF Releasing, Submitting, history
  <2> QED
    BY <1>1, <2>1, <2>2, <2>3
<1>3. JournalWhole'
  <2> SUFFICES ASSUME ~torn PROVE JournalWhole'
    BY <1>1 DEF JournalWhole
  <2>1. tail \in Line /\ tail.op = o /\ tail.status \in OperationStatus
    BY <1>1 DEF KInv, JournalWhole, Line
  <2>2. log[o] \in Seq(OperationStatus)
    BY DEF KInv, TypeOK
  <2>3. log' = [log EXCEPT ![o] = Append(log[o], tail.status)]
    BY <2>1 DEF AppendNewline, KInv, TypeOK
  <2>4. log'[o] = Append(log[o], tail.status) /\ Append(log[o], tail.status) # <<>>
    BY SMTT(30), <2>1, <2>2, <2>3 DEF KInv, TypeOK
  <2>5. acked' = acked \cup {o}
    <3>1. phase[o] # "reserve_newline" => o \in acked
      BY <1>1, NewlinePhases DEF KInv, Submissions, Submitting
    <3> QED
      BY <1>1, <3>1 DEF Visible, Executing, Releasing, history
  <2>6. \A p \in Ids \ {o} : log'[p] = log[p]
    BY <2>3 DEF KInv, TypeOK
  <2>7. \A p \in Ids : log'[p] # <<>> <=> p \in acked'
    BY <2>4, <2>5, <2>6 DEF KInv, JournalWhole
  <2>8. \A p \in Ids : phase'[p] \notin Ending
    <3>1. phase'[o] \notin Ending
      BY <1>1, NewlinePhases DEF Visible, Executing, Releasing, KInv, TypeOK
    <3>2. \A p \in Ids \ {o} : phase'[p] = phase[p]
      BY <1>1 DEF Visible, Executing, Releasing, KInv, TypeOK
    <3>3. \A p \in Ids \ {o} : phase[p] \notin Ending
      BY <2>1 DEF KInv, JournalWhole
    <3> QED
      BY <3>1, <3>2, <3>3
  <2> QED
    BY <1>1, <2>7, <2>8, NotALine DEF JournalWhole
<1> QED
  BY <1>2, <1>3

LEMMA KAppendFails ==
    ASSUME KInv, NEW o \in Ids, NEW half \in BOOLEAN, AppendFails(o, half)
    PROVE  Submissions' /\ JournalWhole' /\ KeysBound'
<1>1. /\ phase[o] \in Appending \cup Ending
      /\ tail' = (IF half THEN Spoilt ELSE tail) /\ torn' = (torn \/ half)
      /\ UNCHANGED <<up, log, req, key, made>>
  BY DEF AppendFails, records
<1>2. phase[o] # "none" /\ up
  BY <1>1, NewlinePhases DEF KInv, Submissions
<1>3. acked' = acked
  BY DEF AppendFails, AfterLost, Refused, Executing, Releasing, history
<1>4. /\ phase'[o] \notin Ending
      /\ \A p \in Ids \ {o} : phase'[p] = phase[p]
  BY NewlinePhases
     DEF AppendFails, AfterLost, Refused, Executing, Releasing, KInv, TypeOK
<1>5. JournalWhole'
  BY <1>1, <1>3, <1>4 DEF KInv, JournalWhole
<1>6. CASE phase[o] \in {"reserve", "reserve_newline"}
  <2>1. /\ phase' = [phase EXCEPT ![o] = "none"] /\ lock' = Unlocked(o)
        /\ UNCHANGED <<known, keyOf, acked, ran>>
    BY <1>6 DEF AppendFails, Refused, history
  <2>2. ASSUME NEW p \in Ids, phase'[p] \in Submitting
        PROVE  p \notin acked' /\
               (key'[p] # NoKey => lock' = p /\ keyOf'[key'[p]] = NoOp)
    <3>1. p # o /\ phase[p] \in Submitting
      BY <2>1, <2>2 DEF Submitting, KInv, TypeOK
    <3> QED
      BY <1>1, <2>1, <3>1 DEF KInv, Submissions, Unlocked
  <2>3. Submissions'
    BY <1>1, <1>2, <1>4, <2>1, <2>2 DEF KInv, Submissions, TypeOK
  <2>4. KeysBound'
    BY <1>1, <2>1 DEF KInv, KeysBound
  <2> QED
    BY <1>5, <2>3, <2>4
<1>7. CASE phase[o] \notin {"reserve", "reserve_newline"}
  <2>1. Executing(o) \/ Releasing(o)
    BY <1>7 DEF AppendFails, AfterLost
  <2>2. Submissions' /\ KeysBound'
    BY <1>1, <1>2, <1>7, <2>1, KMoves
       DEF Executing, Releasing, Submitting, history
  <2> QED
    BY <1>5, <2>2
<1> QED
  BY <1>6, <1>7

\* The task's own steps leave the journal alone.
LEMMA KTask ==
    ASSUME KInv, NEW o \in Ids,
           MarkRunning(o) \/ Release(o) \/ Finish(o)
    PROVE  Submissions' /\ JournalWhole' /\ KeysBound'
<1>1. PICK p \in {"note", "none", "final"} : phase' = [phase EXCEPT ![o] = p]
  BY DEF MarkRunning, Release, Finish
<1>2. phase[o] \notin Submitting \cup {"none"}
  BY DEF MarkRunning, Release, Finish, Submitting
<1>3. UNCHANGED <<up, key, keyOf, lock, known, made, acked, ran, log, tail, torn>>
  BY DEF MarkRunning, Release, Finish, journal, records, history, bounds
<1>4. Submissions' /\ KeysBound'
  BY <1>1, <1>2, <1>3, KMoves
<1>5. \A q \in Ids : phase'[q] \in Ending => phase[q] \in Ending
  BY <1>1, NewlinePhases DEF KInv, TypeOK
<1>6. JournalWhole'
  BY <1>3, <1>5 DEF KInv, JournalWhole
<1> QED
  BY <1>4, <1>6

LEMMA KCrash == KInv /\ Crash => Submissions' /\ JournalWhole' /\ KeysBound'
<1> SUFFICES ASSUME KInv, Crash
             PROVE  Submissions' /\ JournalWhole' /\ KeysBound'
  OBVIOUS
<1>1. /\ \A o \in Ids : phase'[o] = "none"
      /\ UNCHANGED <<log, tail, torn, key, acked, ran, made>> /\ up' = FALSE
  BY DEF Crash, Forgotten, journal, records, history
<1>2. Submissions'
  BY <1>1 DEF KInv, Submissions, Submitting
<1>3. JournalWhole'
  <2>1. \A o \in Ids : phase'[o] \notin Ending
    BY <1>1, NewlinePhases
  <2> QED
    BY <1>1, <2>1 DEF KInv, JournalWhole
<1>4. KeysBound'
  BY <1>1 DEF KInv, KeysBound
<1> QED
  BY <1>2, <1>3, <1>4

\* In a journal that is not torn after open, what open read has a line exactly
\* for what was acknowledged.
LEMMA OpenReads ==
    ASSUME KInv, Open, ~torn'
    PROVE  /\ ~torn /\ tail' = tail
           /\ \A o \in Ids : Lines(o) # <<>> <=> o \in acked
           /\ \A o \in Ids : log'[o] # <<>> <=> o \in acked
<1>1. tail = Blank \/ \A o \in Ids : Unfinished(o) = {}
  BY DEF Open
<1>2. /\ log' = [o \in Ids |-> log[o] \o Notes(Cardinality(Unfinished(o)))]
      /\ tail' = tail /\ torn' = torn
  BY <1>1 DEF Open
<1>3. /\ \A o \in Ids : log[o] # <<>> <=> o \in acked
      /\ tail \in Line /\ tail.op \notin acked => tail.status = "queued"
  BY <1>2 DEF KInv, JournalWhole
<1>4. ASSUME NEW o \in Ids PROVE Lines(o) # <<>> <=> o \in acked
  <2>0. log[o] \in Seq(OperationStatus)
    BY DEF KInv, TypeOK
  <2>1. CASE tail \in Line /\ tail.op = o
    <3>1. Lines(o) = Append(log[o], tail.status)
      BY <2>1 DEF Lines
    <3>2. tail.status \in OperationStatus /\ Lines(o) # <<>>
      BY <2>0, <2>1, <3>1 DEF Line
    <3>3. Unfinished(o) = {}
      BY <1>1, <2>1, NotALine
    <3>4. Len(Lines(o)) \in DOMAIN Lines(o) /\ Lines(o)[Len(Lines(o))] = tail.status
      BY <2>0, <3>1, <3>2
    <3>5. tail.status \in Terminal
      BY <3>3, <3>4 DEF Unfinished
    <3> QED
      BY <1>3, <2>1, <3>2, <3>5 DEF Terminal
  <2>2. CASE ~(tail \in Line /\ tail.op = o)
    BY <1>3, <2>2 DEF Lines
  <2> QED
    BY <2>1, <2>2
<1>5. ASSUME NEW o \in Ids PROVE log'[o] # <<>> <=> o \in acked
  <2>1. log[o] \in Seq(OperationStatus) /\ Cardinality(Unfinished(o)) \in Nat
    BY LinesType DEF KInv, TypeOK
  <2>2. Notes(Cardinality(Unfinished(o))) \in Seq(OperationStatus)
    BY <2>1 DEF Notes, OperationStatus
  <2>3. log'[o] = log[o] \o Notes(Cardinality(Unfinished(o)))
    BY <1>2
  <2>4. o \in acked => log'[o] # <<>>
    BY <1>3, <2>1, <2>2, <2>3
  <2>5. o \notin acked => log'[o] = <<>>
    <3> SUFFICES ASSUME o \notin acked PROVE log'[o] = <<>>
      OBVIOUS
    <3>1. Lines(o) = <<>> /\ log[o] = <<>>
      BY <1>3, <1>4
    <3>2. Unfinished(o) = {}
      BY <3>1 DEF Unfinished
    <3>3. Cardinality(Unfinished(o)) = 0
      BY <3>2, FS_EmptySet
    <3>4. Notes(Cardinality(Unfinished(o))) = <<>>
      BY <3>3 DEF Notes
    <3> QED
      BY <2>3, <3>1, <3>4
  <2> QED
    BY <2>4, <2>5
<1> QED
  BY <1>2, <1>4, <1>5

LEMMA KOpen == KInv /\ Open => Submissions' /\ JournalWhole' /\ KeysBound'
<1> SUFFICES ASSUME KInv, Open
             PROVE  Submissions' /\ JournalWhole' /\ KeysBound'
  OBVIOUS
<1>1. /\ \A o \in Ids : phase'[o] = "none" /\ phase[o] = "none"
      /\ UNCHANGED <<key, acked, ran, made>> /\ up' = TRUE
  BY DEF Open, records, history, bounds, KInv, Submissions
<1>2. Submissions'
  BY <1>1 DEF KInv, Submissions, Submitting
<1>3. JournalWhole'
  <2> SUFFICES ASSUME ~torn' PROVE JournalWhole'
    BY DEF JournalWhole
  <2>1. \A o \in Ids : phase'[o] \notin Ending
    BY <1>1, NewlinePhases
  <2>2. ~torn /\ tail' = tail /\ \A o \in Ids : log'[o] # <<>> <=> o \in acked
    BY OpenReads
  <2> QED
    BY <1>1, <2>1, <2>2 DEF KInv, JournalWhole
<1>4. KeysBound'
  <2> SUFFICES ASSUME ~torn' PROVE KeysBound'
    BY DEF KeysBound
  <2>1. ~torn /\ \A o \in Ids : Lines(o) # <<>> <=> o \in acked
    BY OpenReads
  <2>2. \A o, p \in acked : key[o] = key[p] /\ key[o] # NoKey => o = p
    BY <2>1 DEF KInv, KeysBound
  <2>3. ASSUME NEW o \in acked
        PROVE  o \in known' /\ (key[o] # NoKey => keyOf'[key[o]] = o)
    <3>1. o \in Ids /\ Lines(o) # <<>>
      BY <2>1, <2>3 DEF KInv, TypeOK
    <3>2. o \in known'
      BY <3>1 DEF Open
    <3>3. ASSUME key[o] # NoKey PROVE keyOf'[key[o]] = o
      <4>1. key[o] \in Keys
        BY <3>1, <3>3 DEF KInv, TypeOK
      <4>2. o \in KeyOwners(key[o])
        BY <3>1 DEF KeyOwners
      <4>3. keyOf'[key[o]] \in KeyOwners(key[o])
        BY <4>1, <4>2 DEF Open
      <4>4. keyOf'[key[o]] \in acked /\ key[keyOf'[key[o]]] = key[o]
        BY <2>1, <4>3 DEF KeyOwners
      <4> QED
        BY <2>2, <2>3, <3>3, <4>4
    <3> QED
      BY <3>2, <3>3
  <2> QED
    BY <1>1, <2>2, <2>3 DEF KeysBound
<1> QED
  BY <1>2, <1>3, <1>4

LEMMA KStep == KInv /\ [Next]_vars => KInv'
<1> SUFFICES ASSUME KInv, [Next]_vars PROVE KInv'
  OBVIOUS
<1>0. TypeOK'
  BY TypeStep DEF KInv
<1>1. ASSUME NEW k \in Keys \cup {NoKey}, NEW r \in Requests, Reserve(k, r)
      PROVE  KInv'
  BY <1>0, <1>1, KReserve DEF KInv
<1>2. ASSUME NEW o \in Ids, Thread(o) \/ Finish(o) PROVE KInv'
  BY <1>0, <1>2, KAppendRecord, KAppendNewline, KTask DEF KInv, Thread
<1>3. ASSUME NEW o \in Ids, Cancel(o) PROVE KInv'
  <2>1. UNCHANGED <<up, phase, known, keyOf, lock, log, tail, torn, key, acked,
                    ran, made>>
    BY <1>3 DEF Cancel, journal, records, history, bounds
  <2> QED
    BY <1>0, <2>1 DEF KInv, Submissions, JournalWhole, KeysBound
<1>4. ASSUME NEW o \in Ids, NEW half \in BOOLEAN, AppendFails(o, half)
      PROVE  KInv'
  BY <1>0, <1>4, KAppendFails DEF KInv
<1>5. ASSUME Crash PROVE KInv'
  BY <1>0, <1>5, KCrash DEF KInv
<1>6. ASSUME Open PROVE KInv'
  BY <1>0, <1>6, KOpen DEF KInv
<1>7. ASSUME UNCHANGED vars PROVE KInv'
  <2>1. UNCHANGED <<up, phase, known, keyOf, lock, log, tail, torn, key, acked,
                    ran, made>>
    BY <1>7 DEF vars, memory, journal, records, history, bounds
  <2> QED
    BY <1>0, <2>1 DEF KInv, Submissions, JournalWhole, KeysBound
<1> QED
  BY <1>1, <1>2, <1>3, <1>4, <1>5, <1>6, <1>7 DEF Next

THEOREM KInvHolds == Spec => []KInv
<1> QED
  BY KInit, KStep, PTL DEF Spec

\* submit: no two operations of one key reach their executor, across any
\* number of restarts, while no line of the journal is spoilt.
THEOREM NoDuplicateHolds == Spec => []WholeJournalNoDuplicate
<1>1. KInv => WholeJournalNoDuplicate
  BY DEF KInv, Submissions, KeysBound, WholeJournalNoDuplicate, NoDuplicate
<1> QED
  BY <1>1, KInvHolds, PTL

\* register and open: what a client was told of, it finds again under its key.
THEOREM AcknowledgedStaysHolds == Spec => []AcknowledgedStays
<1>1. ASSUME KInv PROVE AcknowledgedStays
  <2> SUFFICES ASSUME up, ~torn, NEW o \in acked
               PROVE  /\ o \in known
                      /\ key[o] # NoKey =>
                           /\ keyOf[key[o]] = o
                           /\ Outcome(key[o], req[o]) = "replayed"
                           /\ \A r \in Requests \ {req[o]} :
                                  req[o] # NoHash =>
                                      Outcome(key[o], r) = "conflict"
    BY DEF AcknowledgedStays
  <2>1. o \in known /\ (key[o] # NoKey => keyOf[key[o]] = o)
    BY <1>1 DEF KInv, KeysBound
  <2>2. o # NoOp
    BY <1>1, BoundAssumption DEF KInv, TypeOK, Ids, NoOp
  <2>3. ASSUME key[o] # NoKey
        PROVE  /\ Outcome(key[o], req[o]) = "replayed"
               /\ \A r \in Requests \ {req[o]} :
                      req[o] # NoHash => Outcome(key[o], r) = "conflict"
    BY <2>1, <2>2, <2>3 DEF Outcome, Bound, SameRequest
  <2> QED
    BY <2>1, <2>3
<1> QED
  BY <1>1, KInvHolds, PTL

-----------------------------------------------------------------------------
(***************************************************************************)
(* What the first restart shows.  Up to it the result of an operation is   *)
(* the last line the journal has of it; after it the first line that is a  *)
(* result still is the one shown, whatever open has noted behind it.       *)
(***************************************************************************)
\* The tasks of operations end them, and only then leave.
Working == {"reserve", "reserve_newline", "start", "note", "note_newline", "exec"}
TasksInv ==
    /\ \A o \in known \cup {p \in Ids : log[p] # <<>>} : o <= made
    /\ tail \in Line => tail.op <= made
    /\ \A o \in Ids : /\ phase[o] \in Submitting => o \notin known
                      /\ phase[o] = "note" => status[o] = "running"
                      /\ phase[o] \in {"final", "final_newline", "release"} =>
                            status[o] \in Terminal
    /\ \A o \in known : phase[o] = "none" => status[o] \in Terminal

\* The first result among the lines of an operation.
FirstEnd(o) == {i \in DOMAIN Lines(o) :
    /\ Lines(o)[i] \in Terminal
    /\ \A j \in 1..(i - 1) : Lines(o)[j] \notin Terminal}
Going(o) == phase[o] \in Working \cup {"final"}
NoEnd(o) == \A i \in DOMAIN Lines(o) : Lines(o)[i] \notin Terminal
EndsLast(o) == \A i \in DOMAIN Lines(o) : Lines(o)[i] \in Terminal => i = Len(Lines(o))
LinesInv ==
    ~torn /\ crashes <= 1 =>
        \A o \in Ids :
            /\ Going(o) => NoEnd(o)
            /\ up /\ ~Going(o) => \A i \in FirstEnd(o) : status[o] = Lines(o)[i]
            /\ crashes = 0 \/ ~up => EndsLast(o)

LEMMA TasksInit == Init => TasksInv /\ LinesInv
<1> SUFFICES ASSUME Init PROVE TasksInv /\ LinesInv
  OBVIOUS
<1>1. PICK legacy \in {{}, {1}} :
        /\ log = [o \in Ids |-> IF o \in legacy THEN <<"succeeded">> ELSE <<>>]
        /\ made = Cardinality(legacy)
  BY DEF Init
<1>2. Cardinality({}) = 0 /\ Cardinality({1}) = 1
  BY FS_EmptySet, FS_Singleton
<1>3. /\ \A o \in Ids : phase[o] = "none"
      /\ tail = Blank /\ ~up /\ known = {}
  BY DEF Init
<1>4. \A o \in Ids : log[o] # <<>> => o <= made
  <2>1. CASE legacy = {}
    BY <1>1, <2>1
  <2>2. CASE legacy = {1}
    <3>1. made = 1 /\ \A o \in Ids : log[o] # <<>> => o = 1
      BY <1>1, <1>2, <2>2
    <3> QED
      BY <3>1
  <2> QED
    BY <2>1, <2>2
<1>5. TasksInv
  BY <1>3, <1>4, NotALine DEF TasksInv, Submitting
<1>6. \A o \in Ids : Lines(o) \in {<<>>, <<"succeeded">>}
  BY <1>1, <1>3, NotALine DEF Lines
<1>7. \A o \in Ids : EndsLast(o) /\ ~Going(o)
  <2>1. ASSUME NEW o \in Ids PROVE EndsLast(o)
    <3>1. CASE Lines(o) = <<>>
      BY <3>1 DEF EndsLast
    <3>2. CASE Lines(o) = <<"succeeded">>
      BY <3>2 DEF EndsLast
    <3> QED
      BY <1>6, <3>1, <3>2
  <2> QED
    BY <1>3, <2>1 DEF Going, Working
<1> QED
  BY <1>3, <1>5, <1>7 DEF LinesInv

\* What is appended to a journal that stays whole.
LEMMA LinesMove ==
    ASSUME KInv, NEW o \in Ids, ~torn', ~torn, [Next]_vars, ~Open
    PROVE  \/ Lines(o)' = Lines(o)
           \/ /\ AppendRecord(o)
              /\ Lines(o)' = Append(Lines(o), IF phase[o] = "reserve" THEN "queued"
                                              ELSE status[o])
<1>0. log \in [Ids -> Seq(OperationStatus)]
  BY DEF KInv, TypeOK
<1>1. CASE log' = log /\ tail' = tail
  BY <1>1 DEF Lines
<1>2. ASSUME NEW p \in Ids, AppendRecord(p)
      PROVE  \/ Lines(o)' = Lines(o)
             \/ /\ AppendRecord(o)
                /\ Lines(o)' = Append(Lines(o), IF phase[o] = "reserve" THEN "queued"
                                                ELSE status[o])
  <2>1. tail = Blank /\ log' = log
        /\ tail' = [op |-> p, status |-> IF phase[p] = "reserve" THEN "queued"
                                         ELSE status[p]]
    BY <1>2 DEF AppendRecord
  <2>2. Lines(o) = log[o]
    BY <2>1, NotALine DEF Lines
  <2>3. tail' \in Line /\ tail'.op = p
    BY <2>1 DEF Line, KInv, TypeOK, OperationStatus
  <2>4. CASE p = o
    <3>1. Lines(o)' = Append(log[o], tail'.status)
      BY <2>1, <2>3, <2>4 DEF Lines
    <3> QED
      BY <1>2, <2>1, <2>2, <2>4, <3>1
  <2>5. CASE p # o
    BY <2>1, <2>2, <2>3, <2>5 DEF Lines
  <2> QED
    BY <2>4, <2>5
<1>3. ASSUME NEW p \in Ids, AppendNewline(p) PROVE Lines(o)' = Lines(o)
  <2>1. phase[p] \in Ending /\ tail' = Blank
    BY <1>3 DEF AppendNewline
  <2>2. tail \in Line /\ tail.op = p
    BY <2>1 DEF KInv, JournalWhole
  <2>3. log' = [log EXCEPT ![p] = Append(log[p], tail.status)]
    BY <1>0, <1>3, <2>2 DEF AppendNewline
  <2>4. Lines(o)' = log'[o]
    BY <2>1, NotALine DEF Lines
  <2> QED
    BY <1>0, <2>2, <2>3, <2>4 DEF Lines
<1>4. ASSUME NEW p \in Ids, NEW half \in BOOLEAN, AppendFails(p, half)
      PROVE  log' = log /\ tail' = tail
  BY <1>4 DEF AppendFails
<1>5. ASSUME NEW p \in Ids, MarkRunning(p) \/ Release(p) \/ Finish(p) \/ Cancel(p)
      PROVE  log' = log /\ tail' = tail
  BY <1>5 DEF MarkRunning, Release, Finish, Cancel, journal
<1>6. ASSUME \/ \E k \in Keys \cup {NoKey}, r \in Requests : Reserve(k, r)
             \/ Crash \/ UNCHANGED vars
      PROVE  log' = log /\ tail' = tail
  BY <1>6 DEF Reserve, Crash, vars, journal
<1> QED
  BY <1>1, <1>2, <1>3, <1>4, <1>5, <1>6 DEF Next, Thread

\* How the thread of an operation moves.
Idle(o) == phase'[o] = phase[o] /\ status'[o] = status[o]
LEMMA TaskMoves ==
    ASSUME KInv, NEW o \in Ids, [Next]_vars, ~Open, ~Crash
    PROVE  \/ Idle(o)
           \/ o = made' /\ o = made + 1 /\ phase'[o] = "reserve" /\ status'[o] = status[o]
           \/ AppendRecord(o) /\ phase'[o] = Newline[phase[o]] /\ status'[o] = status[o]
           \/ phase[o] = "reserve_newline" /\ phase'[o] = "start"
           \/ phase[o] \in Submitting /\ phase'[o] = "none" /\ status'[o] = status[o]
           \/ phase[o] = "start" /\ phase'[o] = "note" /\ status'[o] = "running"
           \/ /\ phase[o] \in {"note", "note_newline"} /\ phase'[o] = "exec"
              /\ status'[o] = status[o]
           \/ phase[o] = "exec" /\ phase'[o] = "final" /\ status'[o] \in Terminal
           \/ /\ phase[o] \in {"final", "final_newline"} /\ phase'[o] = "release"
              /\ status'[o] = status[o]
           \/ phase[o] = "release" /\ phase'[o] = "none" /\ status'[o] = status[o]
<1>0. phase \in [Ids -> Phase] /\ status \in [Ids -> OperationStatus]
  BY DEF KInv, TypeOK
<1>1. ASSUME NEW k \in Keys \cup {NoKey}, NEW r \in Requests, Reserve(k, r)
      PROVE  \/ Idle(o)
             \/ o = made' /\ o = made + 1 /\ phase'[o] = "reserve" /\ status'[o] = status[o]
  <2>1. phase' = [phase EXCEPT ![made + 1] = "reserve"] /\ status' = status
        /\ made' = made + 1
    BY <1>1 DEF Reserve
  <2> QED
    BY <1>0, <2>1 DEF Idle
<1>2. ASSUME NEW p \in Ids, p # o,
             \/ Thread(p) \/ Finish(p) \/ \E half \in BOOLEAN : AppendFails(p, half)
      PROVE  Idle(o)
  BY <1>0, <1>2
     DEF Idle, Thread, AppendRecord, AppendNewline, MarkRunning, Release, Finish,
         AppendFails, AfterLost, Refused, Visible, Executing, Releasing
<1>3. ASSUME NEW p \in Ids, Cancel(p) PROVE Idle(o)
  BY <1>3 DEF Cancel, Idle
<1>4. CASE UNCHANGED vars
  BY <1>4 DEF vars, memory, Idle
<1>5. CASE AppendRecord(o)
  BY <1>0, <1>5 DEF AppendRecord
<1>6. CASE AppendNewline(o)
  <2>1. CASE phase[o] = "reserve_newline" /\ Visible(o)
    BY <1>0, <2>1 DEF Visible
  <2>2. CASE phase[o] = "note_newline" /\ Executing(o)
    BY <1>0, <2>2 DEF Executing
  <2>3. CASE phase[o] = "final_newline" /\ Releasing(o)
    BY <1>0, <2>3 DEF Releasing
  <2> QED
    BY <1>6, <2>1, <2>2, <2>3 DEF AppendNewline
<1>7. ASSUME NEW half \in BOOLEAN, AppendFails(o, half)
      PROVE  \/ phase[o] \in Submitting /\ phase'[o] = "none" /\ status'[o] = status[o]
             \/ /\ phase[o] \in {"note", "note_newline"} /\ phase'[o] = "exec"
                /\ status'[o] = status[o]
             \/ /\ phase[o] \in {"final", "final_newline"} /\ phase'[o] = "release"
                /\ status'[o] = status[o]
  <2>1. phase[o] \in Submitting \cup {"note", "note_newline", "final", "final_newline"}
    BY <1>7, NewlinePhases DEF AppendFails, Appending, Submitting
  <2>2. CASE phase[o] \in Submitting
    BY <1>0, <1>7, <2>2 DEF AppendFails, Refused, Submitting
  <2>3. CASE phase[o] \in {"note", "note_newline"}
    <3>1. Executing(o)
      BY <1>7, <2>3 DEF AppendFails, AfterLost
    <3> QED
      BY <1>0, <2>3, <3>1 DEF Executing
  <2>4. CASE phase[o] \in {"final", "final_newline"}
    <3>1. Releasing(o)
      BY <1>7, <2>4 DEF AppendFails, AfterLost
    <3> QED
      BY <1>0, <2>4, <3>1 DEF Releasing
  <2> QED
    BY <2>1, <2>2, <2>3, <2>4
<1>8. CASE MarkRunning(o)
  BY <1>0, <1>8 DEF MarkRunning
<1>9. CASE Finish(o)
  <2>1. PICK end \in {"succeeded", "failed"} : status' = [status EXCEPT ![o] = Verdict(o, end)]
    BY <1>9 DEF Finish
  <2>2. Verdict(o, end) \in Terminal
    BY DEF Verdict, Terminal
  <2> QED
    BY <1>0, <1>9, <2>1, <2>2 DEF Finish
<1>10. CASE Release(o)
  BY <1>0, <1>10 DEF Release
<1> QED
  BY <1>1, <1>2, <1>3, <1>4, <1>5, <1>6, <1>7, <1>8, <1>9, <1>10 DEF Next, Thread

LEMMA TasksStep ==
    ASSUME GInv, KInv, TasksInv, [Next]_vars
    PROVE  TasksInv'
<1>0. /\ log \in [Ids -> Seq(OperationStatus)] /\ made \in Nat
      /\ made' \in Nat /\ known' \subseteq Ids
  <2>1. TypeOK'
    BY TypeStep DEF KInv
  <2> QED
    BY <2>1 DEF KInv, TypeOK
<1>a. made' >= made
  BY <1>0 DEF Next, Reserve, Thread, AppendRecord, AppendNewline, MarkRunning, Release,
              Finish, Cancel, AppendFails, Crash, Open, bounds, vars
<1>b. \A o \in Ids : phase[o] # "none" => o <= made
  BY <1>0 DEF KInv, Submissions, Ids
<1>c. \A o \in Ids : Lines(o) # <<>> => o <= made
  BY DEF TasksInv, Lines
<1>1. tail' \in Line => tail'.op <= made'
  <2>1. CASE tail' = tail
    BY <1>0, <1>a, <2>1 DEF TasksInv, Line, Ids
  <2>2. ASSUME NEW o \in Ids, AppendRecord(o) PROVE tail'.op <= made' \/ tail' \notin Line
    <3>1. o <= made
      BY <1>b, <2>2, NewlinePhases DEF AppendRecord
    <3>2. tail' = Spoilt \/ tail'.op = o
      BY <2>2 DEF AppendRecord
    <3> QED
      BY <1>0, <1>a, <3>1, <3>2, NotALine DEF Ids
  <2>3. tail' \in {tail, Blank, Spoilt} \/ \E o \in Ids : AppendRecord(o)
    BY DEF Next, Reserve, Thread, AppendNewline, MarkRunning, Release, Finish, Cancel,
           AppendFails, Crash, Open, vars, journal
  <2> QED
    BY <2>1, <2>2, <2>3, NotALine
<1>2. ASSUME NEW o \in Ids, log'[o] # <<>> PROVE o <= made'
  <2>1. CASE log[o] # <<>>
    BY <1>0, <1>a, <2>1 DEF TasksInv, Ids
  <2>2. CASE log[o] = <<>> /\ ~Open
    <3>1. PICK p \in Ids : AppendNewline(p)
      BY <1>2, <2>2 DEF Next, Reserve, Thread, AppendRecord, MarkRunning, Release,
             Finish, Cancel, AppendFails, Crash, vars, journal
    <3>2. tail \in Line /\ tail.op = o
      BY <1>0, <1>2, <2>2, <3>1 DEF AppendNewline
    <3> QED
      BY <1>0, <1>a, <3>2 DEF TasksInv, Ids
  <2>3. CASE log[o] = <<>> /\ Open /\ Lines(o) = <<>>
    <3>1. Unfinished(o) = {}
      BY <2>3 DEF Unfinished
    <3>2. Cardinality(Unfinished(o)) = 0
      BY <3>1, FS_EmptySet
    <3>3. log'[o] = log[o] \o Notes(0)
      <4>1. CASE log' = [p \in Ids |-> log[p] \o Notes(Cardinality(Unfinished(p)))]
        BY <3>2, <4>1
      <4>2. ASSUME NEW first \in Ids, Unfinished(first) # {},
                   log' = [p \in Ids |-> log[p] \o
                              Notes(Cardinality(Unfinished(p))
                                    - IF p = first THEN 1 ELSE 0)]
            PROVE  log'[o] = log[o] \o Notes(0)
        <5>1. o # first
          BY <3>1, <4>2
        <5>2. log'[o] = log[o] \o Notes(0 - 0)
          BY <3>2, <4>2, <5>1
        <5> QED
          BY <5>2
      <4> QED
        BY <2>3, <4>1, <4>2 DEF Open
    <3>4. Notes(0) = <<>>
      BY DEF Notes
    <3> QED
      BY <1>2, <2>3, <3>3, <3>4
  <2>4. CASE Lines(o) # <<>>
    BY <1>0, <1>a, <1>c, <2>4 DEF Ids
  <2> QED
    BY <2>1, <2>2, <2>3, <2>4
<1>3. ASSUME NEW o \in known' PROVE o <= made'
  <2>0. o \in Ids
    BY <1>0
  <2>1. CASE o \in known
    BY <1>0, <1>a, <2>0, <2>1 DEF TasksInv, Ids
  <2>2. CASE Open
    BY <1>0, <1>a, <1>c, <2>0, <2>2 DEF Open, Ids
  <2>3. CASE o \notin known /\ ~Open
    <3>1. phase[o] = "reserve_newline"
      BY <1>3, <2>3 DEF Next, Reserve, Thread, AppendRecord, AppendNewline, Visible,
             Executing, Releasing, MarkRunning, Release, Finish, Cancel, AppendFails,
             AfterLost, Refused, Crash, Forgotten, vars, memory
    <3> QED
      BY <1>0, <1>a, <1>b, <2>0, <3>1 DEF Ids
  <2> QED
    BY <2>1, <2>2, <2>3
<1>d. ~Open => \A o \in known' : o \in known \/ phase'[o] = "start"
  BY DEF Next, Reserve, Thread, AppendRecord, AppendNewline, Visible, KInv, TypeOK,
         Executing, Releasing, MarkRunning, Release, Finish, Cancel, AppendFails,
         AfterLost, Refused, Crash, Forgotten, vars, memory
<1>4. ASSUME NEW o \in Ids
      PROVE  /\ phase'[o] \in Submitting => o \notin known'
             /\ phase'[o] = "note" => status'[o] = "running"
             /\ phase'[o] \in {"final", "final_newline", "release"} =>
                    status'[o] \in Terminal
             /\ o \in known' /\ phase'[o] = "none" => status'[o] \in Terminal
  <2>1. CASE Open
    <3>1. phase'[o] = "none"
      BY <2>1 DEF Open, KInv, Submissions
    <3>2. o \in known' => Lines(o) # <<>> /\ status'[o] = Restored(o)
      BY <2>1 DEF Open
    <3>3. o \in known' => status'[o] \in Terminal
      BY <3>2, RestoredType DEF KInv
    <3> QED
      BY <3>1, <3>3 DEF Submitting
  <2>2. CASE Crash
    BY <2>2 DEF Crash, Forgotten, Submitting
  <2>3. CASE ~Open /\ ~Crash
    <3>0. o \in known' => o \in known \/ phase'[o] = "start"
      BY <1>d, <2>3
    <3>1. CASE Idle(o)
      BY <3>0, <3>1 DEF Idle, TasksInv, Submitting
    <3>2. CASE o = made + 1 /\ phase'[o] = "reserve"
      <4>1. o \notin known
        BY <1>0, <3>2 DEF TasksInv
      <4> QED
        BY <3>0, <3>2, <4>1
    <3>3. CASE AppendRecord(o) /\ phase'[o] = Newline[phase[o]] /\ status'[o] = status[o]
      <4>1. /\ phase[o] \in Appending
            /\ Newline["reserve"] = "reserve_newline" /\ Newline["note"] = "note_newline"
            /\ Newline["final"] = "final_newline"
        BY <3>3 DEF AppendRecord, Newline, Appending
      <4> QED
        BY <3>0, <3>3, <4>1 DEF TasksInv, Appending, Submitting
    <3>4. CASE \/ phase[o] = "reserve_newline" /\ phase'[o] = "start"
               \/ phase[o] \in Submitting /\ phase'[o] = "none" /\ status'[o] = status[o]
      BY <3>0, <3>4 DEF TasksInv, Submitting
    <3>5. CASE \/ phase[o] = "start" /\ phase'[o] = "note" /\ status'[o] = "running"
               \/ phase'[o] = "exec"
               \/ phase'[o] = "final" /\ status'[o] \in Terminal
      BY <3>5 DEF Submitting
    <3>6. CASE \/ /\ phase[o] \in {"final", "final_newline"} /\ phase'[o] = "release"
                  /\ status'[o] = status[o]
               \/ phase[o] = "release" /\ phase'[o] = "none" /\ status'[o] = status[o]
      BY <3>6 DEF TasksInv, Submitting
    <3> QED
      BY <2>3, <3>1, <3>2, <3>3, <3>4, <3>5, <3>6, TaskMoves
  <2> QED
    BY <2>1, <2>2, <2>3
<1>5. \A o \in known' \cup {p \in Ids : log'[p] # <<>>} : o <= made'
  BY <1>2, <1>3
<1>6. \A o \in known' : phase'[o] = "none" => status'[o] \in Terminal
  BY <1>0, <1>4
<1> QED
  BY <1>1, <1>4, <1>5, <1>6 DEF TasksInv

\* A line at the end: a result becomes the first one where there was none.
LEMMA AppendedLine ==
    ASSUME NEW o, NEW s \in OperationStatus, Lines(o) \in Seq(OperationStatus), NoEnd(o),
           Lines(o)' = Append(Lines(o), s)
    PROVE  /\ s \notin Terminal => NoEnd(o)'
           /\ EndsLast(o)'
           /\ \A i \in FirstEnd(o)' : Lines(o)'[i] = s
<1> DEFINE old == Lines(o)
           new == Lines(o)'
<1>1. /\ Len(new) = Len(old) + 1 /\ Len(old) \in Nat
      /\ DOMAIN new = 1..(Len(old) + 1) /\ DOMAIN old = 1..Len(old)
      /\ \A i \in 1..Len(old) : new[i] = old[i]
      /\ new[Len(old) + 1] = s
  OBVIOUS
<1>2. \A i \in 1..Len(old) : old[i] \notin Terminal
  BY <1>1 DEF NoEnd
<1> HIDE DEF old, new
<1>3. \A i \in DOMAIN new : new[i] \in Terminal => i = Len(new) /\ new[i] = s
  BY <1>1, <1>2
<1>4. s \notin Terminal => \A i \in DOMAIN new : new[i] \notin Terminal
  BY <1>1, <1>3
<1> QED
  BY <1>3, <1>4 DEF new, NoEnd, EndsLast, FirstEnd

\* A line that is noted behind a journal in which results come last.
LEMMA OpenShows ==
    ASSUME KInv, Open, ~torn', NEW o \in Ids, EndsLast(o)
    PROVE  \A i \in FirstEnd(o)' : status'[o] = Lines(o)'[i]
<1> DEFINE old == Lines(o)
           new == Lines(o)'
<1> SUFFICES ASSUME NEW i \in DOMAIN new, new[i] \in Terminal,
                    \A j \in 1..(i - 1) : new[j] \notin Terminal
             PROVE  status'[o] = new[i]
  BY DEF FirstEnd
<1>0. old \in Seq(OperationStatus) /\ log[o] \in Seq(OperationStatus)
      /\ Cardinality(Unfinished(o)) \in Nat /\ Unfinished(o) \subseteq DOMAIN old
  BY LinesType DEF KInv, TypeOK, Unfinished
<1>1. /\ log' = [p \in Ids |-> log[p] \o Notes(Cardinality(Unfinished(p)))]
      /\ tail' = tail
  BY DEF Open
<1>2. status'[o] = IF old # <<>> THEN Restored(o) ELSE "queued"
  BY DEF Open
<1>3. old # <<>> => /\ Len(old) \in DOMAIN old
                    /\ Restored(o) = IF old[Len(old)] \in Terminal THEN old[Len(old)]
                                     ELSE "failed"
  BY <1>0 DEF Restored
<1>4. CASE tail # Blank
  <2>1. Unfinished(o) = {}
    BY <1>4 DEF Open
  <2>2. log'[o] = log[o] \o Notes(0)
    BY <1>1, <2>1, FS_EmptySet
  <2>3. Notes(0) = <<>>
    BY DEF Notes
  <2>4. log'[o] = log[o]
    BY <1>0, <2>2, <2>3
  <2>5. new = old
    BY <1>1, <2>4 DEF Lines
  <2>6. i = Len(old) /\ old # <<>>
    BY <1>0, <2>5 DEF EndsLast
  <2> QED
    BY <1>2, <1>3, <2>5, <2>6
<1>5. CASE tail = Blank
  <2> DEFINE n == Cardinality(Unfinished(o))
  <2>1. old = log[o] /\ new = old \o Notes(n)
    BY <1>1, <1>5, NotALine DEF Lines
  <2>2. Notes(n) \in Seq(OperationStatus) /\ Len(Notes(n)) = n
        /\ \A j \in 1..n : Notes(n)[j] = "failed"
    BY <1>0 DEF Notes, OperationStatus
  <2>3. n \in Nat /\ Len(old) \in Nat
    BY <1>0
  <2> HIDE DEF n
  <2>4. /\ DOMAIN new = 1..(Len(old) + n)
        /\ \A j \in 1..Len(old) : new[j] = old[j]
        /\ \A j \in (Len(old) + 1)..(Len(old) + n) : new[j] = "failed"
    <3>1. ASSUME NEW a \in Seq(OperationStatus), NEW b \in Seq(OperationStatus)
          PROVE  /\ DOMAIN (a \o b) = 1..(Len(a) + Len(b))
                 /\ \A j \in 1..Len(a) : (a \o b)[j] = a[j]
                 /\ \A j \in (Len(a) + 1)..(Len(a) + Len(b)) :
                        (a \o b)[j] = b[j - Len(a)] /\ j - Len(a) \in 1..Len(b)
      OBVIOUS
    <3> HIDE DEF old, new
    <3>2. /\ DOMAIN new = 1..(Len(old) + Len(Notes(n)))
          /\ \A j \in 1..Len(old) : new[j] = old[j]
          /\ \A j \in (Len(old) + 1)..(Len(old) + Len(Notes(n))) :
                 new[j] = Notes(n)[j - Len(old)] /\ j - Len(old) \in 1..Len(Notes(n))
      <4>1. old \in Seq(OperationStatus) /\ Notes(n) \in Seq(OperationStatus)
        BY <1>0, <2>2
      <4>2. /\ DOMAIN (old \o Notes(n)) = 1..(Len(old) + Len(Notes(n)))
            /\ \A j \in 1..Len(old) : (old \o Notes(n))[j] = old[j]
            /\ \A j \in (Len(old) + 1)..(Len(old) + Len(Notes(n))) :
                   /\ (old \o Notes(n))[j] = Notes(n)[j - Len(old)]
                   /\ j - Len(old) \in 1..Len(Notes(n))
        BY <3>1, <4>1
      <4> QED
        BY <2>1, <4>2
    <3> QED
      BY <2>2, <3>2
  <2>5. CASE i <= Len(old)
    <3>1. i \in DOMAIN old /\ new[i] = old[i]
      BY <1>0, <2>3, <2>4, <2>5
    <3>2. i = Len(old) /\ old # <<>>
      BY <1>0, <3>1 DEF EndsLast
    <3> QED
      BY <1>2, <1>3, <3>1, <3>2
  <2>6. CASE i > Len(old)
    <3>1. new[i] = "failed" /\ n # 0 /\ i \in Nat
      BY <2>3, <2>4, <2>6
    <3>2. old # <<>>
      <4> SUFFICES ASSUME old = <<>> PROVE FALSE
        OBVIOUS
      <4>1. Unfinished(o) = {}
        BY <1>0
      <4> QED
        BY <3>1, <4>1, FS_EmptySet DEF n
    <3>3. Len(old) \in 1..(i - 1)
      BY <1>0, <2>3, <2>6, <3>1, <3>2
    <3>4. old[Len(old)] \notin Terminal
      BY <1>3, <2>4, <3>2, <3>3, <1>0
    <3> QED
      BY <1>2, <1>3, <3>1, <3>2, <3>4
  <2> QED
    BY <2>3, <2>4, <2>5, <2>6
<1> QED
  BY <1>4, <1>5

LEMMA LinesStep ==
    ASSUME GInv, KInv, TasksInv, LinesInv, [Next]_vars
    PROVE  LinesInv'
<1>0. /\ crashes \in Nat /\ crashes' \in Nat /\ torn \in BOOLEAN
      /\ phase \in [Ids -> Phase]
  <2>1. TypeOK'
    BY TypeStep DEF KInv
  <2> QED
    BY <2>1 DEF KInv, TypeOK
<1> SUFFICES ASSUME ~torn', crashes' <= 1, NEW o \in Ids
             PROVE  /\ Going(o)' => NoEnd(o)'
                    /\ up' /\ ~Going(o)' =>
                           \A i \in FirstEnd(o)' : status'[o] = Lines(o)'[i]
                    /\ crashes' = 0 \/ ~up' => EndsLast(o)'
  BY DEF LinesInv
<1>1. ~torn
  BY DEF Next, Reserve, Thread, AppendRecord, AppendNewline, MarkRunning, Release, Finish,
         Cancel, AppendFails, Crash, Open, vars, journal
<1>2. Lines(o) \in Seq(OperationStatus)
  BY LinesType DEF KInv
<1>3. CASE Crash
  <2>1. /\ crashes = 0 /\ ~up' /\ phase'[o] = "none"
        /\ tail' = tail /\ log' = log
    BY <1>0, <1>3 DEF Crash, Forgotten, journal
  <2>2. EndsLast(o)
    BY <1>1, <2>1 DEF LinesInv
  <2>3. Lines(o)' = Lines(o)
    BY <2>1 DEF Lines
  <2> QED
    BY <2>1, <2>2, <2>3 DEF EndsLast, Going, Working
<1>4. CASE Open
  <2>1. phase'[o] = "none" /\ crashes' = crashes /\ up' /\ ~up
    BY <1>4 DEF Open, KInv, Submissions, bounds
  <2>2. EndsLast(o)
    BY <1>1, <2>1 DEF LinesInv
  <2>3. \A i \in FirstEnd(o)' : status'[o] = Lines(o)'[i]
    BY <1>4, <2>2, OpenShows
  <2>4. ASSUME crashes = 0 PROVE EndsLast(o)'
    <3>1. tail = Blank /\ log[o] \in {<<>>, <<"succeeded">>}
      BY <2>1, <2>4 DEF GInv, FirstStart
    <3>2. Lines(o) = log[o] /\ tail' = tail
          /\ log'[o] = log[o] \o Notes(Cardinality(Unfinished(o)))
      BY <1>4, <3>1, NotALine DEF Lines, Open
    <3>3. Unfinished(o) = {}
      <4>1. CASE Lines(o) = <<>>
        BY <4>1 DEF Unfinished
      <4>2. CASE Lines(o) = <<"succeeded">>
        BY <4>2 DEF Unfinished, Terminal
      <4> QED
        BY <3>1, <3>2, <4>1, <4>2
    <3>4. log'[o] = log[o] \o Notes(0)
      BY <3>2, <3>3, FS_EmptySet
    <3>5. Notes(0) = <<>>
      BY DEF Notes
    <3>6. log'[o] = log[o]
      BY <1>2, <3>2, <3>4, <3>5
    <3>7. Lines(o)' = Lines(o)
      BY <3>2, <3>6 DEF Lines
    <3> QED
      BY <2>2, <3>7 DEF EndsLast
  <2> QED
    BY <2>1, <2>3, <2>4 DEF Going, Working
<1>5. CASE ~Crash /\ ~Open
  <2>1. crashes' = crashes /\ up' = up
    BY <1>5 DEF Next, Reserve, Thread, AppendRecord, AppendNewline, MarkRunning, Release,
       Finish, Cancel, AppendFails, vars, bounds
  <2>2. /\ Going(o) => NoEnd(o)
        /\ up /\ ~Going(o) => \A i \in FirstEnd(o) : status[o] = Lines(o)[i]
        /\ crashes = 0 \/ ~up => EndsLast(o)
    BY <1>1, <2>1 DEF LinesInv
  <2>3. CASE Lines(o)' = Lines(o) /\ ~AppendRecord(o)
    <3>1. (NoEnd(o)' <=> NoEnd(o)) /\ (EndsLast(o)' <=> EndsLast(o))
          /\ FirstEnd(o)' = FirstEnd(o)
      BY <2>3 DEF NoEnd, EndsLast, FirstEnd
    <3>2. NoEnd(o) => FirstEnd(o) = {}
      BY DEF NoEnd, FirstEnd
    <3>3. CASE o = made + 1 /\ phase'[o] = "reserve"
      <4>1. log[o] = <<>> /\ ~(tail \in Line /\ tail.op = o)
        BY <1>0, <3>3 DEF TasksInv, KInv, TypeOK
      <4>2. Lines(o) = <<>>
        BY <4>1 DEF Lines
      <4>3. NoEnd(o)
        BY <4>2 DEF NoEnd
      <4> QED
        BY <2>1, <2>2, <3>1, <3>3, <4>3 DEF Going, Working
    <3>4. CASE ~(o = made + 1 /\ phase'[o] = "reserve")
      <4>1. \/ /\ Going(o)' /\ Going(o)
            \/ Going(o)
            \/ ~Going(o) /\ ~Going(o)' /\ status'[o] = status[o]
        BY <1>5, <2>3, <3>4, TaskMoves DEF Going, Working, Idle, Submitting
      <4> QED
        BY <2>1, <2>2, <2>3, <3>1, <3>2, <4>1
    <3> QED
      BY <3>3, <3>4
  <2>4. CASE AppendRecord(o)
    <3> DEFINE s == IF phase[o] = "reserve" THEN "queued" ELSE status[o]
    <3>0. /\ phase[o] \in Appending /\ phase'[o] = Newline[phase[o]]
          /\ status' = status /\ tail = Blank
      BY <1>0, <2>4 DEF AppendRecord
    <3>1. Going(o)
      BY <3>0 DEF Going, Working, Appending
    <3>2. tail' \in Line /\ tail'.op = o /\ tail'.status = s /\ log' = log
      BY <2>4, <3>0 DEF AppendRecord, Line, KInv, TypeOK, OperationStatus
    <3>3. Lines(o)' = Append(Lines(o), s)
      BY <3>0, <3>2, NotALine DEF Lines
    <3>4. s \in OperationStatus
      BY DEF KInv, TypeOK, OperationStatus
    <3>5. Going(o)' => s \notin Terminal
      <4>1. /\ Newline["reserve"] = "reserve_newline" /\ Newline["note"] = "note_newline"
            /\ Newline["final"] = "final_newline"
        BY DEF Newline, Appending
      <4> QED
        BY <3>0, <4>1 DEF Going, Working, Appending, TasksInv, Terminal
    <3>6. ~Going(o)' => s = status[o]
      <4>1. Newline["reserve"] = "reserve_newline"
        BY DEF Newline
      <4> QED
        BY <3>0, <4>1 DEF Going, Working
    <3> HIDE DEF s
    <3>7. /\ s \notin Terminal => NoEnd(o)' /\ EndsLast(o)'
          /\ EndsLast(o)' /\ \A i \in FirstEnd(o)' : Lines(o)'[i] = s
      BY <1>2, <2>2, <3>1, <3>3, <3>4, AppendedLine
    <3> QED
      BY <3>0, <3>5, <3>6, <3>7
  <2> QED
    BY <1>1, <1>5, <2>3, <2>4, LinesMove
<1>6. CASE UNCHANGED vars
  <2>1. ~Crash /\ ~Open
    BY <1>0, <1>6 DEF Crash, Open, vars, bounds
  <2> QED
    BY <1>5, <2>1
<1> QED
  BY <1>3, <1>4, <1>5

LEMMA HistoryAlways == Spec => [](GInv /\ KInv /\ TasksInv /\ LinesInv)
<1>1. Init => TasksInv /\ LinesInv
  BY TasksInit
<1>2. GInv /\ KInv /\ TasksInv /\ LinesInv /\ [Next]_vars => TasksInv' /\ LinesInv'
  BY TasksStep, LinesStep
<1> QED
  BY <1>1, <1>2, GInvHolds, KInvHolds, PTL DEF Spec

\* open: in a journal that is not torn a result that was journaled is the one
\* shown, before and after the first restart; and what no task will finish is
\* shown as ended, after any number of them.
THEOREM FirstRestartKeepsHistoryHolds == Spec => []FirstRestartKeepsHistory
<1>1. ASSUME GInv, KInv, TasksInv, LinesInv PROVE FirstRestartKeepsHistory
  <2>1. \A o \in known : phase[o] = "none" => status[o] \in Terminal
    BY <1>1 DEF TasksInv
  <2>2. ASSUME ~torn, ~(crashes > 1), NEW o \in known, NEW i \in FirstTerminal(o)
        PROVE  status[o] = log[o][i]
    <3>0. o \in Ids /\ crashes \in Nat /\ log[o] \in Seq(OperationStatus) /\ up
      BY <1>1, <2>2 DEF GInv, DownIsEmpty, TypeOK
    <3>1. Lines(o) = log[o] \/ \E s \in OperationStatus : Lines(o) = Append(log[o], s)
      BY <3>0 DEF Lines, Line
    <3>2. /\ DOMAIN log[o] \subseteq DOMAIN Lines(o)
          /\ \A j \in DOMAIN log[o] : Lines(o)[j] = log[o][j]
      BY <3>0, <3>1
    <3>3. i \in DOMAIN log[o] /\ i \in Nat /\ \A j \in 1..(i - 1) : j \in DOMAIN log[o]
      BY <3>0, <2>2 DEF FirstTerminal
    <3>4. i \in FirstEnd(o) /\ Lines(o)[i] = log[o][i] /\ ~NoEnd(o)
      BY <2>2, <3>2, <3>3 DEF FirstTerminal, FirstEnd, NoEnd
    <3> QED
      BY <1>1, <2>2, <3>0, <3>4 DEF LinesInv
  <2> QED
    BY <2>1, <2>2 DEF FirstRestartKeepsHistory, ShowsResults
<1> QED
  BY <1>1, HistoryAlways, PTL
=============================================================================
