----------------------------- MODULE Operations -----------------------------
(***************************************************************************)
(* The daemon's operation store, crates/phlo-transform-daemon/src/         *)
(* operations.rs, with the task that POST /v1/operations spawns (lib.rs):  *)
(* idempotency keys, the gate that lets one mutating operation run at a    *)
(* time, cancellation, and the journal that is folded back in when the     *)
(* daemon starts again.                                                    *)
(*                                                                         *)
(* Each operation is a thread of its own: the handler that reserves it,    *)
(* then its task.  One append to the journal is two writes, the record and *)
(* its newline, and appends of different threads interleave.               *)
(***************************************************************************)
EXTENDS Naturals, Sequences, FiniteSets

CONSTANTS
    Requests,    \* the distinct requests: a kind with its parameters
    Mutating,    \* those whose kind is in MUTATING
    Keys,        \* idempotency keys
    NoKey,       \* a submission without one
    NoHash,      \* the request of a record older than request binding
    MaxOps,      \* bound: operations ever registered
    MaxCrashes,  \* bound: times the daemon dies
    MaxFaults    \* bound: appends that fail

ASSUME RequestAssumption ==
    Requests # {} /\ Mutating \subseteq Requests /\ NoHash \notin Requests
ASSUME KeyAssumption == NoKey \notin Keys
ASSUME BoundAssumption ==
    MaxOps \in Nat \ {0} /\ MaxCrashes \in Nat /\ MaxFaults \in Nat

VARIABLES
    up,       \* whether the daemon runs
    phase,    \* where the thread of each operation is
    req,      \* the request of each operation, and
    key,      \* its idempotency key: fields of the record that never change
    known,    \* the operations in OperationStore.ops
    status,   \* their record.status
    flag,     \* the operations whose CancelHandle is set
    keyOf,    \* OperationStore.idempotent
    lock,     \* the operation whose submission holds that map's mutex
    busy,     \* OperationStore.busy
    log,      \* the journal's readable lines: log[o], the statuses of o
    tail,     \* its last line, while that has no newline
    torn,     \* whether a line was spoilt: half a record, or more than one
    acked,    \* operations a client was told of
    ran,      \* operations whose executor was started
    made, crashes, faults  \* how many so far

Ids == 1..MaxOps
NoOp == 0

memory  == <<phase, known, status, flag, keyOf, lock, busy>>
journal == <<log, tail, torn>>
records == <<req, key>>
history == <<acked, ran>>
bounds  == <<made, crashes, faults>>
vars == <<up, memory, journal, records, history, bounds>>

-----------------------------------------------------------------------------
OperationStatus == {"queued", "running", "succeeded", "failed", "cancelled"}
Terminal == {"succeeded", "failed", "cancelled"}

\* A thread is about to append the record in the first of each pair, and
\* about to append its newline in the second.
Appending == {"reserve", "note", "final"}
Newline == [reserve |-> "reserve_newline", note |-> "note_newline",
            final |-> "final_newline"]
Ending == {Newline[p] : p \in Appending}
Phase == {"none", "start", "exec", "release"} \cup Appending \cup Ending

Blank == [op |-> NoOp, status |-> "blank"]
Spoilt == [op |-> NoOp, status |-> "spoilt"]
Line == [op : Ids, status : OperationStatus]

TypeOK ==
    /\ up \in BOOLEAN
    /\ phase \in [Ids -> Phase]
    /\ req \in [Ids -> Requests \cup {NoHash}]
    /\ key \in [Ids -> Keys \cup {NoKey}]
    /\ known \in SUBSET Ids
    /\ status \in [Ids -> OperationStatus]
    /\ flag \in SUBSET Ids
    /\ keyOf \in [Keys -> Ids \cup {NoOp}]
    /\ lock \in Ids \cup {NoOp}
    /\ busy \in BOOLEAN
    /\ log \in [Ids -> Seq(OperationStatus)]
    /\ tail \in Line \cup {Blank, Spoilt}
    /\ torn \in BOOLEAN
    /\ acked \in SUBSET Ids /\ ran \in SUBSET Ids
    /\ made \in 0..MaxOps /\ crashes \in 0..MaxCrashes
    /\ faults \in 0..MaxFaults

\* What the process forgets when it dies.
Forgotten ==
    /\ phase' = [o \in Ids |-> "none"]
    /\ known' = {} /\ flag' = {}
    /\ status' = [o \in Ids |-> "queued"]
    /\ keyOf' = [k \in Keys |-> NoOp]
    /\ lock' = NoOp /\ busy' = FALSE

\* The daemon has not started yet.  Its journal is empty, or left by an older
\* version with one finished operation in it.
Init ==
    /\ up = FALSE
    /\ phase = [o \in Ids |-> "none"]
    /\ \E legacy \in {{}, {1}}, k \in Keys :
        /\ req = [o \in Ids |-> IF o \in legacy THEN NoHash
                               ELSE CHOOSE r \in Requests : TRUE]
        /\ key = [o \in Ids |-> IF o \in legacy THEN k ELSE NoKey]
        /\ log = [o \in Ids |-> IF o \in legacy THEN <<"succeeded">> ELSE <<>>]
        /\ made = Cardinality(legacy)
        /\ acked = legacy /\ ran = legacy
    /\ known = {} /\ flag = {}
    /\ status = [o \in Ids |-> "queued"]
    /\ keyOf = [k \in Keys |-> NoOp]
    /\ lock = NoOp /\ busy = FALSE
    /\ tail = Blank /\ torn = FALSE
    /\ crashes = 0 /\ faults = 0

-----------------------------------------------------------------------------
(***************************************************************************)
(* Submission: look the key up, take the gate, write the reservation.      *)
(***************************************************************************)
\* submit's answer where no operation is queued for the request.
Bound(k) == k # NoKey /\ keyOf[k] # NoOp
SameRequest(o, r) == req[o] \in {NoHash, r}
Outcome(k, r) ==
    IF Bound(k) THEN (IF SameRequest(keyOf[k], r) THEN "replayed" ELSE "conflict")
    ELSE IF r \in Mutating /\ busy THEN "busy" ELSE "new"

\* Variant: the key is looked up without the mutex.
LockFree_Always(k) == TRUE
\* The lookup and the binding of a key are one critical section.
LockFree(k) == k = NoKey \/ lock = NoOp

\* submit, up to the append in register.
Reserve(k, r) ==
    /\ up /\ made < MaxOps
    /\ LockFree(k)
    /\ Outcome(k, r) = "new"
    /\ LET o == made + 1 IN
        /\ made' = o
        /\ req' = [req EXCEPT ![o] = r]
        /\ key' = [key EXCEPT ![o] = k]
        /\ phase' = [phase EXCEPT ![o] = "reserve"]
        /\ lock' = IF k = NoKey THEN lock ELSE o
    /\ busy' = (busy \/ r \in Mutating)
    /\ UNCHANGED <<up, known, status, flag, keyOf, journal, history, crashes,
                   faults>>

\* Variants: any operation frees the gate; none does.
Freed_Any(o) == FALSE
Freed_None(o) == busy
\* release: busy after operation o is through with the gate.
Freed(o) == busy /\ req[o] \notin Mutating
Unlocked(o) == IF lock = o THEN NoOp ELSE lock

\* What follows a completed append: the reservation becomes visible, its key
\* is bound and its client told; a note is followed by the executor, the
\* final one by the release.
Visible(o) ==
    /\ known' = known \cup {o}
    /\ status' = [status EXCEPT ![o] = "queued"]
    /\ keyOf' = [k \in Keys |-> IF k = key[o] THEN o ELSE keyOf[k]]
    /\ lock' = Unlocked(o)
    /\ acked' = acked \cup {o}
    /\ phase' = [phase EXCEPT ![o] = "start"]
    /\ UNCHANGED <<flag, busy, ran>>

Executing(o) ==
    /\ phase' = [phase EXCEPT ![o] = "exec"]
    /\ ran' = ran \cup {o}
    /\ UNCHANGED <<known, status, flag, keyOf, lock, busy, acked>>

Releasing(o) ==
    /\ phase' = [phase EXCEPT ![o] = "release"]
    /\ UNCHANGED <<known, status, flag, keyOf, lock, busy, history>>

\* A reservation that is not on disk is refused: gate and key free again.
Refused(o) ==
    /\ phase' = [phase EXCEPT ![o] = "none"]
    /\ busy' = Freed(o)
    /\ lock' = Unlocked(o)
    /\ UNCHANGED <<known, status, flag, keyOf, history>>

\* A lost transition, journal_note: the thread goes on as if it were written.
\* Variant: the lost note ends the task.
AfterLost_Return(o) == Refused(o)
AfterLost(o) == IF phase[o] \in {"note", "note_newline"}
                THEN Executing(o) ELSE Releasing(o)

-----------------------------------------------------------------------------
(***************************************************************************)
(* journal_append: one write for the record, one for the newline.          *)
(***************************************************************************)
AppendRecord(o) ==
    /\ phase[o] \in Appending
    /\ tail' = IF tail = Blank
               THEN [op |-> o, status |-> IF phase[o] = "reserve" THEN "queued"
                                          ELSE status[o]]
               ELSE Spoilt
    /\ torn' = (torn \/ tail # Blank)
    /\ phase' = [phase EXCEPT ![o] = Newline[@]]
    /\ UNCHANGED <<up, known, status, flag, keyOf, lock, busy, log, records,
                   history, bounds>>

\* The newline ends whatever line is there, and the append is complete.
AppendNewline(o) ==
    /\ phase[o] \in Ending
    /\ log' = IF tail \in Line
              THEN [log EXCEPT ![tail.op] = Append(@, tail.status)] ELSE log
    /\ tail' = Blank
    /\ \/ phase[o] = "reserve_newline" /\ Visible(o)
       \/ phase[o] = "note_newline" /\ Executing(o)
       \/ phase[o] = "final_newline" /\ Releasing(o)
    /\ UNCHANGED <<up, torn, records, bounds>>

\* The disk is full, say: nothing of the record, half of it, or all of it but
\* the newline is written.
AppendFails(o, half) ==
    /\ faults < MaxFaults /\ faults' = faults + 1
    /\ phase[o] \in Appending \cup Ending
    /\ half => phase[o] \in Appending
    /\ tail' = IF half THEN Spoilt ELSE tail
    /\ torn' = (torn \/ half)
    /\ IF phase[o] \in {"reserve", "reserve_newline"} THEN Refused(o)
       ELSE AfterLost(o)
    /\ UNCHANGED <<up, log, records, made, crashes>>

-----------------------------------------------------------------------------
(***************************************************************************)
(* The spawned task, and cancel.                                           *)
(***************************************************************************)
MarkRunning(o) ==
    /\ phase[o] = "start" /\ status[o] = "queued"
    /\ status' = [status EXCEPT ![o] = "running"]
    /\ phase' = [phase EXCEPT ![o] = "note"]
    /\ UNCHANGED <<up, known, flag, keyOf, lock, busy, journal, records,
                   history, bounds>>

\* Variant: a result wins over a cancel.
Verdict_ResultWins(o, end) == IF o \in flag /\ end = "failed"
                              THEN "cancelled" ELSE end
Verdict(o, end) == IF o \in flag THEN "cancelled" ELSE end

\* The executor returns and finish reads the flag with the record locked.
Finish(o) ==
    /\ phase[o] = "exec"
    /\ \E end \in {"succeeded", "failed"} :
           status' = [status EXCEPT ![o] = Verdict(o, end)]
    /\ phase' = [phase EXCEPT ![o] = "final"]
    /\ UNCHANGED <<up, known, flag, keyOf, lock, busy, journal, records,
                   history, bounds>>

Release(o) ==
    /\ phase[o] = "release"
    /\ busy' = Freed(o)
    /\ phase' = [phase EXCEPT ![o] = "none"]
    /\ UNCHANGED <<up, known, status, flag, keyOf, lock, journal, records,
                   history, bounds>>

Cancel(o) ==
    /\ up /\ o \in known \ flag
    /\ status[o] \notin Terminal
    /\ flag' = flag \cup {o}
    /\ UNCHANGED <<up, phase, known, status, keyOf, lock, busy, journal,
                   records, history, bounds>>

-----------------------------------------------------------------------------
(***************************************************************************)
(* Crash and restart.                                                      *)
(***************************************************************************)
Crash ==
    /\ up /\ crashes < MaxCrashes
    /\ crashes' = crashes + 1
    /\ up' = FALSE
    /\ Forgotten
    /\ UNCHANGED <<journal, records, history, made, faults>>

\* The statuses of o that open reads, an unterminated last line included.
Lines(o) == IF tail \in Line /\ tail.op = o THEN Append(log[o], tail.status)
            ELSE log[o]
Unfinished(o) == {i \in DOMAIN Lines(o) : Lines(o)[i] \notin Terminal}
\* Variant: the first line of an operation wins.
Restored_First(o) == IF Lines(o)[1] \in Terminal THEN Lines(o)[1] ELSE "failed"
\* The last line wins; what did not end is failed, "interrupted".
Restored(o) == IF Lines(o)[Len(Lines(o))] \in Terminal
               THEN Lines(o)[Len(Lines(o))] ELSE "failed"
\* Variant: only an operation that ended keeps its key.
KeyOwners_Ended(k) ==
    {o \in Ids : key[o] = k /\ Lines(o) # <<>> /\ Unfinished(o) = {}}
\* The operations a line of which binds k.  In a journal that is not torn, the
\* last such line is that of the last of them: lines and notes of different
\* operations with one key are in the order of their reservations.
KeyOwners(k) == {o \in Ids : key[o] = k /\ Lines(o) # <<>>}
Notes(n) == [i \in 1..n |-> "failed"]

\* open: every line is folded in, and each one that is not terminal gets an
\* "interrupted" note at the end of the journal, even where a later line ends
\* the operation.  The first note is glued to a line without a newline: first
\* is its operation.
Open ==
    /\ ~up
    /\ up' = TRUE
    /\ known' = {o \in Ids : Lines(o) # <<>>}
    /\ status' = [o \in Ids |-> IF o \in known' THEN Restored(o) ELSE "queued"]
    /\ keyOf' \in [Keys -> Ids \cup {NoOp}]
    /\ \A k \in Keys : IF KeyOwners(k) = {} THEN keyOf'[k] = NoOp
                      ELSE keyOf'[k] \in KeyOwners(k)
    /\ \A k \in Keys : \A p \in KeyOwners(k) : p <= keyOf'[k]
    /\ IF tail = Blank \/ \A o \in Ids : Unfinished(o) = {}
       THEN /\ log' = [o \in Ids |->
                           log[o] \o Notes(Cardinality(Unfinished(o)))]
            /\ UNCHANGED <<tail, torn>>
       ELSE /\ \E first \in {o \in Ids : Unfinished(o) # {}} :
                   log' = [o \in Ids |->
                       log[o] \o Notes(Cardinality(Unfinished(o))
                                       - IF o = first THEN 1 ELSE 0)]
            /\ tail' = Blank
            /\ torn' = TRUE
    /\ UNCHANGED <<phase, flag, lock, busy, records, history, bounds>>

-----------------------------------------------------------------------------
Thread(o) == AppendRecord(o) \/ AppendNewline(o) \/ MarkRunning(o) \/ Release(o)

Next ==
    \/ \E k \in Keys \cup {NoKey}, r \in Requests : Reserve(k, r)
    \/ \E o \in Ids : Thread(o) \/ Finish(o) \/ Cancel(o)
    \/ \E o \in Ids, half \in BOOLEAN : AppendFails(o, half)
    \/ Crash \/ Open

Spec == Init /\ [][Next]_vars

\* The runtime runs every thread on.  Nothing makes an executor return.
FairSpec == Spec /\ \A o \in Ids : WF_vars(Thread(o))
ExecutorsReturn == \A o \in Ids : WF_vars(Finish(o))

-----------------------------------------------------------------------------
(***************************************************************************)
(* Properties                                                              *)
(***************************************************************************)
\* The gate: at most one mutating operation is between its reservation and its
\* release, and the gate is held exactly then.  (acquire, release: an operation
\* that is not gated must not free it, a refused reservation must.)
InGate == {o \in Ids : phase[o] # "none" /\ req[o] \in Mutating}
OneMutating == (\A o, p \in InGate : o = p) /\ (busy <=> InGate # {})

\* A cancel the client was told of is never lost to a result that comes in at
\* the same time, and nothing is cancelled that nobody cancelled (open forgets
\* the flags of operations that ended before).
CancelDecides ==
    \A o \in known :
        /\ o \in flag /\ status[o] \in Terminal => status[o] = "cancelled"
        /\ status[o] = "cancelled" => o \in flag \/ crashes > 0

\* "concurrent resubmissions of the same key cannot execute twice", nor can a
\* resubmission after any number of restarts, as long as no line of the
\* journal was spoilt.
NoDuplicate ==
    \A o, p \in ran : key[o] = key[p] /\ key[o] # NoKey => o = p
WholeJournalNoDuplicate == torn \/ NoDuplicate

\* What a client was told of, it finds again: while the daemon is up, an
\* acknowledged operation is known, its key answers with it, and a different
\* request under its key is refused.
AcknowledgedStays ==
    up /\ ~torn => \A o \in acked :
        /\ o \in known
        /\ key[o] # NoKey =>
             /\ keyOf[key[o]] = o
             /\ Outcome(key[o], req[o]) = "replayed"
             /\ \A r \in Requests \ {req[o]} :
                    req[o] # NoHash => Outcome(key[o], r) = "conflict"

\* In a journal that is not torn, a result that was journaled is the one shown
\* after the first restart; and no operation is shown unfinished that nothing
\* will finish.
FirstTerminal(o) ==
    {i \in DOMAIN log[o] : /\ log[o][i] \in Terminal
                           /\ \A j \in 1..(i - 1) : log[o][j] \notin Terminal}
ShowsResults ==
    \A o \in known : \A i \in FirstTerminal(o) : status[o] = log[o][i]
FirstRestartKeepsHistory ==
    /\ torn \/ crashes > 1 \/ ShowsResults
    /\ \A o \in known : phase[o] = "none" => status[o] \in Terminal

\* The gate is always freed in the end, whatever append fails, if executors
\* return.
GateIsFreed == ExecutorsReturn => (busy ~> ~busy)

\* And every acknowledged operation ends, or the daemon dies.
AcknowledgedEnds ==
    ExecutorsReturn =>
        \A o \in Ids : (up /\ o \in known) ~> (~up \/ status[o] \in Terminal)
=============================================================================
