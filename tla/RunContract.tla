----------------------------- MODULE RunContract -----------------------------
(***************************************************************************)
(* What a run id promises, without the machinery that keeps the promise:   *)
(* no scheduler, queue, counts, phases, attempts or tasks.  Units are the  *)
(* models and seeds of the run; in every invocation each of them gets one  *)
(* outcome, and what a later invocation may rely on is what is on record   *)
(* as passed.  Runner implements this (Runner!ImplementsContract).         *)
(***************************************************************************)
CONSTANTS
    Models,   \* the planned models
    Units,    \* the models and the seeds
    Needs     \* Needs[u]: the units u reads

VARIABLES
    working,  \* whether an invocation is at work on the run
    stopping, \* whether it was told to stop, or stops after a failure
    verdict,  \* the run's status on record
    outcome,  \* the outcome of each unit in this invocation
    kept,     \* models on record as passed
    there,    \* units whose relation exists
    lost      \* models whose relation somebody else dropped

vars == <<working, stopping, verdict, outcome, kept, there, lost>>

Outcome == {"waiting", "working", "good", "failed", "blocked", "cancelled"}

Good    == {u \in Units : outcome[u] = "good"}
Broken  == {u \in Units : outcome[u] \in {"failed", "blocked"}}
Waiting == {u \in Units : outcome[u] = "waiting"}
Working == {u \in Units : outcome[u] = "working"}
AllWait == [u \in Units |-> "waiting"]

\* A record of a model that passed is given up only where the relation it
\* speaks of was dropped.
KeepsRecords == kept \ lost \subseteq kept' /\ kept' \subseteq kept
\* Within an invocation, a stop is for good.
MayStop == stopping => stopping'

Init ==
    /\ working = TRUE /\ stopping = FALSE /\ verdict = "running"
    /\ outcome = AllWait
    /\ kept = {} /\ lost = {}
    /\ there \in SUBSET Units

\* A unit that is not executed counts as good where its relation exists.
Spare(u) ==
    /\ working /\ outcome[u] = "waiting" /\ u \in there
    /\ outcome' = [outcome EXCEPT ![u] = "good"]
    /\ KeepsRecords
    /\ UNCHANGED <<working, stopping, verdict, there, lost>>

\* Work starts on what is good and exists, never after a stop, and never again
\* on a model that passed, unless its relation is gone.
Begin(u) ==
    /\ working /\ ~stopping /\ outcome[u] = "waiting"
    /\ Needs[u] \subseteq Good \cap there
    /\ u \in kept => u \in lost
    /\ outcome' = [outcome EXCEPT ![u] = "working"]
    /\ KeepsRecords
    /\ UNCHANGED <<working, stopping, verdict, there, lost>>

\* Its statements create, replace or drop the relation.
Write(u) ==
    /\ outcome[u] = "working"
    /\ there' \in {there \cup {u}, there \ {u}}
    /\ UNCHANGED <<working, stopping, verdict, outcome, kept, lost>>

\* A unit is good, and a model on record as passed, once its relation exists.
Complete(u) ==
    /\ working /\ outcome[u] = "working"
    /\ outcome' = [outcome EXCEPT ![u] = "good"]
    /\ there' = there \cup {u}
    /\ kept' = kept \cup ({u} \cap Models)
    /\ MayStop
    /\ UNCHANGED <<working, verdict, lost>>

\* A failure ends the unit, and with it everything waiting downstream; what is
\* blocked has a broken input.
Break(failed, blocked) ==
    /\ working
    /\ \A u \in blocked : Needs[u] \cap (Broken \cup failed \cup blocked) # {}
    /\ outcome' = [u \in Units |-> IF u \in failed THEN "failed"
                                   ELSE IF u \in blocked THEN "blocked"
                                   ELSE outcome[u]]
    /\ KeepsRecords /\ MayStop
    /\ UNCHANGED <<working, verdict, there, lost>>

Stop ==
    /\ working /\ stopping' = TRUE
    /\ UNCHANGED <<working, verdict, outcome, kept, there, lost>>

\* Only a stop leaves a unit without a result, and only where its inputs are
\* not broken: what is downstream of a failure is blocked even then.
GiveUp(u) ==
    /\ working /\ stopping /\ u \in Waiting \cup Working
    /\ Needs[u] \cap Broken = {}
    /\ outcome' = [outcome EXCEPT ![u] = "cancelled"]
    /\ KeepsRecords
    /\ UNCHANGED <<working, stopping, verdict, there, lost>>

\* The verdict: passed means that everything is good and exists, cancelled
\* that it was stopped.  (A failed test fails a run whose units are all good.)
Finish(v) ==
    /\ working /\ Waiting = {} /\ Working = {}
    /\ v = "passed" => Good = Units /\ Units \subseteq there
    /\ v = "cancelled" => stopping
    /\ working' = FALSE /\ verdict' = v
    /\ UNCHANGED <<stopping, outcome, kept, there, lost>>

\* A killed invocation leaves the records as they are.
Kill ==
    /\ working
    /\ working' = FALSE /\ stopping' = FALSE
    /\ outcome' = AllWait
    /\ UNCHANGED <<verdict, kept, there, lost>>

\* Only an interrupted run is resumed, on the same records.
Resume ==
    /\ ~working /\ verdict \in {"running", "cancelled"}
    /\ working' = TRUE /\ stopping' = FALSE /\ verdict' = "running"
    /\ outcome' = AllWait
    /\ UNCHANGED <<kept, there, lost>>

\* Others: a relation is dropped between two invocations; a statement of an
\* aborted task lands after all.
Drop(m) ==
    /\ ~working /\ verdict \in {"running", "cancelled"}
    /\ there' = there \ {m} /\ lost' = lost \cup {m}
    /\ UNCHANGED <<working, stopping, verdict, outcome, kept>>

Land(m) ==
    /\ there' = there \cup {m}
    /\ UNCHANGED <<working, stopping, verdict, outcome, kept, lost>>

Next ==
    \/ \E u \in Units : \/ Spare(u) \/ Begin(u) \/ Write(u) \/ Complete(u)
                        \/ GiveUp(u)
    \/ \E failed \in SUBSET Working, blocked \in SUBSET Waiting :
          Break(failed, blocked)
    \/ \E v \in {"passed", "failed", "cancelled"} : Finish(v)
    \/ Stop \/ Kill \/ Resume
    \/ \E m \in Models : Drop(m) \/ Land(m)

Spec == Init /\ [][Next]_vars
=============================================================================
