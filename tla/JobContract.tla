----------------------------- MODULE JobContract -----------------------------
(***************************************************************************)
(* What a job scope promises to the features built on it, without leases,  *)
(* clocks, cancellation flags or tables: one job at a time; a job may      *)
(* change hands, each time to a later turn; its history only grows and is  *)
(* sealed once, with the verdict of the turn that held it or of nobody     *)
(* (interrupted); a sealed job can only be forgotten.  Abstracts           *)
(* DurableJobStore of core/durable_jobs.py.                                *)
(***************************************************************************)
EXTENDS Integers

CONSTANTS Jobs, NoJob

Nobody == -1

VARIABLES
    current,    \* the job being executed, or NoJob
    turn,       \* the turn that may execute it, when there is one
    phase,      \* of each job
    length,     \* how many events a job has recorded
    verdict     \* the turn a sealed job's outcome comes from

contractVars == <<current, turn, phase, length, verdict>>

Init ==
    /\ current = NoJob
    /\ turn = 0
    /\ phase = [j \in Jobs |-> "new"]
    /\ length = [j \in Jobs |-> 0]
    /\ verdict = [j \in Jobs |-> Nobody]

(* claim, on a free scope *)
Begin(j) ==
    /\ current = NoJob
    /\ phase[j] = "new"
    /\ current' = j
    /\ turn' = turn + 1
    /\ phase' = [phase EXCEPT ![j] = "open"]
    /\ UNCHANGED <<length, verdict>>

(* claim, recovering the job of a lapsed owner *)
HandOver ==
    /\ current # NoJob
    /\ turn' = turn + 1
    /\ UNCHANGED <<current, phase, length, verdict>>

(* append_events by the present turn *)
Record ==
    /\ current # NoJob
    /\ length'[current] > length[current]
    /\ length' = [length EXCEPT ![current] = length'[current]]
    /\ UNCHANGED <<current, turn, phase, verdict>>

(* finalize by the present turn, or interrupt_expired on nobody's behalf *)
Seal(by) ==
    /\ current # NoJob
    /\ current' = NoJob
    /\ phase' = [phase EXCEPT ![current] = "sealed"]
    /\ verdict' = [verdict EXCEPT ![current] = by]
    /\ UNCHANGED <<turn, length>>

(* dismiss and cleanup *)
Forget(S) ==
    /\ \A j \in S : phase[j] = "sealed"
    /\ phase' = [j \in Jobs |-> IF j \in S THEN "gone" ELSE phase[j]]
    /\ length' = [j \in Jobs |-> IF j \in S THEN 0 ELSE length[j]]
    /\ verdict' = [j \in Jobs |-> IF j \in S THEN Nobody ELSE verdict[j]]
    /\ UNCHANGED <<current, turn>>

Next ==
    \/ \E j \in Jobs : Begin(j)
    \/ HandOver
    \/ Record
    \/ \E by \in {turn, Nobody} : Seal(by)
    \/ \E S \in SUBSET Jobs : Forget(S)

Spec == Init /\ [][Next]_contractVars
=============================================================================
