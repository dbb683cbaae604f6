---------------------------- MODULE MissionAdmission ----------------------------
(***************************************************************************)
(* missions/orchestrator.py: _AdmissionQueue, which lets few missions at a  *)
(* time work on Azure, and the part of _run that passes through it.         *)
(*                                                                         *)
(* A mission is a task of one event loop.  What it does between two awaits  *)
(* is one action; where it awaits, it may have been cancelled in the        *)
(* meantime, by its executor (a cancellation that came through the ledger,  *)
(* a lost lease), and then it goes on with a CancelledError.  The lock of   *)
(* the queue is never held across an await.                                 *)
(***************************************************************************)
EXTENDS Integers, FiniteSets, Sequences

CONSTANTS
    Missions,
    Lane,               \* of each mission: tenant and connection
    MaxGlobal,          \* MISSION_QUEUE_MAX_GLOBAL
    MaxPerLane,         \* MISSION_QUEUE_MAX_PER_CONNECTION
    MaxCancels          \* a bound: missions whose task is cancelled

ASSUME MissionAssumption == MaxGlobal \in Nat \ {0} /\ MaxPerLane \in Nat \ {0} /\ MaxCancels \in Nat

VARIABLES
    pending,    \* _pending: missions in the order they came
    active,     \* _active: missions that hold a slot and their lane
    mission,    \* of each mission: its task
    leaked      \* history: missions that ended without giving back their slot

mvars == <<pending, active, mission, leaked>>
-----------------------------------------------------------------------------
(* at: the await it is in; "created": _create_row; "queued": acquire, the   *)
(* future or the delay after it; "final": the _persist of the finally.      *)
(* requested: cancel_requested; hit: a CancelledError is due.               *)
MissionRec == [at : {"created", "queued", "running", "final", "ended"}, admitted : BOOLEAN,
               requested : BOOLEAN, hit : BOOLEAN, cancelled : BOOLEAN]
MissionTypeOK ==
    /\ mission \in [Missions -> MissionRec]
    /\ \A i, j \in DOMAIN pending : pending[i] \in Missions /\ (pending[i] = pending[j] => i = j)
    /\ active \subseteq Missions /\ leaked \subseteq active
MissionInit ==
    /\ pending = <<>> /\ active = {} /\ leaked = {}
    /\ mission = [m \in Missions |-> [at |-> "created", admitted |-> FALSE, requested |-> FALSE,
                                      hit |-> FALSE, cancelled |-> FALSE]]

InLane(held, l) == {m \in held : Lane[m] = l}
Eligible(queue, held) ==
    {i \in DOMAIN queue : /\ Cardinality(held) < MaxGlobal
                          /\ Cardinality(InLane(held, Lane[queue[i]])) < MaxPerLane}

Taken(queue, i) == SubSeq(queue, 1, i - 1) \o SubSeq(queue, i + 1, Len(queue))

(* _dispatch_locked, after one mission came or one slot was given back: at  *)
(* most one of those that wait can go on, the first whose lane has room.    *)
Dispatch(queue, held) ==
    LET eligible == Eligible(queue, held)
        first == CHOOSE i \in eligible : \A j \in eligible : i <= j
    IN  IF eligible = {} THEN pending' = queue /\ active' = held
        ELSE pending' = Taken(queue, first) /\ active' = held \union {queue[first]}
Goes(m, at) == mission' = [mission EXCEPT ![m].at = at, ![m].hit = FALSE]
Without(m) ==
    LET at == {i \in DOMAIN pending : pending[i] = m}
    IN  IF at = {} THEN pending ELSE Taken(pending, CHOOSE i \in at : TRUE)
-----------------------------------------------------------------------------
(* acquire *)
Enqueue(m) ==
    /\ mission[m].at = "created"
    /\ IF mission[m].hit
       THEN Goes(m, "ended") /\ UNCHANGED <<pending, active>>
       ELSE Goes(m, "queued") /\ Dispatch(Append(pending, m), active)
    /\ UNCHANGED leaked
Admitted(m) ==
    /\ mission[m].at = "queued" /\ m \in active /\ ~mission[m].hit
    /\ mission' = [mission EXCEPT ![m].admitted = TRUE,
                      ![m].at = IF mission[m].requested THEN "final" ELSE "running"]
    /\ UNCHANGED <<pending, active, leaked>>
KeepsSlot(m) == active                  \* mutant
GivenBack(m) == active \ {m}
AcquireCancelled(m) ==                  \* its future may have been dispatched
    /\ mission[m].at = "queued" /\ mission[m].hit
    /\ Goes(m, "final") /\ Dispatch(Without(m), GivenBack(m))
    /\ UNCHANGED leaked

(* The systems of the mission run, end, fail or are cancelled.  Then the    *)
(* finally: the row is saved, and after it the slot is given back, unless a *)
(* cancellation comes while it is saved.                                    *)
RunEnds(m) ==
    /\ mission[m].at = "running"
    /\ Goes(m, "final")
    /\ UNCHANGED <<pending, active, leaked>>
Saved(m) ==
    /\ mission[m].at = "final"
    /\ Goes(m, "ended")
    /\ IF mission[m].admitted /\ ~mission[m].hit
       THEN Dispatch(pending, active \ {m}) /\ UNCHANGED leaked
       ELSE /\ leaked' = IF mission[m].admitted THEN leaked \union {m} ELSE leaked
            /\ UNCHANGED <<pending, active>>

(* cancel: refused once the status is terminal; and the executor's cancel   *)
(* of the task, which knows nothing of that.                                *)
CancelRequest(m) ==
    /\ mission[m].at \in {"created", "queued", "running"} /\ ~mission[m].requested
    /\ mission' = [mission EXCEPT ![m].requested = TRUE]
    /\ UNCHANGED <<pending, active, leaked>>
TaskCancelled(m) ==
    /\ mission[m].at # "ended" /\ ~mission[m].cancelled
    /\ Cardinality({n \in Missions : mission[n].cancelled}) < MaxCancels
    /\ mission' = [mission EXCEPT ![m].hit = TRUE, ![m].cancelled = TRUE]
    /\ UNCHANGED <<pending, active, leaked>>

MissionNext ==
    \E m \in Missions :
        \/ Enqueue(m) \/ Admitted(m) \/ AcquireCancelled(m)
        \/ RunEnds(m) \/ Saved(m) \/ CancelRequest(m) \/ TaskCancelled(m)
MissionSpec == MissionInit /\ [][MissionNext]_mvars
-----------------------------------------------------------------------------
(* Wherever cancellations strike, the caps hold; a slot is held by a        *)
(* mission that is queued, runs or is being saved, or was lost by one       *)
(* cancelled while it was saved, and by no other; who runs holds one; and   *)
(* no mission waits while a slot and its lane are free.                     *)
LanesKept ==
    /\ Cardinality(active) <= MaxGlobal
    /\ \A l \in {Lane[m] : m \in Missions} : Cardinality(InLane(active, l)) <= MaxPerLane
    /\ \A m \in active : mission[m].at \in {"queued", "running", "final"} \/ m \in leaked
    /\ \A m \in Missions : mission[m].at = "running" => m \in active
    /\ Eligible(pending, active) = {}
=============================================================================
