---------------------------- MODULE DurableJobStore ----------------------------
(***************************************************************************)
(* The durable-job tables (models/__init__.py: DurableJobSlot, DurableJob, *)
(* DurableJobEvent) and the transactions DurableJobStore runs on them      *)
(* (core/durable_jobs.py), for ONE scope (tenant, feature, key).  A scope  *)
(* owns one slot row, and no transaction relates the rows of two scopes.   *)
(*                                                                         *)
(* Every action is one committed transaction.  The callers are not         *)
(* modelled here: whoever was ever handed a Claim may call any fenced      *)
(* operation with it at any later time, so a paused, superseded, crashed   *)
(* or duplicated runner is covered.  DurableJobTx splits the transactions  *)
(* into statements; DurableJobExecutor adds the runners.                   *)
(***************************************************************************)
EXTENDS Integers, FiniteSets

CONSTANTS
    Jobs,           \* the ids DurableJob rows may get (uuid4: never reused)
    NoJob,          \* the NULL of current_job_id
    LeaseLen,       \* DurableJobStore.lease_seconds
    Retention,      \* retention_seconds of a finished job
    EventLimit,     \* the newest events kept for replay
    MaxBatch,       \* the most events one append_events call carries
    MaxSkew,        \* how far a caller's utcnow() may be from the true time
    CascadeDeletes, \* does the database enforce ON DELETE CASCADE?
    MaxTime, MaxToken, MaxSeq   \* bounds of the model, see the guards

ASSUME StoreAssumption ==
    /\ NoJob \notin Jobs
    /\ LeaseLen \in Nat \ {0} /\ Retention \in Nat
    /\ EventLimit \in Nat \ {0} /\ MaxBatch \in Nat \ {0}
    /\ MaxSkew \in Nat /\ CascadeDeletes \in BOOLEAN
    /\ MaxTime \in Nat /\ MaxToken \in Nat /\ MaxSeq \in Nat

None == -1                      \* a NULL lease token, lease expiry or result

TERMINAL_STATUSES == {"done", "error", "cancelled"}
Status == {"unborn", "running", "removed"} \union TERMINAL_STATUSES

VARIABLES
    clock,      \* true time
    slot,       \* the DurableJobSlot row of the scope
    job,        \* the DurableJob rows: "unborn" and "removed" rows do not exist
    events,     \* the DurableJobEvent rows of each job
    claims,     \* every acquired Claim ever returned: who may call back
    lastToken   \* fencing tokens are uuid4; numbered here in order of issue

vars == <<clock, slot, job, events, claims, lastToken>>
-----------------------------------------------------------------------------
Token == Nat \ {0}
Time == Nat
Row == [status : Status, token : Token \union {None}, lease : Time \union {None},
        cancel : BOOLEAN, attempt : Nat, seq : Nat,
        expires : Time \union {None}, result : Token \union {None}]
SlotRow == [job : Jobs \union {NoJob}, token : Token \union {None},
            lease : Time \union {None}]
Event == [seq : Nat, token : Token]     \* token: whose append wrote it
ClaimRec == [job : Jobs, token : Token]

TypeOK ==
    /\ clock \in Time
    /\ slot \in SlotRow
    /\ job \in [Jobs -> Row]
    /\ events \in [Jobs -> SUBSET Event]
    /\ claims \subseteq ClaimRec
    /\ lastToken \in Nat

NoRow(status) == [status |-> status, token |-> None, lease |-> None, cancel |-> FALSE,
                  attempt |-> 0, seq |-> 0, expires |-> None, result |-> None]

KeptLease(j) == [job |-> j, token |-> None, lease |-> slot.lease]   \* mutant
FreeSlot(j) == [job |-> j, token |-> None, lease |-> None]

Running(j) == job[j].status = "running"
Terminal(j) == job[j].status \in TERMINAL_STATUSES

CurrentIsAny == slot.job # NoJob                \* mutant: the status is not looked at
CurrentRuns == slot.job # NoJob /\ Running(slot.job)

(* utcnow() on the caller's machine, read before the statements run. *)
Now == (IF clock > MaxSkew THEN clock - MaxSkew ELSE 0)..(clock + MaxSkew)

AnyLease(lease, now) == lease # None            \* mutant: no comparison with now
Lapsed(lease, now) == lease # None /\ lease <= now
-----------------------------------------------------------------------------
(* _ensure_slot has run: the row exists with NULLs. *)
Init ==
    /\ clock = 0
    /\ slot = [job |-> NoJob, token |-> None, lease |-> None]
    /\ job = [j \in Jobs |-> NoRow("unborn")]
    /\ events = [j \in Jobs |-> {}]
    /\ claims = {}
    /\ lastToken = 0

(* The UPDATE ... RETURNING current_job_id of claim: the slot is taken only *)
(* from nobody or from a lease that has run out.  A claim that finds it     *)
(* held rolls back and attaches: no state changes.                          *)
TakeSlot(j, now) ==
    /\ lastToken < MaxToken /\ now + LeaseLen <= MaxTime
    /\ slot.lease = None \/ slot.lease <= now
    /\ lastToken' = lastToken + 1
    /\ slot' = [job |-> j, token |-> lastToken', lease |-> now + LeaseLen]
    /\ claims' = claims \union {[job |-> j, token |-> lastToken']}

FirstRun(token, lease) ==
    [status |-> "running", token |-> token, lease |-> lease, cancel |-> FALSE,
     attempt |-> 1, seq |-> 0, expires |-> None, result |-> None]

(* claim, the current job is missing or terminal: a new execution. *)
ClaimNew(j, now) ==
    /\ job[j].status = "unborn"
    /\ ~CurrentRuns
    /\ TakeSlot(j, now)
    /\ job' = [job EXCEPT ![j] = FirstRun(lastToken', now + LeaseLen)]
    /\ UNCHANGED <<clock, events>>

RestartedNumbers(row, token, lease, cancel) ==          \* mutant: the history restarts at 0
    [status |-> "running", token |-> token, lease |-> lease, cancel |-> cancel,
     attempt |-> row.attempt + 1, seq |-> 0, expires |-> None, result |-> None]
OldToken(row, token, lease, cancel) ==                  \* mutant: the row keeps its token
    [row EXCEPT !.lease = lease, !.cancel = cancel, !.attempt = @ + 1]
NextRun(row, token, lease, cancel) ==
    [status |-> "running", token |-> token, lease |-> lease, cancel |-> cancel,
     attempt |-> row.attempt + 1, seq |-> row.seq, expires |-> row.expires,
     result |-> row.result]

(* claim, the current job still runs on an expired lease: recovered in      *)
(* place.  The event history and its numbering stay; a cancel request the   *)
(* claim has read is dropped, one committed after the read survives (the    *)
(* ORM writes cancel_requested only when the value it read was True).       *)
ClaimRecover(now) ==
    /\ CurrentRuns
    /\ TakeSlot(slot.job, now)
    /\ \E cancel \in {FALSE, job[slot.job].cancel} :
          job' = [job EXCEPT ![slot.job] = NextRun(@, lastToken', now + LeaseLen, cancel)]
    /\ UNCHANGED <<clock, events>>

(* The WHERE of every fenced UPDATE of durable_jobs: no expiry is checked. *)
Unfenced(c) == Running(c.job)                   \* mutant: lease_token is not compared
Fenced(c) == Running(c.job) /\ job[c.job].token = c.token

(* The numbers the UPDATE reserves: the counter after it, less the batch.   *)
OneLower(j, n) == (job[j].seq - 1)..(job[j].seq + n - 2)            \* mutant
Reserved(j, n) == job[j].seq..(job[j].seq + n - 1)

(* The DELETE of append_events: rows ranked past the newest event_limit. *)
OneMore(rows) ==                                \* mutant: OFFSET keep + 1
    {e \in rows : Cardinality({f \in rows : f.seq > e.seq}) <= EventLimit}
Newest(rows) ==
    {e \in rows : Cardinality({f \in rows : f.seq > e.seq}) < EventLimit}

(* append_events: n sequence numbers are reserved by the fenced UPDATE, the *)
(* rows inserted, the overflow deleted.                                     *)
AppendEvents(c, n) ==
    /\ Fenced(c)
    /\ job[c.job].seq + n <= MaxSeq
    /\ job' = [job EXCEPT ![c.job].seq = @ + n]
    /\ LET added == {[seq |-> s, token |-> c.token] : s \in Reserved(c.job, n)}
       IN  events' = [events EXCEPT ![c.job] = Newest(@ \union added)]
    /\ UNCHANGED <<clock, slot, claims, lastToken>>

(* The slot half of heartbeat and finalize; rowcount # 1 rolls back. *)
HoldsSlot(c) == slot.job = c.job /\ slot.token = c.token

(* heartbeat: an expired lease nobody has claimed yet is revived. *)
Heartbeat(c, now) ==
    /\ Fenced(c) /\ HoldsSlot(c)
    /\ now + LeaseLen <= MaxTime
    /\ job' = [job EXCEPT ![c.job].lease = now + LeaseLen]
    /\ slot' = [slot EXCEPT !.lease = now + LeaseLen]
    /\ UNCHANGED <<clock, events, claims, lastToken>>

RequestCancel ==
    /\ CurrentRuns
    /\ job' = [job EXCEPT ![slot.job].cancel = TRUE]
    /\ UNCHANGED <<clock, slot, events, claims, lastToken>>

(* What finalize and interrupt_expired write; attempt, cancel and the event *)
(* counter stay.                                                            *)
Ended(row, status, result, now) ==
    [status |-> status, token |-> None, lease |-> None, cancel |-> row.cancel,
     attempt |-> row.attempt, seq |-> row.seq, expires |-> now + Retention,
     result |-> result]

(* interrupt_expired, also reached from load_current, load_by_id,           *)
(* interrupt_all_expired, list_current and wait_for_terminal.               *)
InterruptExpired(now) ==
    /\ CurrentRuns
    /\ Lapsed(slot.lease, now) /\ Lapsed(job[slot.job].lease, now)
    /\ job' = [job EXCEPT ![slot.job] = Ended(@, "error", None, now)]
    /\ slot' = FreeSlot(slot.job)
    /\ UNCHANGED <<clock, events, claims, lastToken>>

Finalize(c, status, now) ==
    /\ Fenced(c) /\ HoldsSlot(c)
    /\ job' = [job EXCEPT ![c.job] = Ended(@, status, c.token, now)]
    /\ slot' = FreeSlot(c.job)
    /\ UNCHANGED <<clock, events, claims, lastToken>>

Detach(S) == slot' = [slot EXCEPT !.job = IF @ \in S THEN NoJob ELSE @]
Remove(S) == job' = [j \in Jobs |-> IF j \in S THEN NoRow("removed") ELSE job[j]]

WithoutEvents(S) == [j \in Jobs |-> IF j \in S THEN {} ELSE events[j]]

(* dismiss: the events go only where the foreign key cascades.  Its SELECT  *)
(* asks for the current job, but a claim may commit before the DELETE, so   *)
(* what is removed is a terminal job that was current.                      *)
Dismiss(j) ==
    /\ Terminal(j)
    /\ Detach({j})
    /\ Remove({j})
    /\ events' = IF CascadeDeletes THEN WithoutEvents({j}) ELSE events
    /\ UNCHANGED <<clock, claims, lastToken>>

(* cleanup deletes the events itself.  S is what its SELECT saw: a row that *)
(* expires before the commit is left for the next pass.                     *)
Expired(now) == {j \in Jobs : Terminal(j) /\ Lapsed(job[j].expires, now)}
Cleanup(S, now) ==
    /\ S # {} /\ S \subseteq Expired(now)
    /\ Detach(S)
    /\ Remove(S)
    /\ events' = WithoutEvents(S)
    /\ UNCHANGED <<clock, claims, lastToken>>

Tick ==
    /\ clock < MaxTime
    /\ clock' = clock + 1
    /\ UNCHANGED <<slot, job, events, claims, lastToken>>

Next ==
    \/ Tick
    \/ RequestCancel
    \/ \E j \in Jobs : Dismiss(j)
    \/ \E now \in Now :
          \/ ClaimRecover(now)
          \/ InterruptExpired(now)
          \/ \E S \in SUBSET Jobs : Cleanup(S, now)
          \/ \E j \in Jobs : ClaimNew(j, now)
    \/ \E c \in claims :
          \/ \E n \in 1..MaxBatch : AppendEvents(c, n)
          \/ \E now \in Now : Heartbeat(c, now)
          \/ \E now \in Now, s \in TERMINAL_STATUSES : Finalize(c, s, now)

Spec == Init /\ [][Next]_vars
-----------------------------------------------------------------------------
(* Mutual exclusion, the reason the slot exists: a running job is the one   *)
(* the slot points to, under the same fencing token and expiry on both      *)
(* rows, and a leased slot always has a running job, so that an expiry of   *)
(* the lease is enough to free the scope.  Every claim, heartbeat,          *)
(* interrupt and finalize has to write both rows for this to survive.       *)
SlotGuardsRun ==
    /\ \A j \in Jobs : Running(j) =>
          /\ slot = [job |-> j, token |-> job[j].token, lease |-> job[j].lease]
          /\ slot.token # None /\ slot.lease # None
    /\ slot.lease # None => CurrentRuns

(* Fencing of the outcome: a stored result comes from the last runner the   *)
(* job was ever granted to, never from one it was taken from; while the job *)
(* runs, only that last runner is able to write.                            *)
LastClaimDecides ==
    \A c \in claims :
        /\ c.token <= lastToken
        /\ Running(c.job) => c.token <= job[c.job].token
        /\ job[c.job].result # None => c.token <= job[c.job].result

(* Fencing of the history: events are numbered once, below next_event_seq,  *)
(* and no event of a superseded runner follows an event of its successor,   *)
(* whatever was delayed.                                                    *)
FencedHistory ==
    \A j \in Jobs : \A e, f \in events[j] :
        /\ e.seq = f.seq => e = f
        /\ e.seq < f.seq => e.token <= f.token

(* A reader that joins late replays a history with no hole in it: the rows  *)
(* kept are exactly the newest EventLimit of the numbers handed out, across *)
(* batches and recoveries (append_events).                                  *)
ReplayWindow ==
    \A j \in Jobs : job[j].status \notin {"unborn", "removed"} =>
        {e.seq : e \in events[j]} =
            {s \in 0..(job[j].seq - 1) : s >= job[j].seq - EventLimit}

(* A terminal status, its result and the history of the job never change    *)
(* again; the only thing left to happen is the removal of the row and, where *)
(* the database cascades, of its events with it ("Delete one terminal       *)
(* current job and its replay events", durable_jobs.py:877).  A late        *)
(* append, heartbeat, cancel or second finalize changes nothing, and brings *)
(* nothing of a removed job back.                                           *)
TerminalIsFinal ==
    [][\A j \in Jobs : Terminal(j) \/ job[j].status = "removed" =>
          \/ job'[j] = job[j] /\ events'[j] = events[j]
          \/ /\ Terminal(j) /\ job'[j].status = "removed"
             /\ CascadeDeletes => events'[j] = {}]_vars

(* No step takes a running job from its runner (recovery) or declares it    *)
(* interrupted while its lease is still in force: at worst it is early by   *)
(* the clock difference of the two machines.                                *)
NoEarlyTakeover ==
    [][\A j \in Jobs : Running(j) /\ job'[j].token # job[j].token =>
          \/ job[j].lease <= clock + MaxSkew
          \/ job'[j].result = job[j].token]_vars
-----------------------------------------------------------------------------
(* The store keeps the promises of JobContract: the slot's lease decides    *)
(* which job is current, the order of the fencing tokens is the turn.       *)
Phase(status) ==
    IF status = "unborn" THEN "new"
    ELSE IF status = "running" THEN "open"
    ELSE IF status = "removed" THEN "gone"
    ELSE "sealed"

Contract == INSTANCE JobContract WITH
    current <- IF slot.lease = None THEN NoJob ELSE slot.job,
    turn <- lastToken,
    phase <- [j \in Jobs |-> Phase(job[j].status)],
    length <- [j \in Jobs |-> job[j].seq],
    verdict <- [j \in Jobs |-> job[j].result]

(* Every behaviour of the tables is one the contract allows (claim,         *)
(* append_events, finalize, interrupt_expired, dismiss, cleanup).           *)
ImplementsContract == Contract!Spec
=============================================================================
