------------------------------ MODULE DurableJobTx ------------------------------
(***************************************************************************)
(* The transactions of DurableJobStore split into their SQL statements,    *)
(* as PostgreSQL runs them at READ COMMITTED: an UPDATE takes the row's    *)
(* lock or waits for it and then looks at its WHERE again, a SELECT reads  *)
(* what is committed and takes nothing.  Effects show at the commit, which *)
(* is merged with the transaction's last statement; a lock is what a       *)
(* transaction holds in between.                                           *)
(*                                                                         *)
(* append_events writes under one row lock taken by its first statement,   *)
(* so nothing can be told from doing it in one step.  heartbeat, finalize  *)
(* and interrupt_expired lock the job and then the slot; claim locks the   *)
(* slot and then the job, so the two can deadlock: the database aborts one.*)
(***************************************************************************)
EXTENDS DurableJobStore

CONSTANTS Sessions, NoSession, Polls

(* This is PostgreSQL, which enforces its foreign keys (CascadeDeletes).    *)
ASSUME TxAssumption == NoSession \notin Sessions /\ Polls \in Nat /\ CascadeDeletes

VARIABLES
    tx,         \* the open transaction of each session and where it stands
    slotLock,   \* the session holding the slot row's lock
    jobLock     \* ... and each job row's

txvars == <<clock, slot, job, events, claims, lastToken, tx, slotLock, jobLock>>
-----------------------------------------------------------------------------
Ops == {"idle", "claim", "attach", "raised", "heartbeat", "cancel", "interrupt",
        "finalize", "remove"}

(* saw: what a plain SELECT returned to the code, used by later statements. *)
TxRec == [op : Ops, at : {"begin", "slot", "read", "job"}, now : Time,
          id : Jobs \union {NoJob}, token : Token \union {None},
          runs : BOOLEAN, cancel : BOOLEAN, dead : SUBSET Jobs, tries : Nat]

(* The types of the sessions' state. *)
TxTypeOK ==
    /\ tx \in [Sessions -> TxRec]
    /\ slotLock \in Sessions \union {NoSession}
    /\ jobLock \in [Jobs -> Sessions \union {NoSession}]

Idle == [op |-> "idle", at |-> "begin", now |-> 0, id |-> NoJob, token |-> None,
         runs |-> FALSE, cancel |-> FALSE, dead |-> {}, tries |-> 0]

At(s, op, at) == tx[s].op = op /\ tx[s].at = at
Move(s, rec) == tx' = [tx EXCEPT ![s] = rec]

LockSlot(s) == slotLock = NoSession /\ slotLock' = s
LockJob(s, j) == jobLock[j] = NoSession /\ jobLock' = [jobLock EXCEPT ![j] = s]

(* COMMIT, ROLLBACK or the end of the connection. *)
Release(s) ==
    /\ Move(s, Idle)
    /\ slotLock' = IF slotLock = s THEN NoSession ELSE slotLock
    /\ jobLock' = [j \in Jobs |-> IF jobLock[j] = s THEN NoSession ELSE jobLock[j]]

Locks == <<slotLock, jobLock>>

(* The lock a session's next statement needs; a claim that found a job to   *)
(* recover needs that job's row, one that creates a job needs nothing more. *)
NeedsSlot(s) ==
    \/ At(s, "claim", "begin")
    \/ tx[s].op \in {"heartbeat", "finalize", "interrupt"} /\ tx[s].at = "slot"
    \/ At(s, "remove", "slot") /\ slot.job \in tx[s].dead
NeedsJob(s, j) ==
    \/ At(s, "claim", "job") /\ tx[s].runs /\ tx[s].id = j
    \/ tx[s].op \in {"heartbeat", "finalize", "interrupt", "cancel"} /\ tx[s].at = "job"
       /\ tx[s].id = j
    \/ At(s, "remove", "job") /\ j \in tx[s].dead
WaitsFor(s, t) ==
    /\ s # t
    /\ \/ NeedsSlot(s) /\ slotLock = t
       \/ \E j \in Jobs : NeedsJob(s, j) /\ jobLock[j] = t
-----------------------------------------------------------------------------
TxInit ==
    /\ Init
    /\ tx = [s \in Sessions |-> Idle]
    /\ slotLock = NoSession
    /\ jobLock = [j \in Jobs |-> NoSession]

(* A call enters the store: utcnow() is read before the transaction opens.  *)
(* The sessions share one clock; what differs is how old a reading is when  *)
(* it is used, and MaxSkew bounds that too.                                 *)
Begin(s, op, at, now, id, token) ==
    /\ tx[s].op \in {"idle", "raised"}
    /\ Move(s, [Idle EXCEPT !.op = op, !.at = at, !.now = now, !.id = id, !.token = token])
    /\ UNCHANGED <<vars, Locks>>

(* A bound of the model: a claim in flight has a fencing token left to take *)
(* (and, with as many Jobs as tokens, a job id).                            *)
TokenLeft == lastToken + Cardinality({s \in Sessions : tx[s].op = "claim"}) < MaxToken

Call(s) ==
    \/ Begin(s, "interrupt", "begin", clock, NoJob, None)
    \/ Begin(s, "cancel", "begin", 0, NoJob, None)
    \/ \E c \in claims : Begin(s, "finalize", "job", clock, c.job, c.token)
    \/ /\ clock + LeaseLen <= MaxTime
       /\ \/ TokenLeft /\ Begin(s, "claim", "begin", clock, NoJob, None)
          \/ \E c \in claims : Begin(s, "heartbeat", "job", clock, c.job, c.token)
-----------------------------------------------------------------------------
ClaimSelects(s) ==                              \* mutant: a SELECT decides, no lock is taken
    /\ At(s, "claim", "begin")
    /\ Move(s, IF slot.lease = None \/ slot.lease <= tx[s].now
               THEN [tx[s] EXCEPT !.at = "read", !.id = slot.job]
               ELSE [tx[s] EXCEPT !.op = "attach"])
    /\ UNCHANGED <<vars, Locks>>

(* claim, statement 1: UPDATE durable_job_slots ... RETURNING               *)
(* current_job_id.  Taken, or held by another: then attach.                 *)
ClaimSlot(s) ==
    /\ At(s, "claim", "begin")
    /\ slotLock = NoSession
    /\ IF slot.lease = None \/ slot.lease <= tx[s].now
       THEN LockSlot(s) /\ Move(s, [tx[s] EXCEPT !.at = "read", !.id = slot.job])
       ELSE Move(s, [tx[s] EXCEPT !.op = "attach"]) /\ UNCHANGED slotLock
    /\ UNCHANGED <<vars, jobLock>>

(* statement 2: db.get of the job, no lock taken. *)
ClaimRead(s) ==
    /\ At(s, "claim", "read")
    /\ LET id == tx[s].id
       IN  Move(s, [tx[s] EXCEPT !.at = "job", !.runs = id # NoJob /\ Running(id),
                                 !.cancel = id # NoJob /\ job[id].cancel])
    /\ UNCHANGED <<vars, Locks>>

Grant(s, j) ==
    /\ lastToken' = lastToken + 1
    /\ slot' = [job |-> j, token |-> lastToken', lease |-> tx[s].now + LeaseLen]
    /\ claims' = claims \union {[job |-> j, token |-> lastToken']}
    /\ Release(s)
    /\ UNCHANGED <<clock, events>>

(* statement 3: UPDATE of the job by id alone, and the commit. *)
ClaimWriteOld(s) ==
    /\ At(s, "claim", "job") /\ tx[s].runs
    /\ jobLock[tx[s].id] = NoSession
    /\ Grant(s, tx[s].id)
    /\ job' = [job EXCEPT ![tx[s].id] =
                  NextRun(@, lastToken', tx[s].now + LeaseLen, @.cancel /\ ~tx[s].cancel)]

(* statements 3 to 5: INSERT with a fresh uuid, any one (Jobs bounds how    *)
(* many there are), the slot's UPDATE, the commit.                          *)
ClaimWriteNew(s) ==
    /\ At(s, "claim", "job") /\ ~tx[s].runs
    /\ LET fresh == {i \in Jobs : job[i].status = "unborn"}
           j == CHOOSE i \in fresh : TRUE
       IN  /\ fresh # {}
           /\ Grant(s, j)
           /\ job' = [job EXCEPT ![j] = FirstRun(lastToken', tx[s].now + LeaseLen)]

(* A refused claim reads the current job, up to 1 + Polls times.  What it   *)
(* reads is never "no job" unless the job it lost to has ended and been     *)
(* removed or outlived its retention since.                                 *)
Attach(s) ==
    /\ tx[s].op = "attach"
    /\ LET found == slot.job # NoJob /\ slot.job \notin Expired(clock)
       IN  Move(s, IF found THEN Idle
                   ELSE IF tx[s].tries = Polls THEN [Idle EXCEPT !.op = "raised"]
                   ELSE [tx[s] EXCEPT !.tries = @ + 1])
    /\ UNCHANGED <<vars, Locks>>
-----------------------------------------------------------------------------
FencedLeaves(s) ==                              \* mutant: no rollback when the fence is lost
    /\ tx[s].op \in {"heartbeat", "finalize"} /\ tx[s].at = "job"
    /\ LockJob(s, tx[s].id) /\ UNCHANGED slotLock
    /\ IF Fenced([job |-> tx[s].id, token |-> tx[s].token])
       THEN Move(s, [tx[s] EXCEPT !.at = "slot"])
       ELSE Move(s, Idle)
    /\ UNCHANGED vars

(* heartbeat and finalize, statement 1: the fenced UPDATE of the job. *)
FencedJob(s) ==
    /\ tx[s].op \in {"heartbeat", "finalize"} /\ tx[s].at = "job"
    /\ jobLock[tx[s].id] = NoSession
    /\ IF Fenced([job |-> tx[s].id, token |-> tx[s].token])
       THEN LockJob(s, tx[s].id) /\ Move(s, [tx[s] EXCEPT !.at = "slot"]) /\ UNCHANGED slotLock
       ELSE Release(s)
    /\ UNCHANGED vars

(* statement 2: the UPDATE of the slot; one row, or everything rolls back.  *)
HeartbeatSlot(s) ==
    /\ At(s, "heartbeat", "slot")
    /\ slotLock = NoSession
    /\ Release(s)
    /\ LET c == [job |-> tx[s].id, token |-> tx[s].token]
           until == tx[s].now + LeaseLen
       IN  IF HoldsSlot(c)
           THEN /\ job' = [job EXCEPT ![c.job].lease = until]
                /\ slot' = [slot EXCEPT !.lease = until]
                /\ UNCHANGED <<clock, events, claims, lastToken>>
           ELSE UNCHANGED vars

FinalizeSlot(s) ==
    /\ At(s, "finalize", "slot")
    /\ slotLock = NoSession
    /\ Release(s)
    /\ LET c == [job |-> tx[s].id, token |-> tx[s].token]
       IN  IF HoldsSlot(c)
           THEN /\ \E status \in TERMINAL_STATUSES :
                      job' = [job EXCEPT ![c.job] = Ended(@, status, c.token, tx[s].now)]
                /\ slot' = FreeSlot(c.job)
                /\ UNCHANGED <<clock, events, claims, lastToken>>
           ELSE UNCHANGED vars

(* append_events: nobody else may hold the job row. *)
Append ==
    \E c \in claims, n \in 1..MaxBatch :
        /\ jobLock[c.job] = NoSession
        /\ AppendEvents(c, n)
        /\ UNCHANGED <<tx, Locks>>

(* request_cancel: the subquery is evaluated once, before any wait; the     *)
(* status is looked at again under the lock.                                *)
CancelRead(s) ==
    /\ At(s, "cancel", "begin")
    /\ Move(s, IF slot.job = NoJob THEN Idle ELSE [tx[s] EXCEPT !.at = "job", !.id = slot.job])
    /\ UNCHANGED <<vars, Locks>>
CancelWrite(s) ==
    /\ At(s, "cancel", "job")
    /\ jobLock[tx[s].id] = NoSession
    /\ Release(s)
    /\ job' = IF Running(tx[s].id) THEN [job EXCEPT ![tx[s].id].cancel = TRUE] ELSE job
    /\ UNCHANGED <<clock, slot, events, claims, lastToken>>

(* interrupt_expired: SELECT of the slot, UPDATE of the job, UPDATE of the  *)
(* slot, each with the expiry in its WHERE.                                 *)
InterruptRead(s) ==
    /\ At(s, "interrupt", "begin")
    /\ Move(s, IF slot.job # NoJob /\ Lapsed(slot.lease, tx[s].now)
               THEN [tx[s] EXCEPT !.at = "job", !.id = slot.job] ELSE Idle)
    /\ UNCHANGED <<vars, Locks>>
InterruptAny(s) ==                              \* mutant: the job's own lease is not compared
    /\ At(s, "interrupt", "job")
    /\ jobLock[tx[s].id] = NoSession
    /\ IF Running(tx[s].id)
       THEN LockJob(s, tx[s].id) /\ Move(s, [tx[s] EXCEPT !.at = "slot"]) /\ UNCHANGED slotLock
       ELSE Release(s)
    /\ UNCHANGED vars
InterruptJob(s) ==
    /\ At(s, "interrupt", "job")
    /\ jobLock[tx[s].id] = NoSession
    /\ IF Running(tx[s].id) /\ Lapsed(job[tx[s].id].lease, tx[s].now)
       THEN LockJob(s, tx[s].id) /\ Move(s, [tx[s] EXCEPT !.at = "slot"]) /\ UNCHANGED slotLock
       ELSE Release(s)
    /\ UNCHANGED vars
InterruptSlot(s) ==
    /\ At(s, "interrupt", "slot")
    /\ slotLock = NoSession
    /\ Release(s)
    /\ IF slot.job = tx[s].id /\ Lapsed(slot.lease, tx[s].now)
       THEN /\ job' = [job EXCEPT ![slot.job] = Ended(@, "error", None, tx[s].now)]
            /\ slot' = FreeSlot(slot.job)
            /\ UNCHANGED <<clock, events, claims, lastToken>>
       ELSE UNCHANGED vars
-----------------------------------------------------------------------------
(* dismiss and cleanup, the SELECT: the terminal current job, or the        *)
(* terminal jobs past their retention.                                      *)
RemoveRead(s) ==
    /\ tx[s].op \in {"idle", "raised"}
    /\ \E dead \in {{j} : j \in {i \in Jobs : slot.job = i /\ Terminal(i)}}
                   \union {Expired(clock)} :
          /\ dead # {}
          /\ Move(s, [Idle EXCEPT !.op = "remove", !.at = "slot", !.dead = dead])
    /\ UNCHANGED <<vars, Locks>>
(* the UPDATE of the slot: no lock where its WHERE matches nothing. *)
RemoveSlot(s) ==
    /\ At(s, "remove", "slot")
    /\ IF slot.job \in tx[s].dead THEN LockSlot(s) ELSE UNCHANGED slotLock
    /\ Move(s, [tx[s] EXCEPT !.at = "job"])
    /\ UNCHANGED <<vars, jobLock>>
(* the DELETEs and the commit; rows another session has removed are gone.   *)
RemoveJobs(s) ==
    /\ At(s, "remove", "job")
    /\ \A j \in tx[s].dead : jobLock[j] = NoSession
    /\ Release(s)
    /\ Detach(tx[s].dead)
    /\ Remove(tx[s].dead)
    /\ events' = WithoutEvents(tx[s].dead)
    /\ UNCHANGED <<clock, claims, lastToken>>
-----------------------------------------------------------------------------
Statement(s) ==
    \/ ClaimSlot(s) \/ ClaimRead(s) \/ ClaimWriteOld(s) \/ ClaimWriteNew(s) \/ Attach(s)
    \/ FencedJob(s) \/ HeartbeatSlot(s) \/ FinalizeSlot(s)
    \/ CancelRead(s) \/ CancelWrite(s)
    \/ InterruptRead(s) \/ InterruptJob(s) \/ InterruptSlot(s)
    \/ RemoveSlot(s) \/ RemoveJobs(s)

Abort(s) ==
    /\ Release(s)
    /\ UNCHANGED vars

(* The database's deadlock detector picks one of two transactions that wait *)
(* for each other; with these lock orders no longer cycle exists.           *)
BreakDeadlock(s) ==
    /\ \E t \in Sessions : WaitsFor(s, t) /\ WaitsFor(t, s)
    /\ Abort(s)

(* A lost connection, a statement timeout, a caller that is cancelled. *)
Drop(s) == tx[s].op # "idle" /\ Abort(s)

(* No transaction stays open for longer than MaxSkew (the callers'          *)
(* operation timeouts).                                                     *)
TxTick ==
    /\ Tick
    /\ \A s \in Sessions :
          tx[s].op \in {"claim", "heartbeat", "finalize", "interrupt"} =>
              tx[s].now + MaxSkew > clock
    /\ UNCHANGED <<tx, Locks>>

TxNext ==
    \/ TxTick
    \/ Append
    \/ \E s \in Sessions :
          Call(s) \/ RemoveRead(s) \/ Statement(s) \/ BreakDeadlock(s) \/ Drop(s)

(* PostgreSQL queues the waiters of a row lock in order, so a statement     *)
(* that keeps becoming possible is executed; the detector always runs.      *)
TxFairness == \A s \in Sessions : SF_txvars(Statement(s)) /\ WF_txvars(BreakDeadlock(s))
TxSpec == TxInit /\ [][TxNext]_txvars /\ TxFairness
-----------------------------------------------------------------------------
(* The statements of concurrent transactions, in any interleaving and with  *)
(* any of them dropped half way, do to the tables only what the atomic      *)
(* transactions of DurableJobStore do (all of DurableJobStore's methods).   *)
AtomicTransactions == Spec

(* What a statement saw is still so when a later statement of the same      *)
(* transaction acts on it, although most of it was read without a lock: the *)
(* job a claim decided to recover or replace, the ownership a heartbeat or  *)
(* finalize established, the expiry an interrupt acts on.                   *)
ReadsStillHold ==
    \A s \in Sessions :
        LET id == tx[s].id
            caller == [job |-> id, token |-> tx[s].token]
        IN  /\ At(s, "claim", "job") =>
                  /\ slotLock = s /\ slot.job = id
                  /\ tx[s].runs <=> CurrentRuns
            /\ tx[s].op \in {"heartbeat", "finalize"} /\ tx[s].at = "slot" =>
                  jobLock[id] = s /\ Fenced(caller) /\ HoldsSlot(caller)
            /\ At(s, "interrupt", "slot") =>
                  jobLock[id] = s /\ slot.job = id /\ Lapsed(slot.lease, tx[s].now)

(* No session waits for ever: claim locks slot then job, heartbeat and      *)
(* finalize job then slot, and still every call ends, with a result or an   *)
(* exception (begun ~> ended, that is []<>ended).                           *)
EveryCallEnds == \A s \in Sessions : []<>(tx[s].op \in {"idle", "raised"})
=============================================================================
