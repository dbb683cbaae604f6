------------------------------- MODULE Scheduler -------------------------------
(***************************************************************************)
(* automations/scheduler.py and automations/runner.py, with the endpoints  *)
(* of api/automations.py that change a task: recurring tasks in one table, *)
(* replicas that claim a due occurrence under a lease and run it beside a   *)
(* heartbeat, and runs started by hand, which have no lease.                *)
(*                                                                         *)
(* The occurrences of a task are numbered as its schedule has them, up to  *)
(* its end date; compute_next_run after an occurrence is the number that   *)
(* follows.  Each action is one transaction, but for a manual run's end,   *)
(* which reads the task without a lock and writes it later; an edit is one  *)
(* step, although it too is read and written.  Times are what is left.      *)
(***************************************************************************)
EXTENDS Integers, FiniteSets

CONSTANTS
    Tasks, Replicas,
    AgentTasks,         \* the tasks with target_type "agent"
    Last,               \* of a task: its last occurrence before the end date
    MaxRuns,            \* max_runs of each task
    Slots,              \* MAX_CONCURRENT_RUNS
    LeaseLen, Renew,    \* LEASE_SECONDS, HEARTBEAT_SECONDS
    MaxFaults,          \* a bound: stops, crashes, failed calls and runs
    Faulty,             \* a bound: the replicas they befall
    MaxManual,          \* a bound: manual runs of each task
    MaxEdits            \* a bound: edits of each task

Nobody == "nobody"      \* no lease owner
Gone == "gone"          \* the worker id of a process that is no more
Null == 0               \* no occurrence, no token

ASSUME SchedulerAssumption ==
    /\ AgentTasks \subseteq Tasks /\ {Nobody, Gone} \intersect Replicas = {}
    /\ Last \in [Tasks -> Nat \ {0}] /\ MaxRuns \in [Tasks -> Nat \ {0}] /\ Slots \in Nat \ {0}
    /\ IsFiniteSet(Replicas) /\ LeaseLen \in Nat /\ Renew \in 1..LeaseLen - 1
    /\ MaxFaults \in Nat /\ Faulty \subseteq Replicas
    /\ MaxManual \in [Tasks -> Nat] /\ MaxEdits \in [Tasks -> Nat]

VARIABLES
    task,       \* scheduled_tasks
    due,        \* how many occurrences of each task have come
    replica,    \* of each process: its scheduler and its runs
    manual,     \* of each task, a manual run between its read and its write
    bounds,     \* faults, manual runs and edits so far
    done,       \* history: how often each occurrence was completed
    rewound,    \* history: how often a manual run's end has put each back
    missed      \* history: a heartbeat has failed

svars == <<task, due, replica, manual, bounds, done, rewound, missed>>
-----------------------------------------------------------------------------
Occurrences == UNION {1..Last[t] : t \in Tasks}

(* next: next_run_at; pending: lease_occurrence_at; left: until             *)
(* lease_expires_at; deleted: deleted_at is set.                            *)
TaskRec == [status : {"on", "off", "ended", "deleted", "purged"}, deleted : BOOLEAN,
            next : Occurrences \union {Null}, pending : Occurrences \union {Null},
            owner : Replicas \union {Nobody, Gone}, token : Nat, left : 0..LeaseLen, completed : Nat]

(* beat: until the heartbeat's next turn, -1 when it has ended.             *)
RunRec == [task : Tasks, token : Nat, occurrence : Occurrences,
           at : {"waiting", "started", "working", "leaving"}, beat : -1..Renew]

(* running: _running_ids, a set of tasks whatever the number of their runs. *)
ReplicaRec == [at : {"up", "stopping", "down"}, running : SUBSET Tasks, runs : SUBSET RunRec]
ManualRec == [at : {"none", "writing"}, status : {"none", "on", "other"},
              was : Occurrences \union {Null}, completed : Nat, next : Occurrences \union {Null}]

SchedTypeOK ==
    /\ task \in [Tasks -> TaskRec]
    /\ due \in [Tasks -> Nat] /\ \A t \in Tasks : due[t] <= Last[t]
    /\ replica \in [Replicas -> ReplicaRec]
    /\ manual \in [Tasks -> ManualRec]
    /\ bounds \in [faults : 0..MaxFaults, manuals : [Tasks -> Nat], edits : [Tasks -> Nat]]
    /\ done \in [Tasks -> [Occurrences -> Nat]] /\ rewound \in [Tasks -> [Occurrences -> Nat]]
    /\ missed \in BOOLEAN

PastTheEnd(t, o) == IF o <= Last[t] THEN o + 1 ELSE Null    \* mutant
NextAfter(t, o) == IF o < Last[t] THEN o + 1 ELSE Null      \* compute_next_run
NextRun(t) == NextAfter(t, due[t])                          \* from now
Scheduled(rec, next) ==                 \* "ended" when no occurrence is left
    [rec EXCEPT !.next = next, !.status = IF next = Null THEN "ended" ELSE "on"]

NoManual == [at |-> "none", status |-> "none", was |-> Null, completed |-> 0, next |-> Null]
Fault(r) ==
    /\ r \in Faulty /\ bounds.faults < MaxFaults
    /\ bounds' = [bounds EXCEPT !.faults = @ + 1]
RunsOf(r) == replica[r].runs
Change(r, x, y) == replica' = [replica EXCEPT ![r].runs = (@ \ {x}) \union {y}]

SchedInit ==
    /\ task = [t \in Tasks |-> [status |-> "on", deleted |-> FALSE, next |-> 1, pending |-> Null,
                                owner |-> Nobody, token |-> Null, left |-> 0, completed |-> 0]]
    /\ due = [t \in Tasks |-> 0]
    /\ replica = [r \in Replicas |-> [at |-> "up", running |-> {}, runs |-> {}]]
    /\ manual = [t \in Tasks |-> NoManual]
    /\ bounds = [faults |-> 0, manuals |-> [t \in Tasks |-> 0], edits |-> [t \in Tasks |-> 0]]
    /\ done = [t \in Tasks |-> [o \in Occurrences |-> 0]] /\ rewound = done
    /\ missed = FALSE
-----------------------------------------------------------------------------
(* _claim_due and _dispatch.  An occurrence whose run did not complete is   *)
(* claimed again; the schedule advances once, when it is first claimed.     *)
(* Which of the claimable tasks comes first depends on their times.         *)
ExpiresEarly(t) == task[t].owner = Nobody \/ task[t].left <= 1  \* mutant
Expired(t) == task[t].owner = Nobody \/ task[t].left = 0
DueOnly(t) ==                           \* mutant: an unfinished occurrence is left
    task[t].pending = Null /\ task[t].next \in 1..due[t] /\ Expired(t)
Claimable(t) ==
    /\ task[t].status = "on" /\ Expired(t)
    /\ task[t].pending # Null \/ task[t].next \in 1..due[t]
Fresh(t) ==                             \* a token no run holds
    LET held == {x.token : x \in UNION {RunsOf(r) : r \in Replicas}}
    IN  CHOOSE n \in 1..Cardinality(held) + 1 : n \notin held
Claim(r, t) ==
    /\ replica[r].at = "up" /\ Cardinality(replica[r].running) < Slots
    /\ Claimable(t)
    /\ LET new == task[t].pending = Null
           occurrence == IF new THEN task[t].next ELSE task[t].pending
       IN  /\ task' = [task EXCEPT ![t] =
                 [task[t] EXCEPT !.owner = r, !.token = Fresh(t), !.left = LeaseLen,
                     !.pending = occurrence,
                     !.next = IF new THEN NextAfter(t, occurrence) ELSE task[t].next]]
           /\ replica' = [replica EXCEPT ![r] =
                 [replica[r] EXCEPT
                     !.running = replica[r].running \union {t},
                     !.runs = RunsOf(r) \union {[task |-> t, token |-> Fresh(t), beat |-> Renew,
                                                occurrence |-> occurrence, at |-> "waiting"]}]]
    /\ UNCHANGED <<due, manual, bounds, done, rewound, missed>>

(* _heartbeat: owner and token, whatever the expiry; once it finds the lease *)
(* lost it ends, and the run is not told.  A failure is only logged.        *)
Owns(r, x) == task[x.task].owner = r /\ task[x.task].token = x.token
Beats(x) == x.at # "leaving" /\ x.beat = 0
Beat(r, x) ==
    /\ Beats(x)
    /\ IF Owns(r, x)
       THEN /\ task' = [task EXCEPT ![x.task].left = LeaseLen]
            /\ Change(r, x, [x EXCEPT !.beat = Renew])
       ELSE /\ Change(r, x, [x EXCEPT !.beat = -1])
            /\ UNCHANGED task
    /\ UNCHANGED <<due, manual, bounds, done, rewound, missed>>
BeatFails(r, x) ==
    /\ Beats(x) /\ Fault(r) /\ missed' = TRUE
    /\ Change(r, x, [x EXCEPT !.beat = Renew])
    /\ UNCHANGED <<task, due, manual, done, rewound>>
-----------------------------------------------------------------------------
(* _load_task under a lease, and the run: run_task, run_target_task.  A run *)
(* that has waited for the semaphore starts if its lease still holds; a     *)
(* target's row is loaded once more before it is executed.                  *)
Leave(x) == [x EXCEPT !.at = "leaving", !.beat = -1]
NotTaken(r, x) == task[x.task].pending # Null           \* mutant: any lease will do
StillLeased(r, x) == Owns(r, x) /\ task[x.task].pending # Null /\ task[x.task].left > 0
Busy(r) == Cardinality({x \in RunsOf(r) : x.at \in {"started", "working"}})
Begin(r, x) ==
    /\ x.at = "waiting" /\ Busy(r) < Slots
    /\ Change(r, x, IF ~StillLeased(r, x) THEN Leave(x)
                    ELSE [x EXCEPT !.at = IF x.task \in AgentTasks THEN "working" ELSE "started"])
    /\ UNCHANGED <<task, due, manual, bounds, done, rewound, missed>>
Reload(r, x) ==
    /\ x.at = "started"
    /\ Change(r, x, IF StillLeased(r, x) THEN [x EXCEPT !.at = "working"] ELSE Leave(x))
    /\ UNCHANGED <<task, due, manual, bounds, done, rewound, missed>>

(* _complete_task_schedule, of a scheduled run.  Only the lease's holder    *)
(* completes; the schedule was advanced by the claim.                       *)
LimitReached(t, completed) == completed >= MaxRuns[t]
AdvancesAgain(t) ==                     \* mutant: the schedule is advanced from now
    LET completed == task[t].completed + 1
        next == IF LimitReached(t, completed) THEN Null ELSE NextRun(t)
    IN  [task[t] EXCEPT !.completed = completed, !.next = next, !.pending = Null,
                        !.owner = Nobody, !.token = Null, !.left = 0,
                        !.status = IF next = Null /\ @ = "on" THEN "ended" ELSE @]
Completed(t) ==
    LET completed == task[t].completed + 1
        next == IF LimitReached(t, completed) THEN Null ELSE task[t].next
    IN  [task[t] EXCEPT !.completed = completed, !.next = next, !.pending = Null,
                        !.owner = Nobody, !.token = Null, !.left = 0,
                        !.status = IF next = Null /\ @ = "on" THEN "ended" ELSE @]
Complete(r, x) ==
    /\ x.at = "working"
    /\ Change(r, x, Leave(x))
    /\ IF StillLeased(r, x)
       THEN /\ task' = [task EXCEPT ![x.task] = Completed(x.task)]
            /\ done' = [done EXCEPT ![x.task][x.occurrence] = @ + 1]
       ELSE UNCHANGED <<task, done>>
    /\ UNCHANGED <<due, manual, bounds, rewound, missed>>
Raise(r, x) ==                          \* the target or the database raises
    /\ x.at \in {"started", "working"} /\ Fault(r)
    /\ Change(r, x, Leave(x))
    /\ UNCHANGED <<task, due, manual, done, rewound, missed>>

(* The finally of _dispatch: _release_claim, which may fail, and _running_ids. *)
Unowned(rec) == [rec EXCEPT !.owner = Nobody, !.token = Null, !.left = 0]
Left(r, x) ==
    [replica EXCEPT ![r] = [replica[r] EXCEPT !.runs = RunsOf(r) \ {x},
                                              !.running = replica[r].running \ {x.task}]]
Release(r, x) ==
    /\ x.at = "leaving"
    /\ task' = IF Owns(r, x) THEN [task EXCEPT ![x.task] = Unowned(@)] ELSE task
    /\ replica' = Left(r, x)
    /\ UNCHANGED <<due, manual, bounds, done, rewound, missed>>
ReleaseFails(r, x) ==
    /\ x.at = "leaving" /\ Owns(r, x) /\ Fault(r)
    /\ replica' = Left(r, x)
    /\ UNCHANGED <<task, due, manual, done, rewound, missed>>
-----------------------------------------------------------------------------
(* stop: the runs are cancelled and release their claims; then whatever     *)
(* this worker still owns is released.                                      *)
Stop(r) ==
    /\ replica[r].at = "up" /\ Fault(r)
    /\ replica' =
          [replica EXCEPT ![r] = [replica[r] EXCEPT !.at = "stopping",
                                                    !.runs = {Leave(x) : x \in RunsOf(r)}]]
    /\ UNCHANGED <<task, due, manual, done, rewound, missed>>
ReleaseOwned(r) ==
    /\ replica[r].at = "stopping" /\ RunsOf(r) = {}
    /\ task' = [t \in Tasks |-> IF task[t].owner = r THEN Unowned(task[t]) ELSE task[t]]
    /\ replica' = [replica EXCEPT ![r] = [at |-> "down", running |-> {}, runs |-> {}]]
    /\ UNCHANGED <<due, manual, bounds, done, rewound, missed>>
Crash(r) ==                             \* the next process has another worker id
    /\ replica[r].at = "up" /\ Fault(r)
    /\ task' = [t \in Tasks |-> IF task[t].owner = r THEN [task[t] EXCEPT !.owner = Gone] ELSE task[t]]
    /\ replica' = [replica EXCEPT ![r] = [at |-> "down", running |-> {}, runs |-> {}]]
    /\ UNCHANGED <<due, manual, done, rewound, missed>>
Start(r) ==                             \* _backfill_next_runs
    /\ replica[r].at = "down"
    /\ replica' = [replica EXCEPT ![r].at = "up"]
    /\ task' = [t \in Tasks |->
                  IF task[t].status = "on" /\ task[t].pending = Null /\ task[t].next = Null
                  THEN Scheduled(task[t], NextRun(t)) ELSE task[t]]
    /\ UNCHANGED <<due, manual, bounds, done, rewound, missed>>
-----------------------------------------------------------------------------
(* The end of a manual run.  It loads the task with db.get, computes, and   *)
(* commits later; only the columns whose value it changed are written.  By  *)
(* then occurrences may have come, and been claimed: next_run_at goes back. *)
ManualRead(t) ==
    /\ manual[t].at = "none" /\ bounds.manuals[t] < MaxManual[t]
    /\ task[t].status # "purged"
    /\ bounds' = [bounds EXCEPT !.manuals[t] = @ + 1]
    /\ LET completed == task[t].completed + 1
       IN  manual' = [manual EXCEPT ![t] =
              [at |-> "writing", status |-> IF task[t].status = "on" THEN "on" ELSE "other",
               was |-> task[t].next, completed |-> completed,
               next |-> IF LimitReached(t, completed) THEN Null ELSE NextRun(t)]]
    /\ UNCHANGED <<task, due, replica, done, rewound, missed>>
PutBack(t, next) ==                     \* what was claimed, or given up, is due again
    {o \in 1..due[t] : /\ next # Null /\ next <= o
                       /\ task[t].next = Null \/ o < task[t].next}
ManualWrite(t) ==
    /\ manual[t].at = "writing"
    /\ LET m == manual[t]
       IN  task' = IF task[t].status = "purged" THEN task
                   ELSE [task EXCEPT ![t] =
                           [task[t] EXCEPT
                               !.completed = m.completed,
                               !.next = IF m.next = m.was THEN task[t].next ELSE m.next,
                               !.status = IF m.next = Null /\ m.status = "on" THEN "ended"
                                          ELSE task[t].status]]
    /\ rewound' = [rewound EXCEPT ![t] =
          [o \in Occurrences |-> IF o \in PutBack(t, task'[t].next) THEN @[o] + 1 ELSE @[o]]]
    /\ manual' = [manual EXCEPT ![t] = NoManual]
    /\ UNCHANGED <<due, replica, bounds, done, missed>>

(* The endpoints of a task that exists: upsert, toggle, delete, restore and *)
(* purge.  An unfinished occurrence and its lease are left as they are.     *)
Upserted(t) ==
    {IF s = "on" THEN Scheduled(task[t], NextRun(t)) ELSE [task[t] EXCEPT !.status = s] :
        s \in IF task[t].deleted THEN {} ELSE {"on", "off"}}
Toggled(t) ==
    IF task[t].deleted THEN {}
    ELSE IF task[t].status = "on" THEN {[task[t] EXCEPT !.status = "off", !.next = Null]}
    ELSE {Scheduled(task[t], NextRun(t))}
Deleted(t) == {[task[t] EXCEPT !.status = "deleted", !.next = Null, !.deleted = TRUE]}
Restored(t) == {[task[t] EXCEPT !.status = "off", !.next = Null, !.deleted = FALSE]}
Purged(t) ==
    {[status |-> "purged", deleted |-> TRUE, next |-> Null, pending |-> Null,
      owner |-> Nobody, token |-> Null, left |-> 0, completed |-> 0]}
Edit(t) ==
    /\ task[t].status # "purged" /\ bounds.edits[t] < MaxEdits[t]
    /\ bounds' = [bounds EXCEPT !.edits[t] = @ + 1]
    /\ \E rec \in UNION {Upserted(t), Toggled(t), Deleted(t), Restored(t), Purged(t)} :
          task' = [task EXCEPT ![t] = rec]
    /\ UNCHANGED <<due, replica, manual, done, rewound, missed>>
-----------------------------------------------------------------------------
(* An occurrence comes. *)
Arrive(t) ==
    /\ due[t] < Last[t]
    /\ due' = [due EXCEPT ![t] = @ + 1]
    /\ UNCHANGED <<task, replica, manual, bounds, done, rewound, missed>>

(* A heartbeat that is due comes before time moves on. *)
Less(n) == IF n > 0 THEN n - 1 ELSE n
SchedTick ==
    /\ \A r \in Replicas : \A x \in RunsOf(r) : x.beat # 0
    /\ task' = [t \in Tasks |-> [task[t] EXCEPT !.left = Less(task[t].left)]]
    /\ replica' = [r \in Replicas |->
                     [replica[r] EXCEPT !.runs = {[x EXCEPT !.beat = Less(x.beat)] : x \in @}]]
    /\ task' # task \/ replica' # replica
    /\ UNCHANGED <<due, manual, bounds, done, rewound, missed>>

Proceeds(r, x) == Begin(r, x) \/ Reload(r, x) \/ Complete(r, x) \/ Release(r, x)
SchedNext ==
    \/ SchedTick
    \/ \E t \in Tasks : Arrive(t) \/ ManualRead(t) \/ ManualWrite(t) \/ Edit(t)
    \/ \E r \in Replicas :
          \/ \E t \in Tasks : Claim(r, t)
          \/ \E x \in RunsOf(r) : \/ Beat(r, x) \/ BeatFails(r, x) \/ Proceeds(r, x)
                                  \/ Raise(r, x) \/ ReleaseFails(r, x)
          \/ Stop(r) \/ ReleaseOwned(r) \/ Crash(r) \/ Start(r)

(* Time passes, the loops look for due tasks every 30 seconds, heartbeats   *)
(* are sent, transactions end, replicas are restarted; runs come to an end. *)
SchedFairness ==
    /\ WF_svars(SchedTick)
    /\ WF_svars(\E t \in Tasks : ManualWrite(t))
    /\ \A r \in Replicas :
          /\ WF_svars(\E t \in Tasks : Claim(r, t))
          /\ WF_svars(\E x \in RunsOf(r) : Beat(r, x))
          /\ WF_svars(\E x \in RunsOf(r) : Proceeds(r, x))
          /\ WF_svars(ReleaseOwned(r) \/ Start(r))
SchedSpec == SchedInit /\ [][SchedNext]_svars
SchedFairSpec == SchedSpec /\ SchedFairness
-----------------------------------------------------------------------------
(* However leases are lost and taken over, an occurrence is completed at    *)
(* most once ("The stale runner must not publish completion or mutate       *)
(* schedule history under the new lease", runner.py:250), and once more     *)
(* only for each time that the end of a manual run, computed from what it   *)
(* had read before, put the occurrence back into the schedule.              *)
CompletedOnce == \A t \in Tasks, o \in Occurrences : done[t][o] <= 1 + rewound[t][o]

(* While heartbeats get through, no two runs the scheduler started are at   *)
(* work on one task, over all replicas: not after a stop, an edit or a      *)
(* manual run either.                                                       *)
AtWork(t) ==
    UNION {{r} \X {x \in RunsOf(r) : x.task = t /\ x.at \in {"started", "working"}} : r \in Replicas}
OneRunAtATime == ~missed => \A t \in Tasks : Cardinality(AtWork(t)) <= 1

(* What the schedule owes: an unfinished occurrence, and those not claimed. *)
(* "Do not advance it again after a long run, or one occurrence would be    *)
(* silently skipped" (runner.py:64): an occurrence ceases to be owed only   *)
(* by being completed, by the run limit, or by an edit or a manual run.     *)
Owed(t) ==
    {o \in 1..due[t] : task[t].status = "on"
                       /\ (o = task[t].pending \/ (task[t].next # Null /\ o >= task[t].next))}
NothingSkipped ==
    [][\A t \in Tasks : \A o \in Owed(t) \ Owed(t)' :
          \/ done'[t][o] = done[t][o] + 1
          \/ LimitReached(t, task'[t].completed)
          \/ manual'[t] # manual[t] \/ bounds'.edits[t] # bounds.edits[t]]_svars

(* "an unfinished occurrence can be reclaimed after its lease expires"      *)
(* (scheduled-tasks.md:78): through crashes, stops, lost leases and runs    *)
(* that raise, no occurrence stays owed for ever: again and again it is not *)
(* (which is: owed ~> not owed).                                            *)
OccurrencesSettle == \A t \in Tasks : \A o \in 1..Last[t] : []<>(o \notin Owed(t))
=============================================================================
