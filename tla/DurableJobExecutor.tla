--------------------------- MODULE DurableJobExecutor ---------------------------
(***************************************************************************)
(* DurableJobExecutor (core/durable_jobs.py): the runner tasks of one job  *)
(* scope in every replica, the lease monitor beside each, cancellation     *)
(* from here and from elsewhere, graceful stop, crash and restart, and the *)
(* janitor.  The database is DurableJobStore: each step that touches it is *)
(* one of its transactions, or finds that the transaction does nothing.    *)
(*                                                                         *)
(* A run is named by the fencing token its claim returned.  A replica's    *)
(* event loop is prompt: a timer that is due fires and a cancellation is   *)
(* delivered before time moves on.  (A runner that is paused for longer is *)
(* covered by DurableJobStore, where any token may be used at any time.)   *)
(***************************************************************************)
EXTENDS DurableJobStore

CONSTANTS
    Procs,          \* replicas of the application
    Control,        \* control_interval: how long the monitor sleeps
    Renew,          \* renewal_interval: every lease_seconds / 3
    OpTimeout,      \* operation_timeout of one monitor call
    ClaimWait,      \* how late a claim's answer can be (a bound of the model: no timeout)
    Failures,       \* may database calls fail or time out, and claims be answered late?
    Crashes,        \* may a replica disappear?
    Cancellers      \* replicas whose users ask for cancellation

ASSUME ExecutorAssumption ==
    /\ Control \in Nat \ {0} /\ Renew \in Nat \ {0}
    /\ OpTimeout \in Nat /\ ClaimWait \in Nat
    /\ Failures \in BOOLEAN /\ Crashes \in BOOLEAN /\ Cancellers \subseteq Procs /\ Procs # {}
    /\ Renew + OpTimeout + 2 * MaxSkew <= LeaseLen     \* 60 s / 3, 5 s

VARIABLES
    run,        \* the run of each fencing token
    tasks,      \* DurableJobExecutor.tasks: the token of the run it holds, or None
    calling,    \* DurableJobExecutor.cancel: request committed, task not yet looked up
    up          \* the life of the replica

local == <<run, tasks, calling, up>>
exvars == <<clock, slot, job, events, claims, lastToken, run, tasks, calling, up>>
-----------------------------------------------------------------------------
Runs == 1..MaxToken

(* granted: claim has committed, its caller waits for the answer;           *)
(* created: the task exists and has not run; working: in the feature's      *)
(* code; finishing, failing: in the finalize of the normal and the          *)
(* exception path; checking, closing: in the shielded lease_state and       *)
(* finalize of the cancellation path; detached: the task is over, that      *)
(* shielded finalize is not.                                                *)
Phases == {"none", "granted", "created", "working", "finishing", "failing",
           "checking", "closing", "detached", "gone"}
InTask == {"created", "working", "finishing", "failing", "checking", "closing"}

RunRec == [phase : Phases, proc : Procs, job : Jobs \union {NoJob},
           status : TERMINAL_STATUSES,   \* what finalize will write
           cancelled : BOOLEAN,          \* task.cancel() was called, not yet delivered
           mon : {"off", "sleep", "asked"}, due : Nat, renew : Nat,
           confirmed : Nat,              \* confirmed_until
           reply : {"owned", "renewed", "cancel", "lost", "fail"},
           until : Nat,                  \* not in the code: the lease this run last wrote,
           began : Nat,                  \* when its task was created,
           displaced : Runs \union {None}]   \* and the run whose place in tasks it took

ExTypeOK ==
    /\ run \in [Runs -> RunRec]
    /\ tasks \in [Procs -> Runs \union {None}]
    /\ calling \in [Procs -> BOOLEAN]
    /\ up \in [Procs -> {"up", "stopping", "stopped", "down"}]

NoRun == [phase |-> "none", proc |-> CHOOSE p \in Procs : TRUE, job |-> NoJob,
          status |-> "error", cancelled |-> FALSE, mon |-> "off", due |-> 0, renew |-> 0,
          confirmed |-> 0, reply |-> "owned", until |-> 0, began |-> 0, displaced |-> None]

Caller(k) == [job |-> run[k].job, token |-> k]
InPhase(k, phases) == run[k].phase \in phases
Becomes(k, rec) == run' = [run EXCEPT ![k] = rec]
Moves(k, phase) == Becomes(k, [run[k] EXCEPT !.phase = phase, !.cancelled = FALSE])

(* lease_state: (owned, cancel_requested), the expiry is not looked at. *)
Owned(k) == run[k].job # NoJob /\ Fenced(Caller(k))
CancelRequested(k) == job[run[k].job].cancel

(* A monitor that is over has no timers. *)
Unwatched(rec) == [rec EXCEPT !.mon = "off", !.due = 0, !.renew = 0, !.confirmed = 0, !.reply = "owned"]

(* The task ends: _run's finally and _forget stop the monitor and drop the  *)
(* map's entry, unless a newer run has replaced it there.                   *)
ForgetsAny(k) ==                                \* mutant: without the "is completed" test
    tasks' = [tasks EXCEPT ![run[k].proc] = None]
LeavesZero(k) == tasks' = [tasks EXCEPT ![run[k].proc] = IF @ = k THEN 0 ELSE @]   \* mutant
Forgets(k) == tasks' = [tasks EXCEPT ![run[k].proc] = IF @ = k THEN None ELSE @]
Over(k, phase) ==
    /\ Becomes(k, Unwatched([run[k] EXCEPT !.phase = phase, !.cancelled = FALSE, !.until = 0, !.began = 0]))
    /\ Forgets(k)
-----------------------------------------------------------------------------
ExInit ==
    /\ Init
    /\ run = [k \in Runs |-> NoRun]
    /\ tasks = [p \in Procs |-> None]
    /\ calling = [p \in Procs |-> FALSE]
    /\ up = [p \in Procs |-> "up"]

(* start: the claim commits.  An attached caller starts nothing.  start     *)
(* awaits the answer without a timeout.                                     *)
AnswerTime == clock + (IF Failures THEN ClaimWait ELSE OpTimeout)
Claim(p) ==
    /\ up[p] = "up"
    /\ \E now \in Now :
          /\ ClaimRecover(now) \/ \E j \in Jobs : ClaimNew(j, now)
          /\ Becomes(lastToken', [NoRun EXCEPT !.phase = "granted", !.proc = p, !.job = slot'.job,
                                               !.due = AnswerTime, !.until = now + LeaseLen])
    /\ UNCHANGED <<tasks, calling, up>>

(* start goes on, whatever has become of its claim: the task and its        *)
(* monitor are created, and the task takes the scope's place in the map     *)
(* from whatever is there.  Or its caller is cancelled while it awaits the  *)
(* claim, and nothing runs.                                                 *)
Launch(k) ==
    /\ InPhase(k, {"granted"})
    /\ Becomes(k, [run[k] EXCEPT !.phase = "created", !.mon = "sleep", !.due = clock + Control,
                                 !.renew = clock + Renew, !.confirmed = clock + LeaseLen,
                                 !.began = clock, !.displaced = tasks[run[k].proc]])
    /\ tasks' = [tasks EXCEPT ![run[k].proc] = k]
    /\ UNCHANGED <<vars, calling, up>>
StartLost(k) ==
    /\ Failures \/ Crashes
    /\ InPhase(k, {"granted"})
    /\ Over(k, "gone")
    /\ UNCHANGED <<vars, calling, up>>

Enter(k) ==
    /\ InPhase(k, {"created"}) /\ ~run[k].cancelled
    /\ Moves(k, "working")
    /\ UNCHANGED <<vars, tasks, calling, up>>

(* context.emit and context.checkpoint; both raise CancelledError inside    *)
(* the feature's code when the fence is lost.                               *)
Emit(k) ==
    /\ InPhase(k, {"working"}) /\ ~run[k].cancelled
    /\ IF Owned(k) THEN AppendEvents(Caller(k), 1) /\ UNCHANGED run
                   ELSE Moves(k, "checking") /\ UNCHANGED vars
    /\ UNCHANGED <<tasks, calling, up>>
Checkpoint(k) ==
    /\ InPhase(k, {"working"}) /\ ~run[k].cancelled
    /\ ~Owned(k) \/ CancelRequested(k)
    /\ Moves(k, "checking")
    /\ UNCHANGED <<vars, tasks, calling, up>>

(* The feature's code returns an outcome, or raises. *)
Return(k) ==
    /\ InPhase(k, {"working"}) /\ ~run[k].cancelled
    /\ \/ Becomes(k, [run[k] EXCEPT !.phase = "finishing", !.status = "done"])
       \/ Becomes(k, [run[k] EXCEPT !.phase = "failing", !.status = "error"])
    /\ UNCHANGED <<vars, tasks, calling, up>>

(* finalize's transaction, or the discovery that it matches no row. *)
WritesOutcome(k) ==
    \/ \E now \in Now : Finalize(Caller(k), run[k].status, now)
    \/ ~(Owned(k) /\ HoldsSlot(Caller(k))) /\ UNCHANGED vars

FinalizeCall(k) ==
    /\ InPhase(k, {"finishing", "failing", "closing", "detached"}) /\ ~run[k].cancelled
    /\ WritesOutcome(k)
    /\ Over(k, "gone")
    /\ UNCHANGED <<calling, up>>

(* The handler of CancelledError, after lease_state. *)
Check(k) ==
    /\ InPhase(k, {"checking"}) /\ ~run[k].cancelled
    /\ IF Owned(k)
       THEN /\ Becomes(k, [run[k] EXCEPT !.phase = "closing",
                              !.status = IF CancelRequested(k) THEN "cancelled" ELSE "error"])
            /\ UNCHANGED tasks
       ELSE Over(k, "gone")
    /\ UNCHANGED <<vars, calling, up>>

(* The database call raises (finalize after its five attempts). *)
CallFails(k) ==
    /\ Failures /\ ~run[k].cancelled
    /\ \/ /\ InPhase(k, {"finishing"})
          /\ Becomes(k, [run[k] EXCEPT !.phase = "failing", !.status = "error"])
          /\ UNCHANGED tasks
       \/ InPhase(k, {"failing", "checking", "closing", "detached"}) /\ Over(k, "gone")
    /\ UNCHANGED <<vars, calling, up>>
-----------------------------------------------------------------------------
(* CancelledError reaches the task where it waits: before its first step it *)
(* never runs; in an unshielded finalize the transaction may or may not     *)
(* have committed; a second one inside the handler ends the handler, and    *)
(* only a shielded finalize goes on.                                        *)
Deliver(k) ==
    /\ run[k].cancelled
    /\ \/ InPhase(k, {"working"}) /\ Moves(k, "checking") /\ UNCHANGED <<vars, tasks>>
       \/ /\ InPhase(k, {"finishing"})
          /\ Moves(k, "checking") /\ UNCHANGED tasks
          /\ WritesOutcome(k) \/ UNCHANGED vars
       \/ /\ InPhase(k, {"failing"})
          /\ Over(k, "gone")
          /\ WritesOutcome(k) \/ UNCHANGED vars
       \/ InPhase(k, {"created", "checking"}) /\ Over(k, "gone") /\ UNCHANGED vars
       \/ InPhase(k, {"closing"}) /\ Over(k, "detached") /\ UNCHANGED vars
    /\ UNCHANGED <<calling, up>>

Cancels(k) == Becomes(k, [run[k] EXCEPT !.cancelled = InPhase(k, InTask)])

(* DurableJobExecutor.cancel: request_cancel commits; then the local task,  *)
(* if this replica has one, is cancelled.                                   *)
Request(p) ==
    /\ p \in Cancellers /\ up[p] = "up" /\ ~calling[p]
    /\ RequestCancel
    /\ calling' = [calling EXCEPT ![p] = TRUE]
    /\ UNCHANGED <<run, tasks, up>>
CancelLocal(p) ==
    /\ calling[p]
    /\ calling' = [calling EXCEPT ![p] = FALSE]
    /\ IF tasks[p] # None THEN Cancels(tasks[p]) ELSE UNCHANGED run
    /\ UNCHANGED <<vars, tasks, up>>
-----------------------------------------------------------------------------
(* monitor_lease: sleep, then heartbeat if a renewal is due, else           *)
(* lease_state.  The call may fail, or take effect and its answer be late   *)
(* or lost.                                                                 *)
ReadsOnly(k) == FALSE                           \* mutant: the lease is never renewed
Renewing(k) == clock >= run[k].renew
TimeIsUp == clock + 1 + LeaseLen > MaxTime      \* see ExTick
ReplyOwned(k, owned) == IF Owned(k) THEN owned ELSE "lost"     \* mutant: cancel is not read
Reply(k, owned) ==
    IF ~Owned(k) THEN "lost" ELSE IF CancelRequested(k) THEN "cancel" ELSE owned
Ask(k) ==
    /\ run[k].mon = "sleep" /\ (run[k].due <= clock \/ TimeIsUp)
    /\ LET asked(reply) == [run[k] EXCEPT !.mon = "asked", !.due = clock + OpTimeout, !.reply = reply]
       IN  \/ /\ ~(Renewing(k) /\ Owned(k))
              /\ Becomes(k, asked(Reply(k, "owned")))
              /\ UNCHANGED vars
           \/ /\ Renewing(k)
              /\ \E now \in Now, reply \in {Reply(k, "renewed")} \union (IF Failures THEN {"fail"} ELSE {}) :
                    /\ Heartbeat(Caller(k), now)
                    /\ Becomes(k, [asked(reply) EXCEPT !.until = now + LeaseLen])
           \/ /\ Failures
              /\ Becomes(k, asked("fail"))
              /\ UNCHANGED vars
    /\ UNCHANGED <<tasks, calling, up>>

(* The answer.  A lost lease or a cancel request ends the monitor and       *)
(* cancels the task; a failure does once the confirmed lease is over.  The  *)
(* loop's own condition ends the monitor, and cancels nothing, when the     *)
(* task map holds another run by now.                                       *)
Tolerant(k) == FALSE                            \* mutant: failures are tolerated for ever
GivesUp(k) == clock >= run[k].confirmed
Answer(k) ==
    /\ run[k].mon = "asked"
    /\ LET r == run[k].reply
           told == (r \in {"lost", "cancel"}) \/ (r = "fail" /\ GivesUp(k))
           slept == [run[k] EXCEPT !.mon = "sleep", !.due = clock + Control, !.reply = "owned"]
       IN  Becomes(k, IF told THEN Unwatched([run[k] EXCEPT !.cancelled = TRUE])
                      ELSE IF tasks[run[k].proc] # k THEN Unwatched(run[k])
                      ELSE IF r # "renewed" THEN slept
                      ELSE [slept EXCEPT !.renew = clock + Renew, !.confirmed = clock + LeaseLen])
    /\ UNCHANGED <<vars, tasks, calling, up>>
-----------------------------------------------------------------------------
(* stop: every task of the map is cancelled and awaited.  It runs after the *)
(* server has drained its requests, so no start or cancel call is open.     *)
Stop(p) ==
    /\ up[p] = "up" /\ ~calling[p]
    /\ \A k \in Runs : run[k].proc = p => ~InPhase(k, {"granted", "created"})
    /\ up' = [up EXCEPT ![p] = "stopping"]
    /\ IF tasks[p] # None THEN Cancels(tasks[p]) ELSE UNCHANGED run
    /\ UNCHANGED <<vars, tasks, calling>>

(* The tasks awaited are over, or (Failures) the graceful window is; the    *)
(* process exits and takes with it whatever still runs.                     *)
Dies(p, state) ==
    /\ up' = [up EXCEPT ![p] = state]
    /\ run' = [k \in Runs |-> IF run[k].proc = p /\ run[k].phase # "none"
                              THEN Unwatched([run[k] EXCEPT !.phase = "gone", !.cancelled = FALSE,
                                                        !.until = 0, !.began = 0])
                              ELSE run[k]]
    /\ tasks' = [tasks EXCEPT ![p] = None]
    /\ calling' = [calling EXCEPT ![p] = FALSE]
    /\ UNCHANGED vars
Stopped(p) ==
    /\ up[p] = "stopping"
    /\ Failures \/ tasks[p] = None
    /\ Dies(p, "stopped")
Crash(p) ==
    /\ Crashes /\ up[p] \in {"up", "stopping"}
    /\ Dies(p, "down")
Restart(p) ==
    /\ up[p] \in {"stopped", "down"}
    /\ up' = [up EXCEPT ![p] = "up"]
    /\ UNCHANGED <<vars, run, tasks, calling>>

CleansOnly ==                                   \* mutant: without interrupt_all_expired
    /\ \E p \in Procs : up[p] = "up"
    /\ \E now \in Now : Expired(now) # {} /\ Cleanup(Expired(now), now)
    /\ UNCHANGED local
(* DurableJobJanitor, in every replica: interrupt_all_expired, cleanup.     *)
Janitor ==
    /\ \E p \in Procs : up[p] = "up"
    /\ \E now \in Now : InterruptExpired(now) \/ (Expired(now) # {} /\ Cleanup(Expired(now), now))
    /\ UNCHANGED local

(* Time moves when nothing prompt is left to do; and, a bound of the model, *)
(* only as far as an owner could still renew.                               *)
Prompt(k) ==
    /\ ~run[k].cancelled /\ ~InPhase(k, {"created"})
    /\ run[k].mon # "off" \/ InPhase(k, {"granted"}) => run[k].due > clock
    /\ (run[k].mon # "off" /\ Owned(k)) => ~TimeIsUp
ExTick ==
    /\ Tick
    /\ \A k \in Runs : Prompt(k)
    /\ UNCHANGED local

RunStep(k) ==
    \/ Launch(k) \/ StartLost(k) \/ Enter(k) \/ Emit(k) \/ Checkpoint(k) \/ Return(k)
    \/ FinalizeCall(k) \/ Check(k) \/ CallFails(k) \/ Deliver(k)
MonitorStep(k) == Ask(k) \/ Answer(k)

ExNext ==
    \/ ExTick
    \/ Janitor
    \/ \E p \in Procs :
          \/ Claim(p) \/ Request(p) \/ CancelLocal(p)
          \/ Stop(p) \/ Stopped(p) \/ Crash(p) \/ Restart(p)
    \/ \E k \in Runs : RunStep(k) \/ MonitorStep(k)

(* The event loops run what is ready, the platform restarts replicas, time  *)
(* passes.  The janitor makes a pass as soon as a replica is up and every   *)
(* minute after (strong: replicas may keep crashing in between).  Nothing   *)
(* makes a feature's code return or emit.                                   *)
ExFairness ==
    /\ WF_exvars(ExTick) /\ SF_exvars(Janitor)
    /\ \A p \in Procs : WF_exvars(Restart(p)) /\ WF_exvars(Stopped(p))
    /\ \A k \in Runs :
          /\ WF_exvars(Launch(k)) /\ WF_exvars(Enter(k)) /\ WF_exvars(Deliver(k))
          /\ WF_exvars(Check(k) \/ FinalizeCall(k)) /\ WF_exvars(Ask(k)) /\ WF_exvars(Answer(k))
ExSpec == ExInit /\ [][ExNext]_exvars
ExFairSpec == ExSpec /\ ExFairness
-----------------------------------------------------------------------------
Superseded(k) == InPhase(k, {"working"}) /\ ~Owned(k)

(* A runner that has lost its job leaves the feature's code soon after the  *)
(* lease it last wrote has run out, even if it never emits and every call   *)
(* of its monitor fails: the answer that confirms a lease can be late by    *)
(* one timeout (and the lease early, as the clock of the replica that wrote *)
(* it sees it), and one more sleep and call may begin before the window     *)
(* closes.  A run whose claim was answered late has a whole window from its *)
(* beginning: confirmed_until starts there, not where the claim's lease did.*)
(* Runs that another one of the same replica has replaced are left out:     *)
(* should_stop then ends their monitor without cancelling them, although    *)
(* monitor_lease means to prevent "an unfenced runner" (durable_jobs.py:567)*)
Slack == Control + OpTimeout
Later(s, t) == IF s < t THEN t ELSE s
Window(rec) == Later(rec.until + OpTimeout + MaxSkew, rec.began + LeaseLen)
OverlapBounded ==
    \A k \in Runs :
        Superseded(k) /\ tasks[run[k].proc] = k => clock < Window(run[k]) + Slack

(* Without failures a monitored runner never loses its job to a recovery or *)
(* the janitor, however long it works: the monitor renews in time.          *)
HealthyKeepsLease ==
    ~Failures => \A k \in Runs :
        InPhase(k, {"working"}) /\ tasks[run[k].proc] = k => Owned(k)

(* The task of the run that owns the job stays in its replica's map, so     *)
(* cancel and stop reach it: the end of an older run of the same scope,     *)
(* whose done callback comes late, never unregisters its replacement.  Only *)
(* an older claim of the replica that was answered after the owner had      *)
(* begun takes its place there (start writes the map unconditionally).      *)
Overtaken(k) == \E o \in Runs : o < k /\ run[o].displaced = k
LatestRegistered ==
    \A k \in Runs : InPhase(k, InTask) /\ Owned(k) => tasks[run[k].proc] = k \/ Overtaken(k)

(* Whatever happens to its runner (crash, lost answer, cancelled twice), a  *)
(* job does not stay with a run that is over: it is interrupted or          *)
(* recovered after its lease.  (A run that is gone never comes back, so     *)
(* gone and owned ~> not owned is []<>~(gone and owned).)                   *)
OrphansEnd == \A k \in Runs : []<>~(InPhase(k, {"gone"}) /\ Owned(k))

(* A cancel request committed by any replica ends the run, although the     *)
(* feature's code itself never looks.  (Nothing withdraws the request while *)
(* the job is owned: owned and requested ~> not owned is the same.)         *)
CancelReachesOwner == \A k \in Runs : []<>~(Owned(k) /\ CancelRequested(k))
=============================================================================
