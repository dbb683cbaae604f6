------------------------------ MODULE WorkBatches ------------------------------
(***************************************************************************)
(* core/work_batches.py: batches of work items in two tables, and the      *)
(* workers that claim items under a lease, run the feature's executor      *)
(* beside a heartbeat, and write the result or put the item back.          *)
(*                                                                         *)
(* Each action is one transaction, but for two.  _finish_item and          *)
(* _fail_or_retry lock the item and read the batch's cancel flag           *)
(* (FinishRead) before refresh_batch locks the batch and they commit       *)
(* (FinishWrite): on PostgreSQL a cancel_batch may commit in between.      *)
(* _complete_external_item selects the item it still holds without a lock  *)
(* (ReadExternal) and then updates it by primary key (WriteExternal):      *)
(* anything may.  Times are what is left of them, so the model runs for    *)
(* ever; a worker here has one of the four loops of WorkBatchWorker.       *)
(***************************************************************************)
EXTENDS Integers, FiniteSets

CONSTANTS
    Items,              \* 1..n, in the order of created_at, name and key
    Batches,            \* 1..m, in the order they are created
    Workers,
    BatchOf, LaneOf,    \* of an item: its batch, its (tenant, connection)
    FeaturesOf,         \* of a batch: the features it may be submitted for
    FeatureLimit,       \* _FEATURE_LIMITS
    Coordinated,        \* the feature whose executor runs all items at once (inventory_cost)
    Results,            \* the outcomes executors have in this instance
    MaxAttempts, LeaseLen, Renew, Backoff,
    Scan,               \* how many candidates a claim looks at (100)
    MaxFaults           \* a bound: stops, crashes, failed database calls

None == <<0, 0>>        \* no lease token
Nobody == "nobody"

(* A batch has at least one item.  All items of a coordinated batch have the *)
(* connection of its config, so they are in one lane.                       *)
ASSUME BatchAssumption ==
    /\ Items \subseteq Nat \ {0} /\ IsFiniteSet(Items) /\ Batches \subseteq Nat \ {0}
    /\ Nobody \notin Workers
    /\ BatchOf \in [Items -> Batches] /\ \A i, k \in Items : i < k => BatchOf[i] <= BatchOf[k]
    /\ \A b \in Batches : \E i \in Items : BatchOf[i] = b
    /\ FeaturesOf \in [Batches -> SUBSET DOMAIN FeatureLimit]
    /\ FeatureLimit \in [DOMAIN FeatureLimit -> Nat]
    /\ \A i, k \in Items :
          BatchOf[i] = BatchOf[k] /\ Coordinated \in FeaturesOf[BatchOf[i]] => LaneOf[i] = LaneOf[k]
    /\ Results \subseteq {"succeeded", "partial", "failed"}
    /\ MaxAttempts \in Nat \ {0} /\ Scan \in Nat \ {0} /\ MaxFaults \in Nat /\ Backoff \in Nat
    /\ LeaseLen \in Nat /\ Renew \in Nat \ {0} /\ Renew < LeaseLen

VARIABLES
    batch,      \* work_batches
    item,       \* work_batch_items
    worker,     \* what each worker's loop does
    faults,     \* how many there were
    missed,     \* a heartbeat has failed
    overwritten \* a completion has ended an item under another worker's lease

bvars == <<batch, item, worker, faults, missed, overwritten>>
-----------------------------------------------------------------------------
TERMINAL == {"succeeded", "partial", "failed", "cancelled"}
ACTIVE == {"queued", "running"}
Tokens == (Items \X Nat) \union {None}

(* left: until lease_expires_at; wait: until available_at.                  *)
ItemRec == [status : {"none"} \union ACTIVE \union TERMINAL, attempt : Nat,
            token : Tokens, owner : Workers \union {Nobody}, left : 0..LeaseLen, wait : 0..Backoff]

(* beat: until the heartbeat's next turn, -1 when it has ended.  runs: one  *)
(* item; or, coordinating, not yet or already its siblings too.  closing:   *)
(* the items whose completion it has begun.                                 *)
WorkerRec == [at : {"idle", "working", "writing", "stopping", "down"}, item : Items \union {0},
              token : Tokens, beat : -1..Renew, runs : {"item", "leader", "batch"},
              closing : SUBSET Items, cancelSeen : BOOLEAN]

BatchTypeOK ==
    /\ batch \in [Batches -> [status : {"none", "deleted"} \union ACTIVE \union TERMINAL,
                              feature : DOMAIN FeatureLimit \union {"none"}, cancel : BOOLEAN]]
    /\ item \in [Items -> ItemRec]
    /\ worker \in [Workers -> WorkerRec]
    /\ faults \in 0..MaxFaults /\ {missed, overwritten} \subseteq BOOLEAN

NoItem == [status |-> "none", attempt |-> 0, token |-> None, owner |-> Nobody, left |-> 0, wait |-> 0]
Resting == [at |-> "idle", item |-> 0, token |-> None, beat |-> -1, runs |-> "item",
            closing |-> {}, cancelSeen |-> FALSE]

ItemsOf(b) == {i \in Items : BatchOf[i] = b}
Running(i) == item[i].status = "running"
Holds(i, token) == Running(i) /\ item[i].token = token
Locked(i) == \E w \in Workers : worker[w].at = "writing" /\ worker[w].item = i

Unleased(rec) == [rec EXCEPT !.token = None, !.owner = Nobody, !.left = 0, !.wait = 0]
(* _apply_result; a terminal item's attempt is not looked at again. *)
Ended(rec, status) == [Unleased(rec) EXCEPT !.status = status, !.attempt = 0]

(* refresh_batch: the status of batch b for these item rows. *)
Aggregate(b, rows) ==
    LET statuses == {rows[i].status : i \in ItemsOf(b)}
    IN  IF statuses \subseteq TERMINAL
        THEN IF statuses \in {{"cancelled"}, {"failed"}, {"succeeded"}}
             THEN CHOOSE s \in statuses : TRUE ELSE "partial"
        ELSE IF "running" \in statuses THEN "running" ELSE "queued"
RefreshStale(touched) ==                        \* mutant: the session is not flushed first
    batch' = [b \in Batches |-> IF b \in touched THEN [batch[b] EXCEPT !.status = Aggregate(b, item)]
                                ELSE batch[b]]
Refresh(touched) ==
    batch' = [b \in Batches |-> IF b \in touched THEN [batch[b] EXCEPT !.status = Aggregate(b, item')]
                                ELSE batch[b]]
-----------------------------------------------------------------------------
BatchInit ==
    /\ batch = [b \in Batches |-> [status |-> "none", feature |-> "none", cancel |-> FALSE]]
    /\ item = [i \in Items |-> NoItem]
    /\ worker = [w \in Workers |-> Resting]
    /\ faults = 0 /\ missed = FALSE /\ overwritten = FALSE

(* create_batch, with a new idempotency key; retry_batch is one. *)
Create(b) ==
    /\ batch[b].status = "none" /\ \A c \in Batches : c < b => batch[c].status # "none"
    /\ \E f \in FeaturesOf[b] :
          batch' = [batch EXCEPT ![b] = [status |-> "queued", feature |-> f, cancel |-> FALSE]]
    /\ item' = [i \in Items |-> IF BatchOf[i] = b THEN [NoItem EXCEPT !.status = "queued"] ELSE item[i]]
    /\ UNCHANGED <<worker, faults, missed, overwritten>>

CancelLeft(b) == {i \in ItemsOf(b) : item[i].status = "queued"}
Cancel(b) ==
    /\ batch[b].status \in ACTIVE
    /\ item' = [i \in Items |-> IF i \in CancelLeft(b) THEN Ended(item[i], "cancelled") ELSE item[i]]
    /\ batch' = [batch EXCEPT ![b] = [@ EXCEPT !.status = Aggregate(b, item'), !.cancel = TRUE]]
    /\ UNCHANGED <<worker, faults, missed, overwritten>>

Delete(b) ==
    /\ batch[b].status \in TERMINAL
    /\ batch' = [batch EXCEPT ![b] = [status |-> "deleted", feature |-> "none", cancel |-> FALSE]]
    /\ item' = [i \in Items |-> IF BatchOf[i] = b THEN NoItem ELSE item[i]]
    /\ UNCHANGED <<worker, faults, missed, overwritten>>
-----------------------------------------------------------------------------
(* _claim_next.  The candidates, oldest first (rows another transaction has *)
(* locked are skipped); of the first Scan, the first whose lane has no live *)
(* item and whose feature is below its limit.                               *)
ExpiresEarly(i) == item[i].token = None \/ item[i].left <= 1    \* mutant
Expired(i) == item[i].token = None \/ item[i].left = 0
QueuedOnly(i) ==                                \* mutant: a crashed worker's item is left
    item[i].status = "queued" /\ item[i].wait = 0 /\ Expired(i)
Claimable(i) ==
    \/ item[i].status = "queued" /\ item[i].wait = 0 /\ Expired(i)
    \/ Running(i) /\ Expired(i)
Candidates ==
    {i \in Items : /\ Claimable(i) /\ ~Locked(i)
                   /\ batch[BatchOf[i]].status \in ACTIVE /\ ~batch[BatchOf[i]].cancel}
FirstOnly == {i \in Candidates : \A k \in Candidates : i <= k}    \* mutant: one candidate
Scanned == {i \in Candidates : Cardinality({k \in Candidates : k < i}) < Scan}

Live(i) == Running(i) /\ item[i].left > 0
AnyLane(i) == TRUE                              \* mutant: lanes are not looked at
LaneFree(i) == \A k \in Items : Live(k) => LaneOf[k] # LaneOf[i]
Feature(i) == batch[BatchOf[i]].feature
FeatureFree(i) ==
    Cardinality({k \in Items : Live(k) /\ Feature(k) = Feature(i)}) < FeatureLimit[Feature(i)]
Admitted(i) == LaneFree(i) /\ FeatureFree(i)

Leased(rec, w, token) ==
    [rec EXCEPT !.status = "running", !.attempt = @ + 1, !.token = token, !.owner = w,
                !.left = LeaseLen, !.wait = 0]
Claim(w) ==
    /\ worker[w].at = "idle"
    /\ \E i \in Scanned :
          /\ Admitted(i) /\ \A k \in Scanned : k < i => ~Admitted(k)
          /\ LET token == <<i, item[i].attempt + 1>>
             IN  /\ item' = [item EXCEPT ![i] = Leased(item[i], w, token)]
                 /\ worker' = [worker EXCEPT ![w] = [Resting EXCEPT !.at = "working", !.item = i,
                              !.token = token, !.beat = Renew,
                              !.runs = IF Feature(i) = Coordinated THEN "leader" ELSE "item"]]
          /\ batch' = [batch EXCEPT ![BatchOf[i]].status = "running"]
    /\ UNCHANGED <<faults, missed, overwritten>>

(* _heartbeat: owner and token, whatever the expiry.  Once it finds the     *)
(* lease lost it ends; the executor is not told.  A failure is only logged. *)
Extended(rec) == [rec EXCEPT !.left = @ + LeaseLen]     \* mutant: added to what is left
Renewed(rec) == [rec EXCEPT !.left = LeaseLen]
Beat(w) ==
    /\ worker[w].at = "working" /\ worker[w].beat = 0
    /\ LET i == worker[w].item
       IN  \/ /\ Holds(i, worker[w].token)
              /\ item' = [item EXCEPT ![i] = Renewed(@)]
              /\ worker' = [worker EXCEPT ![w].beat = Renew]
           \/ /\ ~Holds(i, worker[w].token)
              /\ worker' = [worker EXCEPT ![w].beat = -1]
              /\ UNCHANGED item
    /\ UNCHANGED <<batch, faults, missed, overwritten>>
BeatFails(w) ==
    /\ worker[w].at = "working" /\ worker[w].beat = 0 /\ faults < MaxFaults
    /\ faults' = faults + 1 /\ missed' = TRUE
    /\ worker' = [worker EXCEPT ![w].beat = Renew]
    /\ UNCHANGED <<batch, item, overwritten>>
-----------------------------------------------------------------------------
(* _execute_inventory_cost: one executor runs all of its batch.  It claims  *)
(* the queued siblings under its own lease, completes items one by one      *)
(* or several at a time, and at its end those it left open.                 *)
ClaimMates(w) ==
    /\ worker[w].at = "working" /\ worker[w].runs = "leader"
    /\ item' = [i \in Items |->
                  IF BatchOf[i] = BatchOf[worker[w].item] /\ item[i].status = "queued" /\ Expired(i)
                  THEN Leased(item[i], w, worker[w].token) ELSE item[i]]
    /\ worker' = [worker EXCEPT ![w].runs = "batch"]
    /\ UNCHANGED <<batch, faults, missed, overwritten>>
Mine(w) == {i \in ItemsOf(BatchOf[worker[w].item]) : Holds(i, worker[w].token)}
ReadExternal(w) ==
    /\ worker[w].at = "working" /\ worker[w].runs = "batch"
    /\ \E i \in Mine(w) \ worker[w].closing : worker' = [worker EXCEPT ![w].closing = @ \union {i}]
    /\ UNCHANGED <<batch, item, faults, missed, overwritten>>
(* The row is written whoever has it now; if it is gone the update fails.   *)
WriteExternal(w) ==
    \E i \in worker[w].closing :
        /\ worker' = [worker EXCEPT ![w].closing = @ \ {i}]
        /\ ~Locked(i)
        /\ IF item[i].status = "none" THEN UNCHANGED <<batch, item>>
           ELSE /\ \E r \in Results : item' = [item EXCEPT ![i] = Ended(@, r)]
                /\ Refresh({BatchOf[i]})
        /\ overwritten' = (overwritten \/ (Running(i) /\ ~Holds(i, worker[w].token)))
        /\ UNCHANGED <<faults, missed>>
-----------------------------------------------------------------------------
(* The executor returns or raises; _finish_item or _fail_or_retry finds the *)
(* item still leased, locks it and reads the batch, or finds it is not.     *)
StillRunning(w) == Running(worker[w].item)      \* mutant: the fence is not looked at
StillLeased(w) == Holds(worker[w].item, worker[w].token) /\ item[worker[w].item].left > 0
FinishRead(w) ==
    /\ worker[w].at = "working" /\ worker[w].closing = {}
    /\ worker' = [worker EXCEPT ![w] =
          IF StillLeased(w) THEN [@ EXCEPT !.at = "writing", !.beat = -1,
                                           !.cancelSeen = batch[BatchOf[worker[w].item]].cancel]
          ELSE Resting]
    /\ UNCHANGED <<batch, item, faults, missed, overwritten>>

MayRetry(w) == item[worker[w].item].attempt < MaxAttempts /\ ~worker[w].cancelSeen
(* A coordinating executor whose own item is still open has raised. *)
Outcomes(w) == IF worker[w].runs # "item" THEN {"failed"} ELSE Results
FinishWrite(w) ==
    /\ worker[w].at = "writing"
    /\ LET i == worker[w].item
       IN  /\ \/ \E r \in Outcomes(w) : item' = [item EXCEPT ![i] = Ended(@, r)]
              \/ /\ MayRetry(w) /\ Outcomes(w) \intersect {"failed", "partial"} # {}
                 /\ item' = [item EXCEPT ![i] = [Unleased(@) EXCEPT !.status = "queued", !.wait = Backoff]]
           /\ Refresh({BatchOf[i]})
    /\ worker' = [worker EXCEPT ![w] = Resting]
    /\ UNCHANGED <<faults, missed, overwritten>>
(* The transaction fails, and _fail_or_retry's after it: the item keeps its *)
(* lease, which nobody renews.                                              *)
FinishFails(w) ==
    /\ worker[w].at = "writing" /\ faults < MaxFaults
    /\ worker' = [worker EXCEPT ![w] = Resting]
    /\ faults' = faults + 1
    /\ UNCHANGED <<batch, item, missed, overwritten>>
-----------------------------------------------------------------------------
(* recover_interrupted: the running items of S go back to the queue; then   *)
(* every cancelled batch that is still active loses its queued items.       *)
Recover(S) ==
    /\ \A i \in S : ~Locked(i)
    /\ LET touched == {BatchOf[i] : i \in S} \union
                      {b \in Batches : batch[b].status \in ACTIVE /\ batch[b].cancel}
           queued == S \union {i \in Items : item[i].status = "queued"}
       IN  /\ item' = [i \in Items |->
                 IF i \in queued /\ BatchOf[i] \in touched /\ batch[BatchOf[i]].cancel
                 THEN Ended(item[i], "cancelled")
                 ELSE IF i \in S THEN [Unleased(item[i]) EXCEPT !.status = "queued"]
                 ELSE item[i]]
           /\ Refresh(touched)

(* stop: the loops are cancelled, then what this worker owns is recovered.  *)
Stop(w) ==
    /\ worker[w].at \in {"idle", "working", "writing"} /\ faults < MaxFaults
    /\ worker' = [worker EXCEPT ![w] = [Resting EXCEPT !.at = "stopping"]]
    /\ faults' = faults + 1
    /\ UNCHANGED <<batch, item, missed, overwritten>>
RecoverOwned(w) ==
    /\ worker[w].at = "stopping"
    /\ Recover({i \in Items : Running(i) /\ item[i].owner = w})
    /\ worker' = [worker EXCEPT ![w].at = "down"]
    /\ UNCHANGED <<faults, missed, overwritten>>
Crash(w) ==
    /\ worker[w].at # "down"
    /\ faults < MaxFaults \/ worker[w].at = "stopping"
    /\ worker' = [worker EXCEPT ![w] = [Resting EXCEPT !.at = "down"]]
    /\ faults' = IF worker[w].at = "stopping" THEN faults ELSE faults + 1
    /\ UNCHANGED <<batch, item, missed, overwritten>>
Start(w) ==
    /\ worker[w].at = "down"
    /\ Recover({i \in Items : Running(i) /\ Expired(i)})
    /\ worker' = [worker EXCEPT ![w] = Resting]
    /\ UNCHANGED <<faults, missed, overwritten>>

(* A heartbeat that is due comes before time moves on. *)
Less(n) == IF n > 0 THEN n - 1 ELSE n
BatchTick ==
    /\ \A w \in Workers : worker[w].beat # 0
    /\ item' = [i \in Items |-> [item[i] EXCEPT !.left = Less(@), !.wait = Less(@)]]
    /\ worker' = [w \in Workers |-> [worker[w] EXCEPT !.beat = Less(@)]]
    /\ item' # item \/ worker' # worker
    /\ UNCHANGED <<batch, faults, missed, overwritten>>

Executes(w) == ClaimMates(w) \/ ReadExternal(w) \/ WriteExternal(w) \/ FinishRead(w)
BatchNext ==
    \/ BatchTick
    \/ \E b \in Batches : Create(b) \/ Cancel(b) \/ Delete(b)
    \/ \E w \in Workers :
          \/ Claim(w) \/ Beat(w) \/ BeatFails(w) \/ Executes(w) \/ FinishWrite(w) \/ FinishFails(w)
          \/ Stop(w) \/ RecoverOwned(w) \/ Crash(w) \/ Start(w)

(* Time passes, idle loops look for work every 30 seconds, transactions     *)
(* end, replicas are restarted.  An executor need not return.               *)
BatchFairness ==
    /\ WF_bvars(BatchTick)
    /\ \A w \in Workers :
          /\ WF_bvars(Claim(w)) /\ WF_bvars(Beat(w)) /\ WF_bvars(FinishWrite(w))
          /\ WF_bvars(RecoverOwned(w)) /\ WF_bvars(Start(w))
BatchSpec == BatchInit /\ [][BatchNext]_bvars
BatchFairSpec == BatchSpec /\ BatchFairness
-----------------------------------------------------------------------------
(* A batch is over exactly when all its items are, in whatever order        *)
(* finishes, recoveries and cancellations refresh it: no poll for its end   *)
(* waits in vain, and delete_batch never removes an item that is at work.   *)
BatchOverWithItems ==
    \A b \in Batches : batch[b].status \notin {"none", "deleted"} =>
        (batch[b].status \in TERMINAL <=> \A i \in ItemsOf(b) : item[i].status \in TERMINAL)

(* "Admission is bounded per feature and to one running item per tenant +   *)
(* Azure connection lane" (specification.md:68), over all workers: two live *)
(* items of a lane are under the same lease (a coordinated batch).  A       *)
(* heartbeat that comes after its lease has run out may break it, and so    *)
(* may an item ended under the worker that is about to take its siblings.   *)
Leases(S) == {item[i].token : i \in S}
AdmissionBounded ==
    ~missed /\ ~overwritten =>
        /\ \A i, k \in Items : Live(i) /\ Live(k) /\ LaneOf[i] = LaneOf[k] => item[i].token = item[k].token
        /\ \A f \in DOMAIN FeatureLimit :
              Cardinality(Leases({i \in Items : Live(i) /\ Feature(i) = f})) <= FeatureLimit[f]

(* While heartbeats get through no item is run twice at a time, except that *)
(* a coordinated batch's siblings are not renewed (see README).             *)
NoDoubleWork ==
    ~missed => \A w \in Workers :
        worker[w].at = "working" /\ worker[w].runs = "item" =>
            Holds(worker[w].item, worker[w].token)

(* "Items that already reached a terminal state keep it"                    *)
(* (durable-batches.md:79), and only the holder of the present lease, or a  *)
(* recovery, ends a running item: not a cancellation, and not a worker that *)
(* has lost it.  The one exception is a coordinating worker that held the   *)
(* item when it read it, and has lost it by the time of its write.          *)
EndedByHolder(i) ==
    \E w \in Workers : worker[w].token = item[i].token
                       /\ (worker'[w].at = "idle" \/ worker[w].runs = "batch")
EndedByRecovery(i) ==
    /\ batch[BatchOf[i]].cancel
    /\ \E w \in Workers : worker[w].at \in {"stopping", "down"} /\ worker'[w].at # worker[w].at
EndedBlindly(i) ==
    \E w \in Workers : worker[w].at = "working" /\ worker'[w].at = "working"
                       /\ i \in worker[w].closing \ worker'[w].closing
ResultsStand ==
    [][\A i \in Items :
         /\ item[i].status \in TERMINAL =>
               \/ item'[i].status = item[i].status \/ batch'[BatchOf[i]].status = "deleted"
               \/ EndedBlindly(i)
         /\ Running(i) /\ item'[i].status \in TERMINAL =>
               EndedByHolder(i) \/ EndedByRecovery(i) \/ EndedBlindly(i)]_bvars

(* A batch nobody cancels reaches its end, through retries, lost leases,    *)
(* stops, crashes and restarts, if executors return.  (Active ~> not active *)
(* or cancelled: the same as []<> of the latter.)                           *)
ExecutorsReturn == \A w \in Workers : WF_bvars(Executes(w))
WorkSettles ==
    ExecutorsReturn =>
        \A b \in Batches : []<>(batch[b].status \notin ACTIVE \/ batch[b].cancel)

(* "Cancel it first and let the active item finish"                         *)
(* (durable-batches.md:111): a cancelled batch reaches its end.             *)
CancelSettles ==
    ExecutorsReturn => \A b \in Batches : batch[b].cancel ~> batch[b].status \notin ACTIVE

(* "Independent connections can progress concurrently"                      *)
(* (specification.md:69): with a worker at hand, an item whose lane and     *)
(* feature are free does not wait for the items of other lanes, whose       *)
(* executors may never return: it is not waiting, again and again.  That    *)
(* much the code keeps only while fewer than Scan candidates are older than *)
(* the item; behind Scan blocked ones it does wait for their lane (README). *)
Near(i) == Cardinality({k \in Candidates : k < i}) < Scan
Waiting(i) ==
    i \in Candidates /\ Near(i) /\ Admitted(i) /\ \E w \in Workers : worker[w].at = "idle"
LanesIndependent == \A i \in Items : []<>~Waiting(i)
=============================================================================
