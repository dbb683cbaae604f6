------------------------- MODULE DurableJobExecutorProofs -------------------------
(***************************************************************************)
(* What the executor guarantees, for any number of replicas, runs and jobs, *)
(* any intervals that leave room for one renewal, any clock differences,    *)
(* and whether or not calls fail and replicas crash.                        *)
(*                                                                         *)
(* Each step of an executor on the database is a transaction of the store   *)
(* (StepIsStore), so all that is proved of the store holds here.  By it a   *)
(* run owns the job exactly while the slot is leased and its token is the   *)
(* last (OwnedIs), and ownership is lost only when the lease it wrote has   *)
(* lapsed for somebody's clock (Lapse).  What remains is one record of each *)
(* run and the clock: RunOK, whose parts say where its task is registered,  *)
(* which lease it wrote, and how late its monitor's next step can be.       *)
(***************************************************************************)
EXTENDS DurableJobExecutor, DurableJobStoreProofs

(* The intervals under which a working database always renews in time: one  *)
(* renewal interval, a late answer before and a late look after it.         *)
Timely == ~Failures /\ Renew + Control + 2 * OpTimeout + 2 * MaxSkew <= LeaseLen

Leased == slot.lease # None
Mapped(k) == tasks[run[k].proc] = k
Watched(k) == InPhase(k, {"created", "working"}) /\ Mapped(k)

Known(k) ==
    /\ InPhase(k, {"none"}) => run[k].mon = "off"
    /\ ~InPhase(k, {"none"}) => k <= lastToken /\ Caller(k) \in claims
    /\ InPhase(k, {"granted"} \union InTask) /\ k = lastToken /\ Leased => slot.lease = run[k].until

(* A claim not answered yet; without failures it is answered in time.       *)
JustGranted(k) == InPhase(k, {"granted"}) =>
    /\ run[k].mon = "off" /\ run[k].displaced = None
    /\ ~Failures => /\ k = lastToken /\ Leased /\ clock <= run[k].due
                    /\ run[k].due + LeaseLen <= run[k].until + OpTimeout + MaxSkew

(* The monitor's own clocks, and the latest time its next step may be due.  *)
OnTime(r) ==
    /\ clock <= r.due /\ r.due < Window(r) + Slack
    /\ r.confirmed <= Window(r)
    /\ r.confirmed <= clock + LeaseLen /\ r.renew + LeaseLen = r.confirmed + Renew
    /\ r.mon = "sleep" => r.due < Window(r) + Control
    /\ r.mon = "asked" /\ r.reply = "renewed" => r.due + LeaseLen <= r.until + OpTimeout + MaxSkew
    /\ r.mon = "asked" /\ r.reply = "owned" => r.due < r.renew + OpTimeout
Late(k) == Watched(k) =>
    /\ run[k].mon # "off" => OnTime(run[k])
    /\ run[k].mon = "off" => run[k].cancelled /\ clock < Window(run[k]) + Slack

InForce(r) ==
    /\ r.due + MaxSkew < r.until /\ r.renew + OpTimeout + Control + MaxSkew <= r.until
    /\ r.mon = "asked" => r.reply \in {"owned", "renewed", "cancel"}
    /\ r.mon = "asked" /\ r.reply = "renewed" =>
          r.due + Renew + Control + OpTimeout + MaxSkew <= r.until
Kept(k) == Timely /\ Watched(k) =>
    /\ k = lastToken /\ Leased /\ clock + MaxSkew < run[k].until
    /\ run[k].mon # "off" => InForce(run[k])

RunOK(k) == Known(k) /\ JustGranted(k) /\ Late(k) /\ Kept(k)
MapOK == \A p \in Procs : tasks[p] # None =>
    run[tasks[p]].proc = p /\ InPhase(tasks[p], InTask)
SlotRuns == Leased => lastToken \in Runs /\ run[lastToken].job = slot.job
Registry == \A k \in Runs : InPhase(k, InTask) /\ k = lastToken => Mapped(k) \/ Overtaken(k)

RunsInv == ExTypeOK /\ (\A k \in Runs : RunOK(k)) /\ MapOK /\ SlotRuns /\ Registry
ExInv == IInv /\ RunsInv
-----------------------------------------------------------------------------
LEMMA Intervals ==
  /\ LeaseLen \in Nat \ {0} /\ MaxSkew \in Nat /\ Control \in Nat \ {0} /\ Renew \in Nat \ {0}
  /\ OpTimeout \in Nat /\ Renew + OpTimeout + 2 * MaxSkew <= LeaseLen
  /\ MaxToken \in Nat /\ Slack = Control + OpTimeout /\ Slack \in Nat /\ ClaimWait \in Nat
  /\ None \notin Runs /\ Runs \subseteq Nat \ {0}
BY StoreAssumption, ExecutorAssumption DEF Slack, Runs, None

LEMMA Clocks ==
  ASSUME ExInv
  PROVE  /\ clock \in Nat /\ lastToken \in Nat /\ (Leased => slot.lease \in Nat)
         /\ \A now \in Now : now \in Nat /\ now <= clock + MaxSkew /\ clock <= now + MaxSkew
<1>1. clock \in Nat /\ lastToken \in Nat /\ slot \in SlotRow
  BY DEF ExInv, IInv, TypeOK, Time
<1>2. Leased => slot.lease \in Nat
  BY <1>1 DEF Leased, SlotRow, Time
<1>3. \A now \in Now : now \in Nat /\ now <= clock + MaxSkew /\ clock <= now + MaxSkew
  BY <1>1, Intervals DEF Now
<1> QED BY <1>1, <1>2, <1>3

LEMMA RunNumbers ==
  ASSUME ExInv, NEW k \in Runs
  PROVE  /\ run[k] \in RunRec /\ run[k].due \in Nat /\ run[k].renew \in Nat
         /\ run[k].confirmed \in Nat /\ run[k].until \in Nat /\ run[k].began \in Nat
         /\ run[k].proc \in Procs /\ tasks[run[k].proc] \in Runs \union {None}
<1>1. run[k] \in RunRec
  BY DEF ExInv, RunsInv, ExTypeOK
<1>2. run[k].proc \in Procs
  BY <1>1 DEF RunRec
<1>3. tasks[run[k].proc] \in Runs \union {None}
  BY <1>2 DEF ExInv, RunsInv, ExTypeOK
<1> QED BY <1>1, <1>2, <1>3 DEF RunRec

LEMMA WindowIs ==
  ASSUME NEW r, r.until \in Nat, r.began \in Nat
  PROVE  /\ Window(r) \in Nat
         /\ r.until + OpTimeout + MaxSkew <= Window(r) /\ r.began + LeaseLen <= Window(r)
BY Intervals DEF Window, Later

LEMMA KnownCaller ==
  ASSUME ExInv, NEW k \in Runs, ~InPhase(k, {"none"})
  PROVE  /\ Caller(k) \in claims /\ run[k].job \in Jobs /\ run[k].job # NoJob
         /\ Caller(k).job = run[k].job /\ Caller(k).token = k /\ k <= lastToken
<1>1. Caller(k) \in claims /\ k <= lastToken
  BY DEF ExInv, RunsInv, RunOK, Known
<1>2. Caller(k) \in ClaimRec
  BY <1>1 DEF ExInv, IInv, TypeOK
<1> QED BY <1>1, <1>2, StoreAssumption DEF ClaimRec, Caller

LEMMA LeasedSlot ==
  ASSUME ExInv, Leased
  PROVE  /\ CurrentRuns /\ slot.job \in Jobs /\ slot.token = lastToken
         /\ job[slot.job].token = lastToken /\ Running(slot.job)
<1>1. CurrentRuns
  BY DEF ExInv, IInv, SlotGuardsRun, Leased
<1>2. slot.job \in Jobs /\ Running(slot.job)
  BY <1>1 DEF CurrentRuns, ExInv, IInv, TypeOK, SlotRow
<1>3. job[slot.job].token = lastToken
  BY <1>2 DEF ExInv, IInv, RunnerToken
<1>4. slot.token = job[slot.job].token
  BY <1>2 DEF ExInv, IInv, SlotGuardsRun
<1> QED BY <1>1, <1>2, <1>3, <1>4

(* A run owns its job while the slot is leased and its token is the last. *)
LEMMA OwnedIs ==
  ASSUME ExInv, NEW k \in Runs, ~InPhase(k, {"none"})
  PROVE  /\ Owned(k) <=> Leased /\ k = lastToken
         /\ Owned(k) <=> Fenced(Caller(k))
         /\ Owned(k) => HoldsSlot(Caller(k))
<1>1. run[k].job \in Jobs /\ run[k].job # NoJob /\ Caller(k).job = run[k].job /\ Caller(k).token = k
  BY KnownCaller
<1>2. Owned(k) <=> Fenced(Caller(k))
  BY <1>1 DEF Owned
<1>3. ASSUME Owned(k)
      PROVE  Leased /\ k = lastToken /\ HoldsSlot(Caller(k))
  <2>1. Running(run[k].job) /\ job[run[k].job].token = k
    BY <1>1, <1>2, <1>3 DEF Fenced
  <2>2. slot = [job |-> run[k].job, token |-> k, lease |-> job[run[k].job].lease] /\ slot.lease # None
    BY <1>1, <2>1 DEF ExInv, IInv, SlotGuardsRun
  <2>3. k = lastToken
    BY <1>1, <2>1 DEF ExInv, IInv, RunnerToken
  <2> QED BY <1>1, <2>2, <2>3 DEF Leased, HoldsSlot
<1>4. ASSUME Leased, k = lastToken
      PROVE  Owned(k)
  <2>1. run[k].job = slot.job
    BY <1>4 DEF ExInv, RunsInv, SlotRuns
  <2> QED BY <1>1, <1>2, <1>4, <2>1, LeasedSlot DEF Fenced
<1> QED BY <1>2, <1>3, <1>4

(* Whoever may lose the job now has not been granted it just before, and is *)
(* not watched by a monitor that renews in time.                            *)
LEMMA Lapse ==
  ASSUME ExInv, NEW j \in Runs, Leased => slot.lease <= clock + MaxSkew
  PROVE  (Failures \/ ~InPhase(j, {"granted"})) /\ ~(Timely /\ Watched(j))
<1>1. RunOK(j)
  BY DEF ExInv, RunsInv
<1> DEFINE due == run[j].due
           until == run[j].until
<1>2. clock \in Nat /\ due \in Nat /\ until \in Nat /\ (Leased => slot.lease \in Nat)
  BY RunNumbers, Clocks
<1>3. ASSUME ~Failures, InPhase(j, {"granted"})
      PROVE  FALSE
  <2>1. j = lastToken /\ Leased /\ clock <= due /\ due + LeaseLen <= until + OpTimeout + MaxSkew
    BY <1>1, <1>3 DEF RunOK, JustGranted
  <2>2. slot.lease = until
    BY <1>1, <1>3, <2>1 DEF RunOK, Known, InPhase
  <2> HIDE DEF due, until
  <2> QED BY <1>2, <2>1, <2>2, Intervals
<1>4. ASSUME Timely, Watched(j)
      PROVE  FALSE
  <2>1. j = lastToken /\ Leased /\ clock + MaxSkew < until
    BY <1>1, <1>4 DEF RunOK, Kept
  <2>2. slot.lease = until
    BY <1>1, <1>4, <2>1 DEF RunOK, Known, Watched, InPhase, InTask
  <2> HIDE DEF until
  <2> QED BY <1>2, <2>1, <2>2, Intervals
<1> QED BY <1>3, <1>4
-----------------------------------------------------------------------------
(* The runs a step is not about. *)

LEMMA Bystander ==
  ASSUME ExInv, NEW j \in Runs, run'[j] = run[j], clock' = clock, claims \subseteq claims',
         lastToken' \in Nat, lastToken <= lastToken',
         Mapped(j)' => Mapped(j),
         \/ lastToken' = lastToken /\ slot'.lease = slot.lease
         \/ /\ (Failures \/ ~InPhase(j, {"granted"})) /\ ~(Timely /\ Watched(j))
            /\ j # lastToken' \/ slot'.lease = None
  PROVE  RunOK(j)'
<1>1. RunOK(j)
  BY DEF ExInv, RunsInv
<1>2. /\ lastToken \in Nat /\ j \in Nat
  BY Clocks, Intervals
<1>3. \A phases : InPhase(j, phases)' <=> InPhase(j, phases)
  BY DEF InPhase
<1>4. Caller(j)' = Caller(j)
  BY DEF Caller
<1>5. Known(j)'
  <2>1. ~InPhase(j, {"none"}) => j <= lastToken' /\ Caller(j) \in claims'
    BY <1>1, <1>2 DEF RunOK, Known
  <2>2. InPhase(j, InTask) \/ InPhase(j, {"granted"}) => ~InPhase(j, {"none"})
    BY DEF InPhase, InTask
  <2>3. ~InPhase(j, {"none"}) /\ j = lastToken' => lastToken' = lastToken
    BY <1>1, <1>2 DEF RunOK, Known
  <2>5. InPhase(j, {"granted"} \union InTask) /\ j = lastToken' /\ slot'.lease # None =>
           slot'.lease = run'[j].until
    <3> SUFFICES ASSUME InPhase(j, {"granted"} \union InTask), j = lastToken', slot'.lease # None
                 PROVE  slot'.lease = run[j].until
      OBVIOUS
    <3>1. lastToken' = lastToken
      BY <2>2, <2>3 DEF InPhase
    <3>2. slot'.lease = slot.lease
      OBVIOUS
    <3> QED BY <1>1, <3>1, <3>2 DEF RunOK, Known, Leased
  <2>6. InPhase(j, {"none"}) => run'[j].mon = "off"
    BY <1>1 DEF RunOK, Known
  <2> QED BY <1>3, <1>4, <2>1, <2>5, <2>6 DEF Known, Leased
<1>6. Watched(j)' => Watched(j)
  BY <1>3 DEF Watched
<1>7. JustGranted(j)'
  BY <1>1, <1>3 DEF RunOK, JustGranted, Leased
<1>8. Late(j)'
  BY <1>1, <1>6 DEF RunOK, Late, OnTime
<1>9. Kept(j)'
  <2>1. Timely' <=> Timely
    BY DEF Timely
  <2> QED BY <1>1, <1>6, <2>1 DEF RunOK, Kept, InForce, Leased
<1> QED BY <1>5, <1>7, <1>8, <1>9 DEF RunOK

(* The owner stays registered unless an older claim is answered now. *)
LEMMA RegistryStays ==
  ASSUME ExInv, lastToken' = lastToken,
         \A j \in Runs : run'[j].displaced = run[j].displaced \/ InPhase(j, {"granted"}),
         \A j \in Runs : InPhase(j, InTask)' /\ j = lastToken =>
            Mapped(j)' \/ Overtaken(j)' \/ (InPhase(j, InTask) /\ ~Mapped(j))
  PROVE  Registry'
<1> SUFFICES ASSUME NEW j \in Runs, InPhase(j, InTask), j = lastToken, ~Mapped(j)
             PROVE  Overtaken(j)'
  BY DEF Registry
<1>1. PICK o \in Runs : o < j /\ run[o].displaced = j
  BY DEF ExInv, RunsInv, Registry, Overtaken
<1>2. ~InPhase(o, {"granted"})
  BY <1>1, Intervals DEF ExInv, RunsInv, RunOK, JustGranted
<1>3. run'[o].displaced = j
  BY <1>1, <1>2
<1> QED BY <1>1, <1>3 DEF Overtaken

(* One run changes its record, and maybe the rows it owns and its entry in  *)
(* the task map: the others need not be looked at again.                    *)
LEMMA OneRun ==
  ASSUME ExInv, NEW k \in Runs, NEW rec \in RunRec, run' = [run EXCEPT ![k] = rec],
         UNCHANGED <<clock, claims, lastToken, calling, up>>,
         \/ slot'.lease = slot.lease /\ (Leased => slot'.job = slot.job)
         \/ k = lastToken /\ (slot'.lease # None => slot'.job = slot.job /\ Leased),
         rec.proc = run[k].proc, rec.job = run[k].job,
         rec.displaced = run[k].displaced \/ InPhase(k, {"granted"}),
         \/ /\ tasks' = tasks /\ (rec.phase \in InTask \/ ~Mapped(k))
            /\ rec.phase \in InTask => InPhase(k, InTask)
         \/ Forgets(k) /\ rec.phase \notin InTask
         \/ /\ tasks' = [tasks EXCEPT ![rec.proc] = k] /\ rec.phase \in InTask
            /\ InPhase(k, {"granted"}) /\ rec.displaced = tasks[rec.proc],
         RunOK(k)'
  PROVE  RunsInv'
<1>1. /\ run \in [Runs -> RunRec] /\ tasks \in [Procs -> Runs \union {None}] /\ MapOK /\ SlotRuns
      /\ run[k].proc \in Procs /\ \A j \in Runs : RunOK(j) /\ run[j].proc \in Procs
  BY RunNumbers DEF ExInv, RunsInv, ExTypeOK
<1>2. run'[k] = rec /\ \A j \in Runs \ {k} : run'[j] = run[j]
  BY <1>1
<1> DEFINE p == run[k].proc
<1>3. /\ tasks' \in [Procs -> Runs \union {None}]
      /\ \A q \in Procs : q # p => tasks'[q] = tasks[q]
      /\ tasks'[p] \in {tasks[p], None, k}
  BY <1>1, Intervals DEF Forgets
<1>5. \A j \in Runs \ {k} : RunOK(j)'
  <2> TAKE j \in Runs \ {k}
  <2>1. run'[j] = run[j] /\ run[j].proc \in Procs
    BY <1>1, <1>2
  <2>2. Mapped(j)' => Mapped(j)
    BY <1>3, <2>1, Intervals DEF Mapped
  <2>4. CASE slot'.lease = slot.lease
    BY <2>1, <2>2, <2>4, Bystander, Clocks
  <2>5. CASE k = lastToken
    <3>1. j # lastToken /\ (Failures \/ ~InPhase(j, {"granted"})) /\ ~(Timely /\ Watched(j))
      BY <1>1, <2>5 DEF RunOK, JustGranted, Kept
    <3> QED BY <2>1, <2>2, <3>1, Bystander, Clocks
  <2> QED BY <2>4, <2>5
<1>6. \A j \in Runs : RunOK(j)'
  BY <1>5
<1>7. MapOK'
  <2> SUFFICES ASSUME NEW q \in Procs, tasks'[q] # None
               PROVE  run'[tasks'[q]].proc = q /\ run'[tasks'[q]].phase \in InTask
    BY DEF MapOK, InPhase
  <2>1. CASE tasks'[q] = k
    <3>1. q = p
      BY <1>1, <1>3, <2>1 DEF MapOK
    <3>2. rec.phase \in InTask
      <4>1. CASE tasks' = tasks /\ (rec.phase \in InTask \/ ~Mapped(k))
        BY <2>1, <3>1, <4>1 DEF Mapped
      <4>2. CASE Forgets(k)
        BY <1>1, <2>1, <3>1, <4>2, Intervals DEF Forgets
      <4> QED BY <4>1, <4>2
    <3> QED BY <1>2, <2>1, <3>1, <3>2
  <2>2. CASE tasks'[q] # k
    <3>1. tasks'[q] = tasks[q] /\ tasks[q] \in Runs \ {k}
      BY <1>1, <1>3, <2>2
    <3> QED BY <1>1, <1>2, <3>1 DEF MapOK, InPhase
  <2> QED BY <2>1, <2>2
<1>8. SlotRuns'
  <2> SUFFICES ASSUME slot'.lease # None
               PROVE  lastToken \in Runs /\ run'[lastToken].job = slot'.job
    BY DEF SlotRuns, Leased
  <2>1. Leased /\ slot'.job = slot.job
    BY DEF Leased
  <2>2. lastToken \in Runs /\ run[lastToken].job = slot.job
    BY <1>1, <2>1 DEF SlotRuns
  <2> QED BY <1>2, <2>1, <2>2
<1>9. ExTypeOK'
  <2>1. run' \in [Runs -> RunRec]
    BY <1>1
  <2> QED BY <1>3, <2>1 DEF ExInv, RunsInv, ExTypeOK
<1>10. Registry'
  <2>1. \A j \in Runs : run'[j].displaced = run[j].displaced \/ InPhase(j, {"granted"})
    BY <1>2
  <2>2. ASSUME NEW j \in Runs, InPhase(j, InTask)', j = lastToken
        PROVE  Mapped(j)' \/ Overtaken(j)' \/ (InPhase(j, InTask) /\ ~Mapped(j))
    <3>1. CASE j = k
      BY <1>1, <1>2, <2>2, <3>1 DEF InPhase, Mapped
    <3>2. CASE j # k /\ ~(rec.displaced = j /\ InPhase(k, {"granted"}))
      <4>1. run'[j] = run[j] /\ InPhase(j, InTask) /\ run[j].proc \in Procs
        BY <1>1, <1>2, <2>2, <3>2 DEF InPhase
      <4>2. Mapped(j) => Mapped(j)'
        BY <1>1, <1>3, <3>2, <4>1 DEF Mapped, Forgets
      <4> QED BY <4>1, <4>2
    <3>3. CASE j # k /\ rec.displaced = j /\ InPhase(k, {"granted"})
      <4>1. k <= lastToken /\ k \in Nat /\ lastToken \in Nat
        BY <1>1, <3>3, Clocks, Intervals DEF RunOK, Known, InPhase
      <4>2. k < j
        BY <2>2, <3>3, <4>1
      <4> QED BY <1>2, <3>3, <4>2 DEF Overtaken
    <3> QED BY <3>1, <3>2, <3>3
  <2> QED BY <2>1, <2>2, RegistryStays
<1> QED BY <1>6, <1>7, <1>8, <1>9, <1>10 DEF RunsInv

(* A run that is over, or that has left the feature's code. *)
LEMMA OverOK ==
  ASSUME ExInv, NEW k \in Runs, UNCHANGED <<claims, lastToken>>,
         run'[k].phase \in {"gone", "detached"}, run'[k].job = run[k].job, ~InPhase(k, {"none"})
  PROVE  RunOK(k)'
<1>1. Caller(k)' = Caller(k) /\ Caller(k) \in claims /\ k <= lastToken
  BY KnownCaller DEF Caller
<1>2. Known(k)'
  BY <1>1 DEF Known, InPhase, InTask
<1> QED BY <1>2 DEF RunOK, JustGranted, Late, Kept, Watched, InPhase

LEMMA OutsideOK ==
  ASSUME ExInv, NEW k \in Runs, UNCHANGED <<claims, lastToken, tasks>>,
         run'[k].phase \in {"finishing", "failing", "checking", "closing"}, InPhase(k, InTask),
         run'[k].job = run[k].job, run'[k].proc = run[k].proc, run'[k].until = run[k].until,
         slot'.lease = slot.lease \/ slot'.lease = None
  PROVE  RunOK(k)'
<1>1. ~InPhase(k, {"none"}) /\ RunOK(k)
  BY DEF InPhase, InTask, ExInv, RunsInv
<1>2. Caller(k)' = Caller(k) /\ Caller(k) \in claims /\ k <= lastToken
  BY <1>1, KnownCaller DEF Caller
<1>4. k = lastToken /\ slot'.lease # None => slot'.lease = run[k].until
  BY <1>1 DEF RunOK, Known, Leased, InPhase
<1>5. Known(k)'
  BY <1>2, <1>4 DEF Known, Leased, InPhase
<1> QED BY <1>5 DEF RunOK, JustGranted, Late, Kept, Watched, InPhase

LEMMA InsideOK ==
  ASSUME ExInv, NEW k \in Runs, UNCHANGED <<clock, claims, lastToken, tasks>>,
         InPhase(k, InTask), run'[k].phase \in InTask,
         run'[k].job = run[k].job, run'[k].proc = run[k].proc,
         k = lastToken /\ slot'.lease # None => slot'.lease = run'[k].until,
         Watched(k)' => /\ run'[k].mon # "off" => OnTime(run'[k])
                        /\ run'[k].mon = "off" =>
                              run'[k].cancelled /\ clock < Window(run'[k]) + Slack,
         Timely /\ Watched(k)' => /\ k = lastToken /\ slot'.lease # None
                                  /\ clock + MaxSkew < run'[k].until
                                  /\ run'[k].mon # "off" => InForce(run'[k])
  PROVE  RunOK(k)'
<1>1. ~InPhase(k, {"none"}) /\ RunOK(k)
  BY DEF InPhase, InTask, ExInv, RunsInv
<1>2. Caller(k)' = Caller(k) /\ Caller(k) \in claims /\ k <= lastToken
  BY <1>1, KnownCaller DEF Caller
<1>4. Known(k)'
  BY <1>2 DEF Known, Leased, InPhase, InTask
<1>5. JustGranted(k)'
  BY DEF JustGranted, InPhase, InTask
<1>6. Late(k)'
  BY DEF Late, OnTime
<1>7. Kept(k)'
  BY DEF Kept, InForce, Timely, Leased
<1> QED BY <1>4, <1>5, <1>6, <1>7 DEF RunOK

(* The task enters the feature's code, or somebody cancels it. *)
LEMMA GoesOnOK ==
  ASSUME ExInv, NEW k \in Runs, UNCHANGED <<clock, claims, lastToken, tasks>>,
         slot'.lease = slot.lease, InPhase(k, InTask), NEW ph \in InTask, NEW c \in BOOLEAN,
         run'[k] = [run[k] EXCEPT !.phase = ph, !.cancelled = c], run[k].cancelled => c,
         ph \in {"created", "working"} => InPhase(k, {"created", "working"})
  PROVE  RunOK(k)'
<1> DEFINE r == run[k]
           s == run'[k]
<1>1. r \in RunRec /\ RunOK(k)
  BY RunNumbers DEF ExInv, RunsInv
<1>2. /\ s.phase = ph /\ s.cancelled = c /\ s.job = r.job /\ s.proc = r.proc /\ s.until = r.until
      /\ s.mon = r.mon /\ s.due = r.due /\ s.renew = r.renew /\ s.confirmed = r.confirmed
      /\ s.reply = r.reply /\ s.began = r.began
  BY <1>1 DEF RunRec
<1> HIDE DEF s
<1>3. Watched(k)' => Watched(k)
  BY <1>2 DEF Watched, InPhase, Mapped, s
<1>4. k = lastToken /\ slot'.lease # None => slot'.lease = s.until
  BY <1>1, <1>2 DEF RunOK, Known, Leased, InPhase
<1>5. Watched(k) => /\ s.mon # "off" => OnTime(s)
                    /\ s.mon = "off" => s.cancelled /\ clock < Window(s) + Slack
  BY <1>1, <1>2 DEF RunOK, Late, OnTime, Window
<1>6. Timely /\ Watched(k) => /\ k = lastToken /\ slot'.lease # None
                              /\ clock + MaxSkew < s.until
                              /\ s.mon # "off" => InForce(s)
  BY <1>1, <1>2 DEF RunOK, Kept, InForce, Leased
<1> QED BY <1>2, <1>3, <1>4, <1>5, <1>6, InsideOK DEF s
-----------------------------------------------------------------------------
(* The monitor's clocks. *)

LEMMA FirstSleep ==
  ASSUME ExInv, NEW k \in Runs, InPhase(k, {"granted"}), NEW s,
         s.mon = "sleep", s.due = clock + Control, s.renew = clock + Renew,
         s.confirmed = clock + LeaseLen, s.until = run[k].until, s.began = clock
  PROVE  OnTime(s) /\ (Timely => clock + MaxSkew < s.until /\ InForce(s))
<1> DEFINE until == run[k].until
           due == run[k].due
<1>1. clock \in Nat /\ until \in Nat /\ due \in Nat
  BY Clocks, RunNumbers
<1>2. ~Failures => clock <= due /\ due + LeaseLen <= until + OpTimeout + MaxSkew
  BY DEF ExInv, RunsInv, RunOK, JustGranted
<1> HIDE DEF until, due
<1>3. ~Failures => clock + LeaseLen <= until + OpTimeout + MaxSkew
  BY <1>1, <1>2, Intervals
<1>4. s.until = until
  BY DEF until
<1>5. OnTime(s)
  <2>1. Window(s) \in Nat /\ clock + LeaseLen <= Window(s)
    BY <1>1, <1>4, WindowIs
  <2> QED BY <1>1, <2>1, Intervals DEF OnTime
<1>6. ASSUME Timely
      PROVE  clock + MaxSkew < s.until /\ InForce(s)
  <2>2. ~Failures
    BY <1>6 DEF Timely
  <2>1. Renew + Control + 2 * OpTimeout + 2 * MaxSkew <= LeaseLen
    BY <1>6 DEF Timely
  <2> QED BY <2>1, <2>2, <1>1, <1>3, <1>4, Intervals DEF InForce
<1> QED BY <1>5, <1>6

(* A look that does not renew. *)
LEMMA LooksOnTime ==
  ASSUME ExInv, NEW k \in Runs, Watched(k), run[k].mon = "sleep", NEW s, NEW reply,
         s.mon = "asked", s.due = clock + OpTimeout, s.renew = run[k].renew,
         s.confirmed = run[k].confirmed, s.until = run[k].until, s.reply = reply,
         s.began = run[k].began,
         reply # "renewed", reply = "owned" => ~Renewing(k)
  PROVE  /\ OnTime(s)
         /\ Timely /\ reply \in {"owned", "cancel"} /\ ~Renewing(k) => InForce(s)
<1> DEFINE r == run[k]
<1>1. /\ clock \in Nat /\ r.due \in Nat /\ r.renew \in Nat /\ r.confirmed \in Nat /\ r.until \in Nat
  BY Clocks, RunNumbers
<1>2. OnTime(r) /\ (Timely => InForce(r))
  BY DEF ExInv, RunsInv, RunOK, Late, Kept
<1>3. ~Renewing(k) => clock < r.renew
  BY <1>1 DEF Renewing
<1>4. OnTime(s)
  <2>1. Window(s) = Window(r) /\ Window(r) \in Nat
    BY RunNumbers, WindowIs DEF Window
  <2> QED BY <1>1, <1>2, <1>3, <2>1, Intervals DEF OnTime
<1>5. ASSUME Timely, reply \in {"owned", "cancel"}, ~Renewing(k)
      PROVE  InForce(s)
  BY <1>1, <1>2, <1>3, <1>5, Intervals DEF InForce
<1> QED BY <1>4, <1>5

(* A look that renews the lease. *)
LEMMA RenewsOnTime ==
  ASSUME ExInv, NEW k \in Runs, Watched(k), run[k].mon = "sleep", NEW now \in Now, NEW s,
         NEW reply, s.mon = "asked", s.due = clock + OpTimeout, s.renew = run[k].renew,
         s.confirmed = run[k].confirmed, s.until = now + LeaseLen, s.reply = reply,
         s.began = run[k].began,
         reply # "owned", Renewing(k)
  PROVE  /\ OnTime(s)
         /\ Timely /\ reply \in {"renewed", "cancel"} => clock + MaxSkew < s.until /\ InForce(s)
<1> DEFINE r == run[k]
<1>1. /\ clock \in Nat /\ r.due \in Nat /\ r.renew \in Nat /\ r.confirmed \in Nat /\ r.until \in Nat
      /\ now \in Nat /\ clock <= now + MaxSkew
  BY Clocks, RunNumbers
<1>2. OnTime(r)
  BY DEF ExInv, RunsInv, RunOK, Late
<1>3. r.renew <= clock
  BY <1>1 DEF Renewing
<1>4. OnTime(s)
  <2>1. s.until \in Nat /\ s.began \in Nat
    BY <1>1, RunNumbers, Intervals
  <2>2. Window(s) \in Nat /\ now + LeaseLen + OpTimeout + MaxSkew <= Window(s)
    BY <2>1, WindowIs
  <2> QED BY <1>1, <1>2, <1>3, <2>2, Intervals DEF OnTime
<1>5. ASSUME Timely, reply \in {"renewed", "cancel"}
      PROVE  clock + MaxSkew < s.until /\ InForce(s)
  <2>1. Renew + Control + 2 * OpTimeout + 2 * MaxSkew <= LeaseLen
    BY <1>5 DEF Timely
  <2> QED BY <2>1, <1>1, <1>2, <1>3, <1>5, Intervals DEF InForce
<1> QED BY <1>4, <1>5

(* An answer after which the monitor sleeps again. *)
LEMMA SleepsOnTime ==
  ASSUME ExInv, NEW k \in Runs, Watched(k), run[k].mon = "asked", NEW s,
         s.mon = "sleep", s.due = clock + Control, s.until = run[k].until,
         s.began = run[k].began,
         \/ /\ run[k].reply = "owned" \/ (run[k].reply = "fail" /\ ~GivesUp(k))
            /\ s.renew = run[k].renew /\ s.confirmed = run[k].confirmed
         \/ /\ run[k].reply = "renewed"
            /\ s.renew = clock + Renew /\ s.confirmed = clock + LeaseLen
  PROVE  OnTime(s) /\ (Timely => InForce(s))
<1> DEFINE r == run[k]
<1>1. /\ clock \in Nat /\ r.due \in Nat /\ r.renew \in Nat /\ r.confirmed \in Nat /\ r.until \in Nat
  BY Clocks, RunNumbers
<1>2. OnTime(r) /\ (Timely => InForce(r))
  BY DEF ExInv, RunsInv, RunOK, Late, Kept
<1>6. /\ Window(s) = Window(r) /\ Window(r) \in Nat
      /\ r.until + OpTimeout + MaxSkew <= Window(r)
  BY RunNumbers, WindowIs DEF Window
<1>3. CASE r.reply = "owned" /\ s.renew = r.renew /\ s.confirmed = r.confirmed
  <2>1. OnTime(s)
    BY <1>1, <1>2, <1>3, <1>6, Intervals DEF OnTime
  <2>2. Timely => InForce(s)
    BY <1>1, <1>2, <1>3, Intervals DEF InForce, OnTime
  <2> QED BY <2>1, <2>2
<1>4. CASE r.reply = "fail" /\ ~GivesUp(k) /\ s.renew = r.renew /\ s.confirmed = r.confirmed
  <2>1. clock < r.confirmed
    BY <1>1, <1>4 DEF GivesUp
  <2>2. OnTime(s)
    BY <2>1, <1>1, <1>2, <1>4, <1>6, Intervals DEF OnTime
  <2>3. ~Timely
    BY <1>2, <1>4 DEF InForce
  <2> QED BY <2>2, <2>3
<1>5. CASE r.reply = "renewed" /\ s.renew = clock + Renew /\ s.confirmed = clock + LeaseLen
  <2>1. OnTime(s)
    BY <1>1, <1>2, <1>5, <1>6, Intervals DEF OnTime
  <2>2. Timely => InForce(s)
    BY <1>1, <1>2, <1>5, Intervals DEF InForce, OnTime
  <2> QED BY <2>1, <2>2
<1> QED BY <1>3, <1>4, <1>5
-----------------------------------------------------------------------------
(* The steps of a task. *)

LEMMA WritesEffect ==
  ASSUME ExInv, NEW k \in Runs, ~InPhase(k, {"none"}), WritesOutcome(k) \/ UNCHANGED vars
  PROVE  /\ [Next]_vars /\ UNCHANGED <<clock, claims, lastToken>>
         /\ slot' = slot \/ (k = lastToken /\ slot'.lease = None)
<1>1. Caller(k) \in claims /\ run[k].status \in TERMINAL_STATUSES
  BY KnownCaller, RunNumbers DEF RunRec
<1>2. CASE UNCHANGED vars
  BY <1>2 DEF vars
<1>3. CASE \E now \in Now : Finalize(Caller(k), run[k].status, now)
  <2>1. PICK now \in Now : Finalize(Caller(k), run[k].status, now)
    BY <1>3
  <2>2. Next
    BY <1>1, <2>1 DEF Next
  <2>3. k = lastToken
    BY <2>1, OwnedIs DEF Finalize
  <2>4. UNCHANGED <<clock, claims, lastToken>> /\ slot'.lease = None
    BY <2>1 DEF Finalize, FreeSlot
  <2> QED BY <2>2, <2>3, <2>4
<1> QED BY <1>2, <1>3 DEF WritesOutcome

LEMMA OverKeeps ==
  ASSUME ExInv, NEW k \in Runs, ~InPhase(k, {"none"}), NEW ph \in {"gone", "detached"},
         Over(k, ph), UNCHANGED <<clock, claims, lastToken, calling, up>>,
         slot' = slot \/ (k = lastToken /\ slot'.lease = None)
  PROVE  RunsInv'
<1> DEFINE rec == Unwatched([run[k] EXCEPT !.phase = ph, !.cancelled = FALSE, !.until = 0, !.began = 0])
<1>1. run[k] \in RunRec /\ run \in [Runs -> RunRec]
  BY RunNumbers DEF ExInv, RunsInv, ExTypeOK
<1>2. /\ rec \in RunRec /\ rec.phase = ph /\ rec.proc = run[k].proc /\ rec.job = run[k].job
      /\ rec.displaced = run[k].displaced /\ ph \notin InTask
  BY <1>1 DEF RunRec, Unwatched, Phases, InTask
<1>3. run' = [run EXCEPT ![k] = rec] /\ Forgets(k)
  BY DEF Over, Becomes
<1> HIDE DEF rec
<1>4. RunOK(k)'
  BY <1>1, <1>2, <1>3, OverOK
<1>5. \/ slot'.lease = slot.lease /\ (Leased => slot'.job = slot.job)
      \/ k = lastToken /\ (slot'.lease # None => slot'.job = slot.job /\ Leased)
  OBVIOUS
<1> QED BY <1>2, <1>3, <1>4, <1>5, OneRun

LEMMA OutsideKeeps ==
  ASSUME ExInv, NEW k \in Runs, InPhase(k, InTask), NEW rec \in RunRec, Becomes(k, rec),
         rec.phase \in {"finishing", "failing", "checking", "closing"},
         rec.proc = run[k].proc, rec.job = run[k].job, rec.until = run[k].until,
         rec.displaced = run[k].displaced,
         UNCHANGED <<clock, claims, lastToken, tasks, calling, up>>,
         slot' = slot \/ (k = lastToken /\ slot'.lease = None)
  PROVE  RunsInv'
<1>1. run' = [run EXCEPT ![k] = rec] /\ run'[k] = rec
  BY DEF Becomes, ExInv, RunsInv, ExTypeOK
<1>2. RunOK(k)'
  BY <1>1, OutsideOK
<1>3. rec.phase \in InTask
  BY DEF InTask
<1>4. \/ slot'.lease = slot.lease /\ (Leased => slot'.job = slot.job)
      \/ k = lastToken /\ (slot'.lease # None => slot'.job = slot.job /\ Leased)
  OBVIOUS
<1> QED BY <1>1, <1>2, <1>3, <1>4, OneRun

LEMMA GoesOnKeeps ==
  ASSUME ExInv, NEW k \in Runs, InPhase(k, InTask), NEW ph \in InTask, NEW c \in BOOLEAN,
         Becomes(k, [run[k] EXCEPT !.phase = ph, !.cancelled = c]), run[k].cancelled => c,
         ph \in {"created", "working"} => InPhase(k, {"created", "working"}),
         UNCHANGED <<clock, slot, claims, lastToken, tasks>>, calling' \in [Procs -> BOOLEAN],
         up' \in [Procs -> {"up", "stopping", "stopped", "down"}]
  PROVE  RunsInv'
<1> DEFINE rec == [run[k] EXCEPT !.phase = ph, !.cancelled = c]
<1>1. run[k] \in RunRec /\ run \in [Runs -> RunRec]
  BY RunNumbers DEF ExInv, RunsInv, ExTypeOK
<1>2. ph \in Phases
  BY DEF InTask, Phases
<1>3. /\ rec \in RunRec /\ rec.phase = ph /\ rec.proc = run[k].proc /\ rec.job = run[k].job
      /\ rec.displaced = run[k].displaced
  BY <1>1, <1>2 DEF RunRec
<1>4. run' = [run EXCEPT ![k] = rec] /\ run'[k] = rec
  BY <1>1 DEF Becomes
<1>5. RunOK(k)'
  BY <1>4, GoesOnOK
<1> HIDE DEF rec
<1>6. \A j \in Runs \ {k} : RunOK(j)'
  <2> TAKE j \in Runs \ {k}
  <2>1. run'[j] = run[j]
    BY <1>1, <1>4
  <2>2. Mapped(j)' <=> Mapped(j)
    BY <2>1 DEF Mapped
  <2> QED BY <2>1, <2>2, Bystander, Clocks
<1>7. MapOK'
  BY <1>1, <1>3, <1>4 DEF ExInv, RunsInv, ExTypeOK, MapOK, InPhase
<1>8. SlotRuns'
  BY <1>1, <1>3, <1>4 DEF ExInv, RunsInv, SlotRuns, Leased
<1>9. ExTypeOK'
  BY <1>1, <1>3, <1>4 DEF ExInv, RunsInv, ExTypeOK
<1>10. Registry'
  <2>1. \A j \in Runs : run'[j].displaced = run[j].displaced /\ run'[j].proc = run[j].proc
    BY <1>1, <1>3, <1>4
  <2>2. \A j \in Runs : InPhase(j, InTask)' => InPhase(j, InTask)
    BY <1>1, <1>4 DEF InPhase
  <2>3. \A j \in Runs : Mapped(j)' <=> Mapped(j)
    BY <2>1 DEF Mapped
  <2> QED BY <2>1, <2>2, <2>3, RegistryStays
<1> QED BY <1>5, <1>6, <1>7, <1>8, <1>9, <1>10 DEF RunsInv

LEMMA LaunchKeeps ==
  ASSUME ExInv, NEW k \in Runs, Launch(k)
  PROVE  [Next]_vars /\ RunsInv'
<1> DEFINE s == [run[k] EXCEPT !.phase = "created", !.mon = "sleep", !.due = clock + Control,
                               !.renew = clock + Renew, !.confirmed = clock + LeaseLen,
                               !.began = clock, !.displaced = tasks[run[k].proc]]
<1>1. run[k] \in RunRec /\ run \in [Runs -> RunRec] /\ RunOK(k) /\ InPhase(k, {"granted"})
      /\ ~InPhase(k, {"none"}) /\ run[k].proc \in Procs /\ tasks \in [Procs -> Runs \union {None}]
  BY RunNumbers DEF ExInv, RunsInv, ExTypeOK, Launch, InPhase
<1>2. /\ run' = [run EXCEPT ![k] = s] /\ tasks' = [tasks EXCEPT ![run[k].proc] = k]
      /\ UNCHANGED <<vars, calling, up>>
  BY DEF Launch, Becomes
<1>3. UNCHANGED <<clock, slot, claims, lastToken>>
  BY <1>2 DEF vars
<1>4. /\ s.phase = "created" /\ s.mon = "sleep" /\ s.due = clock + Control
      /\ s.renew = clock + Renew /\ s.confirmed = clock + LeaseLen
      /\ s.until = run[k].until /\ s.proc = run[k].proc /\ s.job = run[k].job
      /\ s.began = clock /\ s.displaced = tasks[s.proc]
  BY <1>1 DEF RunRec
<1>5. s \in RunRec
  <2>1. /\ clock \in Nat /\ clock + Control \in Nat /\ clock + Renew \in Nat
        /\ clock + LeaseLen \in Nat /\ tasks[run[k].proc] \in Runs \union {None}
    BY <1>1, Clocks, Intervals
  <2> QED BY <1>1, <2>1 DEF RunRec, Phases
<1>6. run'[k] = s
  BY <1>1, <1>2
<1> HIDE DEF s
<1>7. OnTime(s) /\ (Timely => clock + MaxSkew < s.until /\ InForce(s))
  BY <1>1, <1>4, FirstSleep
<1>8. Mapped(k)'
  BY <1>1, <1>2, <1>4, <1>6 DEF Mapped
<1>9. /\ k = lastToken /\ Leased => slot.lease = run[k].until
      /\ Timely => k = lastToken /\ Leased
  BY <1>1 DEF RunOK, JustGranted, Known, InPhase, Timely
<1>10. Caller(k)' = Caller(k) /\ Caller(k) \in claims /\ k <= lastToken
  BY <1>1, <1>4, <1>6, KnownCaller DEF Caller
<1>11. Known(k)'
  BY <1>3, <1>4, <1>6, <1>8, <1>9, <1>10 DEF Known, InPhase, Leased
<1>12. JustGranted(k)' /\ Late(k)'
  BY <1>3, <1>4, <1>6, <1>7 DEF JustGranted, Late, InPhase, OnTime
<1>13. Kept(k)'
  BY <1>3, <1>4, <1>6, <1>7, <1>9 DEF Kept, InForce, Timely, Leased
<1>14. RunOK(k)'
  BY <1>11, <1>12, <1>13 DEF RunOK
<1>15. s.phase \in InTask
  BY <1>4 DEF InTask
<1>16. RunsInv'
  BY <1>1, <1>2, <1>3, <1>4, <1>5, <1>14, <1>15, OneRun
<1> QED BY <1>2, <1>16

LEMMA QuietKeeps ==
  ASSUME ExInv, UNCHANGED <<clock, claims, lastToken, run, tasks>>,
         slot'.lease = slot.lease, Leased => slot'.job = slot.job,
         calling' \in [Procs -> BOOLEAN], up' \in [Procs -> {"up", "stopping", "stopped", "down"}]
  PROVE  RunsInv'
<1>1. \A j \in Runs : RunOK(j)'
  <2> TAKE j \in Runs
  <2>1. Mapped(j)' <=> Mapped(j)
    BY DEF Mapped
  <2> QED BY <2>1, Bystander, Clocks
<1>2. MapOK' /\ SlotRuns'
  BY DEF ExInv, RunsInv, MapOK, SlotRuns, Leased, InPhase
<1>3. ExTypeOK'
  BY DEF ExInv, RunsInv, ExTypeOK
<1>4. Registry'
  BY DEF ExInv, RunsInv, Registry, Overtaken, Mapped, InPhase
<1> QED BY <1>1, <1>2, <1>3, <1>4 DEF RunsInv

LEMMA MovedRecord ==
  ASSUME ExInv, NEW k \in Runs, NEW ph \in Phases
  PROVE  LET rec == [run[k] EXCEPT !.phase = ph, !.cancelled = FALSE]
         IN  /\ rec \in RunRec /\ rec.phase = ph /\ rec.proc = run[k].proc
             /\ rec.job = run[k].job /\ rec.until = run[k].until
             /\ rec.displaced = run[k].displaced
<1>1. run[k] \in RunRec
  BY RunNumbers
<1> QED BY <1>1 DEF RunRec

LEMMA CheckingKeeps ==
  ASSUME ExInv, NEW k \in Runs, InPhase(k, InTask), Moves(k, "checking"),
         UNCHANGED <<clock, claims, lastToken, tasks, calling, up>>,
         slot' = slot \/ (k = lastToken /\ slot'.lease = None)
  PROVE  RunsInv'
<1> DEFINE rec == [run[k] EXCEPT !.phase = "checking", !.cancelled = FALSE]
<1>1. /\ rec \in RunRec /\ rec.phase = "checking" /\ rec.proc = run[k].proc
      /\ rec.job = run[k].job /\ rec.until = run[k].until /\ rec.displaced = run[k].displaced
  BY MovedRecord DEF Phases
<1>2. Becomes(k, rec)
  BY DEF Moves
<1> HIDE DEF rec
<1> QED BY <1>1, <1>2, OutsideKeeps

LEMMA TaskKeeps ==
  ASSUME ExInv, NEW k \in Runs,
         StartLost(k) \/ Enter(k) \/ Emit(k) \/ Checkpoint(k) \/ Return(k)
  PROVE  [Next]_vars /\ RunsInv'
<1>1. UNCHANGED vars => UNCHANGED <<clock, slot, claims, lastToken>>
  BY DEF vars
<1>2. CASE StartLost(k)
  <2>1. UNCHANGED <<vars, calling, up>> /\ Over(k, "gone") /\ ~InPhase(k, {"none"})
    BY <1>2 DEF StartLost, InPhase
  <2> QED BY <1>1, <2>1, OverKeeps
<1>3. CASE Enter(k)
  <2>1. UNCHANGED <<vars, tasks, calling, up>> /\ Moves(k, "working") /\ ~run[k].cancelled
        /\ InPhase(k, {"created"})
    BY <1>3 DEF Enter
  <2>2. InPhase(k, InTask) /\ InPhase(k, {"created", "working"}) /\ "working" \in InTask
    BY <2>1 DEF InPhase, InTask
  <2>3. Becomes(k, [run[k] EXCEPT !.phase = "working", !.cancelled = FALSE])
    BY <2>1 DEF Moves
  <2>4. calling' \in [Procs -> BOOLEAN] /\ up' \in [Procs -> {"up", "stopping", "stopped", "down"}]
    BY <2>1 DEF ExInv, RunsInv, ExTypeOK
  <2>5. RunsInv'
    BY <1>1, <2>1, <2>2, <2>3, <2>4, GoesOnKeeps
  <2> QED BY <2>1, <2>5
<1>4. CASE Emit(k)
  <2>1. InPhase(k, InTask) /\ ~InPhase(k, {"none"})
    BY <1>4 DEF Emit, InPhase, InTask
  <2>2. CASE Owned(k)
    <3>1. AppendEvents(Caller(k), 1) /\ UNCHANGED <<run, tasks, calling, up>>
      BY <1>4, <2>2 DEF Emit
    <3>2. Caller(k) \in claims /\ 1 \in 1..MaxBatch
      BY <2>1, KnownCaller, StoreAssumption
    <3>3. Next
      BY <3>1, <3>2 DEF Next
    <3>4. UNCHANGED <<clock, slot, claims, lastToken>>
      BY <3>1 DEF AppendEvents
    <3>5. calling' \in [Procs -> BOOLEAN] /\ up' \in [Procs -> {"up", "stopping", "stopped", "down"}]
      BY <3>1 DEF ExInv, RunsInv, ExTypeOK
    <3> QED BY <3>1, <3>3, <3>4, <3>5, QuietKeeps
  <2>3. CASE ~Owned(k)
    <3>1. Moves(k, "checking") /\ UNCHANGED <<vars, tasks, calling, up>>
      BY <1>4, <2>3 DEF Emit
    <3> QED BY <1>1, <2>1, <3>1, CheckingKeeps
  <2> QED BY <2>2, <2>3
<1>5. CASE Checkpoint(k)
  <2>1. Moves(k, "checking") /\ UNCHANGED <<vars, tasks, calling, up>> /\ InPhase(k, InTask)
    BY <1>5 DEF Checkpoint, InPhase, InTask
  <2> QED BY <1>1, <2>1, CheckingKeeps
<1>6. CASE Return(k)
  <2>1. PICK ph \in {"finishing", "failing"}, st \in TERMINAL_STATUSES :
           Becomes(k, [run[k] EXCEPT !.phase = ph, !.status = st])
    BY <1>6 DEF Return, TERMINAL_STATUSES
  <2>2. UNCHANGED <<vars, tasks, calling, up>> /\ InPhase(k, InTask)
    BY <1>6 DEF Return, InPhase, InTask
  <2> DEFINE rec == [run[k] EXCEPT !.phase = ph, !.status = st]
  <2>3. run[k] \in RunRec /\ ph \in Phases
    BY RunNumbers DEF Phases
  <2>4. /\ rec \in RunRec /\ rec.phase = ph /\ rec.proc = run[k].proc /\ rec.job = run[k].job
        /\ rec.until = run[k].until /\ rec.displaced = run[k].displaced
    BY <2>3 DEF RunRec
  <2>5. Becomes(k, rec)
    BY <2>1
  <2> HIDE DEF rec
  <2> QED BY <1>1, <2>2, <2>4, <2>5, OutsideKeeps
<1> QED BY <1>2, <1>3, <1>4, <1>5, <1>6

LEMMA EndKeeps ==
  ASSUME ExInv, NEW k \in Runs,
         FinalizeCall(k) \/ Check(k) \/ CallFails(k) \/ Deliver(k)
  PROVE  [Next]_vars /\ RunsInv'
<1>1. UNCHANGED vars => UNCHANGED <<clock, slot, claims, lastToken>>
  BY DEF vars
<1>2. CASE FinalizeCall(k)
  <2>1. WritesOutcome(k) /\ Over(k, "gone") /\ UNCHANGED <<calling, up>> /\ ~InPhase(k, {"none"})
    BY <1>2 DEF FinalizeCall, InPhase
  <2> QED BY <2>1, WritesEffect, OverKeeps
<1>3. CASE Check(k)
  <2>1. UNCHANGED <<vars, calling, up>> /\ InPhase(k, InTask) /\ ~InPhase(k, {"none"})
    BY <1>3 DEF Check, InPhase, InTask
  <2>2. CASE Owned(k)
    <3>1. PICK st \in TERMINAL_STATUSES :
             Becomes(k, [run[k] EXCEPT !.phase = "closing", !.status = st]) /\ UNCHANGED tasks
      BY <1>3, <2>2 DEF Check, TERMINAL_STATUSES
    <3> DEFINE rec == [run[k] EXCEPT !.phase = "closing", !.status = st]
    <3>2. run[k] \in RunRec
      BY RunNumbers
    <3>3. /\ rec \in RunRec /\ rec.phase = "closing" /\ rec.proc = run[k].proc
          /\ rec.job = run[k].job /\ rec.until = run[k].until /\ rec.displaced = run[k].displaced
      BY <3>2 DEF RunRec, Phases
    <3>4. Becomes(k, rec)
      BY <3>1
    <3> HIDE DEF rec
    <3> QED BY <1>1, <2>1, <3>1, <3>3, <3>4, OutsideKeeps
  <2>3. CASE ~Owned(k)
    <3>1. Over(k, "gone")
      BY <1>3, <2>3 DEF Check
    <3> QED BY <1>1, <2>1, <3>1, OverKeeps
  <2> QED BY <2>2, <2>3
<1>4. CASE CallFails(k)
  <2>1. UNCHANGED <<vars, calling, up>> /\ ~InPhase(k, {"none"})
    BY <1>4 DEF CallFails, InPhase
  <2>2. CASE Over(k, "gone")
    BY <1>1, <2>1, <2>2, OverKeeps
  <2>3. CASE ~Over(k, "gone")
    <3> DEFINE rec == [run[k] EXCEPT !.phase = "failing", !.status = "error"]
    <3>1. InPhase(k, InTask) /\ Becomes(k, rec) /\ UNCHANGED tasks
      BY <1>4, <2>3 DEF CallFails, InPhase, InTask
    <3>2. run[k] \in RunRec
      BY RunNumbers
    <3>3. /\ rec \in RunRec /\ rec.phase = "failing" /\ rec.proc = run[k].proc
          /\ rec.job = run[k].job /\ rec.until = run[k].until /\ rec.displaced = run[k].displaced
      BY <3>2 DEF RunRec, Phases, TERMINAL_STATUSES
    <3> HIDE DEF rec
    <3> QED BY <1>1, <2>1, <3>1, <3>3, OutsideKeeps
  <2> QED BY <2>2, <2>3
<1>5. CASE Deliver(k)
  <2>1. UNCHANGED <<calling, up>> /\ ~InPhase(k, {"none"}) /\ (WritesOutcome(k) \/ UNCHANGED vars)
    BY <1>5 DEF Deliver, InPhase
  <2>2. /\ [Next]_vars /\ UNCHANGED <<clock, claims, lastToken>>
        /\ slot' = slot \/ (k = lastToken /\ slot'.lease = None)
    BY <2>1, WritesEffect
  <2>3. CASE InPhase(k, {"working", "finishing"})
    <3>1. Moves(k, "checking") /\ UNCHANGED tasks /\ InPhase(k, InTask)
      BY <1>5, <2>3 DEF Deliver, InPhase, InTask
    <3> QED BY <2>1, <2>2, <3>1, CheckingKeeps
  <2>4. CASE ~InPhase(k, {"working", "finishing"})
    <3>1. Over(k, "gone") \/ Over(k, "detached")
      BY <1>5, <2>4 DEF Deliver, InPhase
    <3> QED BY <2>1, <2>2, <3>1, OverKeeps
  <2> QED BY <2>3, <2>4
<1> QED BY <1>2, <1>3, <1>4, <1>5
-----------------------------------------------------------------------------
(* The steps of a replica. *)

LEMMA CancelsKeeps ==
  ASSUME ExInv, NEW p \in Procs,
         IF tasks[p] # None THEN Cancels(tasks[p]) ELSE UNCHANGED run,
         UNCHANGED <<clock, slot, claims, lastToken, tasks>>, calling' \in [Procs -> BOOLEAN],
         up' \in [Procs -> {"up", "stopping", "stopped", "down"}]
  PROVE  RunsInv'
<1>1. CASE tasks[p] = None
  BY <1>1, QuietKeeps
<1>2. CASE tasks[p] # None
  <2> DEFINE k == tasks[p]
  <2>1. k \in Runs /\ InPhase(k, InTask)
    BY <1>2 DEF ExInv, RunsInv, ExTypeOK, MapOK
  <2> HIDE DEF k
  <2>2. run[k] \in RunRec /\ run[k].phase \in InTask
    BY <2>1, RunNumbers DEF InPhase
  <2>3. Becomes(k, [run[k] EXCEPT !.cancelled = InPhase(k, InTask)])
    BY <1>2 DEF Cancels, k
  <2>4. [run[k] EXCEPT !.cancelled = InPhase(k, InTask)] =
           [run[k] EXCEPT !.phase = run[k].phase, !.cancelled = TRUE]
    <3>1. InPhase(k, InTask) = TRUE
      BY <2>1 DEF InPhase
    <3> QED BY <2>2, <3>1 DEF RunRec
  <2>5. Becomes(k, [run[k] EXCEPT !.phase = run[k].phase, !.cancelled = TRUE])
    BY <2>3, <2>4
  <2>6. run[k].phase \in {"created", "working"} => InPhase(k, {"created", "working"})
    BY DEF InPhase
  <2> QED BY <2>1, <2>2, <2>5, <2>6, GoesOnKeeps
<1> QED BY <1>1, <1>2

LEMMA DiesKeeps ==
  ASSUME ExInv, NEW p \in Procs, NEW state \in {"stopped", "down"}, Dies(p, state)
  PROVE  [Next]_vars /\ RunsInv'
<1>1. /\ run \in [Runs -> RunRec] /\ tasks \in [Procs -> Runs \union {None}]
      /\ calling \in [Procs -> BOOLEAN] /\ up \in [Procs -> {"up", "stopping", "stopped", "down"}]
      /\ \A j \in Runs : RunOK(j)
  BY DEF ExInv, RunsInv, ExTypeOK
<1>2. UNCHANGED <<clock, slot, claims, lastToken>> /\ UNCHANGED vars
  BY DEF Dies, vars
<1> DEFINE ends(j) == run[j].proc = p /\ run[j].phase # "none"
           rec(j) == Unwatched([run[j] EXCEPT !.phase = "gone", !.cancelled = FALSE, !.until = 0,
                                              !.began = 0])
<1>3. \A j \in Runs : run'[j] = IF ends(j) THEN rec(j) ELSE run[j]
  BY DEF Dies
<1>4. \A j \in Runs : /\ rec(j) \in RunRec /\ rec(j).phase = "gone"
                      /\ rec(j).proc = run[j].proc /\ rec(j).job = run[j].job
                      /\ rec(j).displaced = run[j].displaced
  <2> TAKE j \in Runs
  <2>1. run[j] \in RunRec
    BY <1>1
  <2> QED BY <2>1 DEF RunRec, Unwatched, Phases
<1> HIDE DEF rec
<1>5. tasks' = [tasks EXCEPT ![p] = None]
  BY DEF Dies
<1>6. \A j \in Runs : RunOK(j)'
  <2> TAKE j \in Runs
  <2>1. CASE ends(j)
    <3>1. run'[j] = rec(j) /\ ~InPhase(j, {"none"})
      BY <1>3, <2>1 DEF InPhase
    <3> QED BY <1>2, <1>4, <3>1, OverOK
  <2>2. CASE ~ends(j)
    <3>1. run'[j] = run[j] /\ run[j].proc \in Procs
      BY <1>3, <2>2, RunNumbers
    <3>2. Mapped(j)' => Mapped(j)
      BY <1>1, <1>5, <3>1, Intervals DEF Mapped
    <3> QED BY <1>2, <3>1, <3>2, Bystander, Clocks
  <2> QED BY <2>1, <2>2
<1>7. MapOK'
  <2> SUFFICES ASSUME NEW q \in Procs, tasks'[q] # None
               PROVE  run'[tasks'[q]].proc = q /\ run'[tasks'[q]].phase \in InTask
    BY DEF MapOK, InPhase
  <2>1. q # p /\ tasks'[q] = tasks[q] /\ tasks[q] \in Runs
    BY <1>1, <1>5
  <2>2. run[tasks[q]].proc = q /\ run[tasks[q]].phase \in InTask
    BY <2>1 DEF ExInv, RunsInv, MapOK, InPhase
  <2>3. run'[tasks[q]] = run[tasks[q]]
    BY <1>3, <2>1, <2>2
  <2> QED BY <2>1, <2>2, <2>3
<1>8. SlotRuns'
  <2>1. \A j \in Runs : run'[j].job = run[j].job
    BY <1>3, <1>4
  <2> QED BY <1>2, <2>1 DEF ExInv, RunsInv, SlotRuns, Leased
<1>9. ExTypeOK'
  <2>1. \A j \in Runs : run'[j] \in RunRec
    BY <1>1, <1>3, <1>4
  <2>2. run' \in [Runs -> RunRec]
    BY <2>1 DEF Dies
  <2>3. tasks' \in [Procs -> Runs \union {None}]
    BY <1>1, <1>5
  <2>4. calling' \in [Procs -> BOOLEAN] /\ up' \in [Procs -> {"up", "stopping", "stopped", "down"}]
    BY <1>1 DEF Dies
  <2> QED BY <2>2, <2>3, <2>4 DEF ExTypeOK
<1>10. Registry'
  <2>1. \A j \in Runs : run'[j].displaced = run[j].displaced
    BY <1>3, <1>4
  <2>2. ASSUME NEW j \in Runs, InPhase(j, InTask)'
        PROVE  InPhase(j, InTask) /\ (Mapped(j) => Mapped(j)')
    <3>1. ~ends(j) /\ run'[j] = run[j] /\ InPhase(j, InTask)
      BY <1>3, <1>4, <2>2 DEF InPhase, InTask
    <3>2. run[j].proc # p
      BY <3>1 DEF InPhase, InTask
    <3> QED BY <1>1, <1>5, <3>1, <3>2 DEF Mapped
  <2> QED BY <1>2, <2>1, <2>2, RegistryStays
<1> QED BY <1>2, <1>6, <1>7, <1>8, <1>9, <1>10 DEF RunsInv

LEMMA ReplicaKeeps ==
  ASSUME ExInv, NEW p \in Procs,
         Request(p) \/ CancelLocal(p) \/ Stop(p) \/ Stopped(p) \/ Crash(p) \/ Restart(p)
  PROVE  [Next]_vars /\ RunsInv'
<1>1. calling \in [Procs -> BOOLEAN] /\ up \in [Procs -> {"up", "stopping", "stopped", "down"}]
  BY DEF ExInv, RunsInv, ExTypeOK
<1>2. UNCHANGED vars => UNCHANGED <<clock, slot, claims, lastToken>>
  BY DEF vars
<1>3. CASE Request(p)
  <2>1. /\ RequestCancel /\ calling' = [calling EXCEPT ![p] = TRUE] /\ UNCHANGED <<run, tasks, up>>
    BY <1>3 DEF Request
  <2>2. Next /\ UNCHANGED <<clock, slot, claims, lastToken>>
    BY <2>1 DEF Next, RequestCancel
  <2>3. calling' \in [Procs -> BOOLEAN]
    BY <1>1, <2>1
  <2> QED BY <1>1, <2>1, <2>2, <2>3, QuietKeeps
<1>4. CASE CancelLocal(p)
  <2>1. /\ calling' = [calling EXCEPT ![p] = FALSE] /\ UNCHANGED <<vars, tasks, up>>
        /\ IF tasks[p] # None THEN Cancels(tasks[p]) ELSE UNCHANGED run
    BY <1>4 DEF CancelLocal
  <2>2. calling' \in [Procs -> BOOLEAN]
    BY <1>1, <2>1
  <2> QED BY <1>1, <1>2, <2>1, <2>2, CancelsKeeps
<1>5. CASE Stop(p)
  <2>1. /\ up' = [up EXCEPT ![p] = "stopping"] /\ UNCHANGED <<vars, tasks, calling>>
        /\ IF tasks[p] # None THEN Cancels(tasks[p]) ELSE UNCHANGED run
    BY <1>5 DEF Stop
  <2>2. up' \in [Procs -> {"up", "stopping", "stopped", "down"}]
    BY <1>1, <2>1
  <2> QED BY <1>1, <1>2, <2>1, <2>2, CancelsKeeps
<1>6. CASE Stopped(p) \/ Crash(p)
  BY <1>6, DiesKeeps DEF Stopped, Crash
<1>7. CASE Restart(p)
  <2>1. up' = [up EXCEPT ![p] = "up"] /\ UNCHANGED <<vars, run, tasks, calling>>
    BY <1>7 DEF Restart
  <2>2. up' \in [Procs -> {"up", "stopping", "stopped", "down"}]
    BY <1>1, <2>1
  <2> QED BY <1>1, <1>2, <2>1, <2>2, QuietKeeps
<1> QED BY <1>3, <1>4, <1>5, <1>6, <1>7

LEMMA JanitorKeeps ==
  ASSUME ExInv, Janitor
  PROVE  [Next]_vars /\ RunsInv'
<1>1. UNCHANGED <<run, tasks, calling, up>>
  BY DEF Janitor, local
<1>2. PICK now \in Now : InterruptExpired(now) \/ (Expired(now) # {} /\ Cleanup(Expired(now), now))
  BY DEF Janitor
<1>3. calling' \in [Procs -> BOOLEAN] /\ up' \in [Procs -> {"up", "stopping", "stopped", "down"}]
  BY <1>1 DEF ExInv, RunsInv, ExTypeOK
<1>4. CASE InterruptExpired(now)
  <2>1. Next
    BY <1>4 DEF Next
  <2>2. UNCHANGED <<clock, claims, lastToken>> /\ slot'.lease = None /\ slot.lease <= now
    BY <1>4 DEF InterruptExpired, FreeSlot, Lapsed
  <2>3. Leased => slot.lease <= clock + MaxSkew
    BY <2>2, Clocks, Intervals
  <2>4. \A j \in Runs : RunOK(j)'
    <3> TAKE j \in Runs
    <3>1. (Failures \/ ~InPhase(j, {"granted"})) /\ ~(Timely /\ Watched(j))
      BY <2>3, Lapse
    <3>2. Mapped(j)' <=> Mapped(j)
      BY <1>1 DEF Mapped
    <3> QED BY <1>1, <2>2, <3>1, <3>2, Bystander, Clocks
  <2>5. MapOK' /\ SlotRuns' /\ Registry'
    BY <1>1, <2>2 DEF ExInv, RunsInv, MapOK, SlotRuns, Leased, InPhase, Registry, Overtaken, Mapped
  <2>6. ExTypeOK'
    BY <1>1 DEF ExInv, RunsInv, ExTypeOK
  <2> QED BY <2>1, <2>4, <2>5, <2>6 DEF RunsInv
<1>5. CASE Expired(now) # {} /\ Cleanup(Expired(now), now)
  <2>1. Expired(now) \in SUBSET Jobs
    BY DEF Expired
  <2>2. Next
    BY <1>5, <2>1 DEF Next
  <2>3. UNCHANGED <<clock, claims, lastToken>> /\ Detach(Expired(now))
    BY <1>5 DEF Cleanup
  <2>4. slot \in SlotRow
    BY DEF ExInv, IInv, TypeOK
  <2>5. slot'.lease = slot.lease
    BY <2>3, <2>4 DEF Detach, SlotRow
  <2>6. Leased => slot'.job = slot.job
    <3> SUFFICES ASSUME Leased
                 PROVE  slot'.job = slot.job
      OBVIOUS
    <3>1. slot.job \notin Expired(now)
      BY LeasedSlot DEF Expired, Terminal, Running, TERMINAL_STATUSES
    <3> QED BY <2>3, <2>4, <3>1 DEF Detach, SlotRow
  <2> QED BY <1>1, <1>3, <2>2, <2>3, <2>5, <2>6, QuietKeeps
<1> QED BY <1>2, <1>4, <1>5
-----------------------------------------------------------------------------
(* Time passes: nothing prompt is left to do. *)

LEMMA TickKeeps ==
  ASSUME ExInv, ExTick
  PROVE  [Next]_vars /\ RunsInv'
<1>1. clock' = clock + 1 /\ UNCHANGED <<slot, job, events, claims, lastToken, run, tasks, calling, up>>
  BY DEF ExTick, Tick, local
<1>2. Next
  BY DEF ExTick, Next
<1>3. \A j \in Runs : RunOK(j)'
  <2> TAKE j \in Runs
  <2> DEFINE r == run[j]
  <2>1. /\ clock \in Nat /\ r.due \in Nat /\ r.renew \in Nat /\ r.confirmed \in Nat /\ r.until \in Nat
    BY Clocks, RunNumbers
  <2>2. RunOK(j)
    BY DEF ExInv, RunsInv
  <2>3. /\ ~r.cancelled
        /\ (r.mon # "off" \/ InPhase(j, {"granted"})) => clock < r.due
    <3>1. ~r.cancelled /\ ((r.mon # "off" \/ InPhase(j, {"granted"})) => r.due > clock)
      BY DEF ExTick, Prompt
    <3> QED BY <2>1, <3>1
  <2>4. Known(j)'
    BY <1>1, <2>2 DEF RunOK, Known, InPhase, Caller, Leased
  <2>5. JustGranted(j)'
    BY <1>1, <2>1, <2>2, <2>3 DEF RunOK, JustGranted, InPhase, Leased
  <2>6. Watched(j)' <=> Watched(j)
    BY <1>1 DEF Watched, InPhase, Mapped
  <2>7. Watched(j) => r.mon # "off"
    BY <2>2, <2>3 DEF RunOK, Late
  <2>8. Watched(j) => OnTime(r)'
    <3> SUFFICES ASSUME Watched(j)
                 PROVE  OnTime(r)'
      OBVIOUS
    <3>1. OnTime(r) /\ clock + 1 <= r.due
      BY <2>1, <2>2, <2>3, <2>7 DEF RunOK, Late
    <3>2. r' = r /\ Window(r) \in Nat
      BY <1>1, RunNumbers, WindowIs
    <3> HIDE DEF r
    <3> QED BY <1>1, <2>1, <3>1, <3>2, Intervals DEF OnTime, Window
  <2>9. Late(j)'
    BY <1>1, <2>6, <2>7, <2>8 DEF Late
  <2>10. Kept(j)'
    <3> SUFFICES ASSUME Timely, Watched(j)
                 PROVE  /\ j = lastToken /\ Leased /\ clock + 1 + MaxSkew < r.until
                        /\ InForce(r)
      BY <1>1, <2>6, <2>7 DEF Kept, Timely, Leased, InForce
    <3>1. j = lastToken /\ Leased /\ InForce(r) /\ clock < r.due
      BY <2>2, <2>3, <2>7 DEF RunOK, Kept
    <3>2. clock + 1 + MaxSkew < r.until
      BY <2>1, <3>1, Intervals DEF InForce
    <3> QED BY <3>1, <3>2
  <2> QED BY <2>4, <2>5, <2>9, <2>10 DEF RunOK
<1>4. MapOK' /\ SlotRuns' /\ ExTypeOK' /\ Registry'
  BY <1>1 DEF ExInv, RunsInv, ExTypeOK, MapOK, SlotRuns, Leased, InPhase, Registry, Overtaken, Mapped
<1> QED BY <1>2, <1>3, <1>4 DEF RunsInv

(* A claim commits: whoever had the job has lost it by now. *)
LEMMA ClaimKeeps ==
  ASSUME ExInv, NEW p \in Procs, Claim(p)
  PROVE  [Next]_vars /\ RunsInv'
<1>1. PICK now \in Now :
         /\ ClaimRecover(now) \/ \E j \in Jobs : ClaimNew(j, now)
         /\ Becomes(lastToken', [NoRun EXCEPT !.phase = "granted", !.proc = p, !.job = slot'.job,
                                              !.due = AnswerTime, !.until = now + LeaseLen])
  BY DEF Claim
<1>2. lastToken + 1 \in Runs
  <2>1. lastToken < MaxToken
    BY <1>1 DEF ClaimRecover, ClaimNew, TakeSlot
  <2> QED BY <2>1, Clocks, Intervals DEF Runs
<1>3. PICK k \in Runs : k = lastToken + 1
  BY <1>2
<1> DEFINE rec == [NoRun EXCEPT !.phase = "granted", !.proc = p, !.job = slot'.job,
                                !.due = AnswerTime, !.until = now + LeaseLen]
<1>4. UNCHANGED <<tasks, calling, up>> /\ clock' = clock
  BY <1>1 DEF Claim, ClaimRecover, ClaimNew
<1>5. Next
  BY <1>1 DEF Next
<1>6. PICK j \in Jobs : TakeSlot(j, now)
  <2>1. CurrentRuns => slot.job \in Jobs
    BY DEF CurrentRuns, ExInv, IInv, TypeOK, SlotRow
  <2> QED BY <1>1, <2>1 DEF ClaimRecover, ClaimNew
<1>7. /\ lastToken < MaxToken /\ lastToken' = k
      /\ slot' = [job |-> j, token |-> k, lease |-> now + LeaseLen]
      /\ claims' = claims \union {[job |-> j, token |-> k]}
      /\ slot.lease = None \/ slot.lease <= now
  BY <1>6, <1>3 DEF TakeSlot
<1>8. clock \in Nat /\ lastToken \in Nat /\ now \in Nat /\ now <= clock + MaxSkew /\ clock <= now + MaxSkew
  BY Clocks
<1>9. k \in Runs /\ now + LeaseLen # None
  BY <1>8, Intervals DEF None
<1>10. Leased => slot.lease <= clock + MaxSkew
  BY <1>7, <1>8, Clocks, Intervals DEF Leased
<1>11. /\ rec.phase = "granted" /\ rec.proc = p /\ rec.job = j /\ rec.due = AnswerTime
       /\ rec.until = now + LeaseLen /\ rec.mon = "off" /\ rec.displaced = None /\ rec \in RunRec
  <2>1. slot'.job = j /\ AnswerTime \in Nat /\ now + LeaseLen \in Nat
    BY <1>7, <1>8, Intervals DEF AnswerTime
  <2>2. (CHOOSE q \in Procs : TRUE) \in Procs
    BY ExecutorAssumption
  <2> QED BY <2>1, <2>2 DEF NoRun, RunRec, Phases, TERMINAL_STATUSES
<1>12. /\ run \in [Runs -> RunRec] /\ tasks \in [Procs -> Runs \union {None}] /\ MapOK
       /\ \A i \in Runs : RunOK(i)
  BY DEF ExInv, RunsInv, ExTypeOK
<1>13. run' = [run EXCEPT ![k] = rec] /\ run'[k] = rec /\ \A i \in Runs \ {k} : run'[i] = run[i]
  BY <1>1, <1>7, <1>9, <1>12 DEF Becomes
<1> HIDE DEF rec
<1>14. InPhase(k, {"none"})
  <2>1. ~(k <= lastToken)
    BY <1>8, <1>3
  <2> QED BY <1>9, <1>12, <2>1 DEF RunOK, Known
<1>15. \A q \in Procs : tasks[q] # k
  BY <1>9, <1>12, <1>14, Intervals DEF MapOK, InPhase, InTask
<1>16. \A i \in Runs \ {k} : RunOK(i)'
  <2> TAKE i \in Runs \ {k}
  <2>1. (Failures \/ ~InPhase(i, {"granted"})) /\ ~(Timely /\ Watched(i))
    BY <1>10, Lapse
  <2>2. Mapped(i)' <=> Mapped(i)
    BY <1>4, <1>13 DEF Mapped
  <2>3. lastToken' \in Nat /\ lastToken <= lastToken'
    BY <1>7, <1>8, <1>3
  <2>4. claims \subseteq claims' /\ i # lastToken'
    BY <1>7
  <2> QED BY <1>4, <1>13, <2>1, <2>2, <2>3, <2>4, Bystander
<1>17. RunOK(k)'
  <2>1. Caller(k)' \in claims'
    BY <1>7, <1>11, <1>13 DEF Caller
  <2>2. Known(k)'
    BY <1>7, <1>8, <1>11, <1>13, <1>3, <2>1 DEF Known, InPhase, InTask
  <2>3. JustGranted(k)'
    BY <1>4, <1>7, <1>8, <1>9, <1>11, <1>13, Intervals DEF JustGranted, Leased, AnswerTime
  <2> QED BY <1>11, <1>13, <2>2, <2>3 DEF RunOK, Late, Kept, Watched, InPhase
<1>18. \A i \in Runs : RunOK(i)'
  BY <1>16, <1>17
<1>19. MapOK'
  BY <1>4, <1>12, <1>13, <1>15 DEF MapOK, InPhase
<1>20. SlotRuns'
  BY <1>7, <1>9, <1>11, <1>13 DEF SlotRuns
<1>21. ExTypeOK'
  BY <1>4, <1>11, <1>12, <1>13 DEF ExInv, RunsInv, ExTypeOK
<1>22. Registry'
  BY <1>7, <1>11, <1>13 DEF Registry, InPhase, InTask
<1> QED BY <1>5, <1>18, <1>19, <1>20, <1>21, <1>22 DEF RunsInv
-----------------------------------------------------------------------------
(* The steps of a monitor. *)

LEMMA MonitorKeeps ==
  ASSUME ExInv, NEW k \in Runs, run[k].mon # "off", NEW rec \in RunRec, Becomes(k, rec),
         UNCHANGED <<clock, claims, lastToken, tasks, calling, up>>,
         rec.phase = run[k].phase, rec.proc = run[k].proc, rec.job = run[k].job,
         rec.displaced = run[k].displaced,
         \/ slot' = slot /\ rec.until = run[k].until
         \/ k = lastToken /\ Leased /\ slot'.job = slot.job /\ slot'.lease = rec.until,
         Watched(k) => /\ rec.mon # "off" => OnTime(rec)
                       /\ rec.mon = "off" => rec.cancelled /\ clock < Window(rec) + Slack,
         Timely /\ Watched(k) => /\ clock + MaxSkew < rec.until
                                 /\ rec.mon # "off" => InForce(rec)
  PROVE  RunsInv'
<1>1. run' = [run EXCEPT ![k] = rec] /\ run'[k] = rec /\ rec.until \in Nat
  BY DEF Becomes, ExInv, RunsInv, ExTypeOK, RunRec
<1>2. RunOK(k) /\ ~InPhase(k, {"none"})
  BY DEF ExInv, RunsInv, RunOK, Known
<1>3. \A phases : InPhase(k, phases)' <=> InPhase(k, phases)
  BY <1>1 DEF InPhase
<1>4. Watched(k)' <=> Watched(k)
  BY <1>1 DEF Watched, InPhase, Mapped
<1>5. RunOK(k)'
  <2>1. CASE InPhase(k, InTask)
    <3>1. run'[k].phase \in InTask
      BY <1>1, <2>1 DEF InPhase
    <3>2. k = lastToken /\ slot'.lease # None => slot'.lease = rec.until
      BY <1>2, <2>1 DEF RunOK, Known, Leased, InPhase
    <3>3. Timely /\ Watched(k) => k = lastToken /\ slot'.lease # None
      BY <1>1, <1>2, Intervals DEF RunOK, Kept, Leased, None
    <3> QED BY <1>1, <1>4, <2>1, <3>1, <3>2, <3>3, InsideOK
  <2>2. CASE ~InPhase(k, InTask)
    <3>1. ~InPhase(k, {"granted"})
      BY <1>2 DEF RunOK, JustGranted
    <3>2. ~InPhase(k, {"granted"} \union InTask)
      BY <2>2, <3>1 DEF InPhase
    <3>3. Caller(k)' = Caller(k) /\ Caller(k) \in claims /\ k <= lastToken
      BY <1>1, <1>2, KnownCaller DEF Caller
    <3>4. Known(k)' /\ JustGranted(k)'
      BY <1>2, <1>3, <2>2, <3>1, <3>2, <3>3 DEF Known, JustGranted
    <3>5. ~Watched(k)'
      BY <1>4, <2>2 DEF Watched, InPhase, InTask
    <3> QED BY <3>4, <3>5 DEF RunOK, Late, Kept
  <2> QED BY <2>1, <2>2
<1>6. (rec.phase \in InTask \/ ~Mapped(k)) /\ (rec.phase \in InTask => InPhase(k, InTask))
  BY RunNumbers, Intervals DEF ExInv, RunsInv, MapOK, Mapped, InPhase
<1>7. \/ slot'.lease = slot.lease /\ (Leased => slot'.job = slot.job)
      \/ k = lastToken /\ (slot'.lease # None => slot'.job = slot.job /\ Leased)
  OBVIOUS
<1> QED BY <1>1, <1>5, <1>6, <1>7, OneRun

(* A look: a renewal that reaches the database extends the lease it wrote.  *)
LEMMA AskKeeps ==
  ASSUME ExInv, NEW k \in Runs, Ask(k)
  PROVE  [Next]_vars /\ RunsInv'
<1> DEFINE Replies == {"owned", "renewed", "cancel", "lost", "fail"}
           asked(reply) == [run[k] EXCEPT !.mon = "asked", !.due = clock + OpTimeout,
                                          !.reply = reply]
<1>1. /\ run[k] \in RunRec /\ run[k].mon = "sleep" /\ RunOK(k) /\ ~InPhase(k, {"none"})
      /\ UNCHANGED <<tasks, calling, up>>
  BY RunNumbers DEF ExInv, RunsInv, RunOK, Known, Ask
<1>2. /\ Caller(k) \in claims
      /\ Fenced(Caller(k)) => Owned(k)
      /\ Owned(k) <=> Leased /\ k = lastToken
  BY <1>1, KnownCaller, OwnedIs
<1>3. Timely /\ Watched(k) => Owned(k) /\ clock + MaxSkew < run[k].until /\ ~Failures
  BY <1>1, <1>2 DEF RunOK, Kept, Timely
<1>4. clock + OpTimeout \in Nat
  BY Clocks, Intervals
<1>5. \A reply \in Replies :
         /\ asked(reply) \in RunRec /\ asked(reply).mon = "asked"
         /\ asked(reply).due = clock + OpTimeout /\ asked(reply).reply = reply
         /\ asked(reply).renew = run[k].renew /\ asked(reply).confirmed = run[k].confirmed
         /\ asked(reply).until = run[k].until /\ asked(reply).phase = run[k].phase
         /\ asked(reply).proc = run[k].proc /\ asked(reply).job = run[k].job
         /\ asked(reply).began = run[k].began /\ asked(reply).displaced = run[k].displaced
  BY <1>1, <1>4 DEF RunRec
<1>6. ASSUME NEW reply \in Replies, Becomes(k, asked(reply)), UNCHANGED vars,
             reply # "renewed", reply = "owned" => Owned(k) /\ ~Renewing(k),
             Owned(k) => (reply \in {"owned", "cancel"} /\ ~Renewing(k)) \/ Failures
      PROVE  RunsInv'
  <2>1. UNCHANGED <<clock, slot, claims, lastToken>>
    BY <1>6 DEF vars
  <2> DEFINE rec == asked(reply)
  <2>2. /\ rec \in RunRec /\ rec.mon = "asked"
        /\ rec.due = clock + OpTimeout /\ rec.reply = reply
        /\ rec.renew = run[k].renew /\ rec.confirmed = run[k].confirmed
        /\ rec.until = run[k].until /\ rec.phase = run[k].phase
        /\ rec.began = run[k].began /\ rec.displaced = run[k].displaced
        /\ rec.proc = run[k].proc /\ rec.job = run[k].job /\ Becomes(k, rec)
    BY <1>5, <1>6
  <2> HIDE DEF rec
  <2>3. Watched(k) => /\ OnTime(rec)
                      /\ Timely /\ reply \in {"owned", "cancel"} /\ ~Renewing(k) => InForce(rec)
    BY <1>1, <1>6, <2>2, LooksOnTime
  <2>4. Timely /\ Watched(k) => clock + MaxSkew < rec.until /\ InForce(rec)
    BY <1>3, <1>6, <2>2, <2>3
  <2> QED BY <1>1, <2>1, <2>2, <2>3, <2>4, MonitorKeeps
<1>7. CASE ~(Renewing(k) /\ Owned(k)) /\ Becomes(k, asked(Reply(k, "owned"))) /\ UNCHANGED vars
  <2>1. /\ Reply(k, "owned") \in Replies /\ Reply(k, "owned") # "renewed"
        /\ Reply(k, "owned") = "owned" => Owned(k)
        /\ Owned(k) => Reply(k, "owned") \in {"owned", "cancel"}
    BY DEF Reply
  <2> QED BY <1>6, <1>7, <2>1
<1>8. CASE Failures /\ Becomes(k, asked("fail")) /\ UNCHANGED vars
  BY <1>6, <1>8
<1>9. ASSUME NEW now \in Now, NEW reply \in {Reply(k, "renewed")} \union (IF Failures THEN {"fail"} ELSE {}),
             Renewing(k), Heartbeat(Caller(k), now),
             Becomes(k, [asked(reply) EXCEPT !.until = now + LeaseLen])
      PROVE  [Next]_vars /\ RunsInv'
  <2>1. Next
    BY <1>2, <1>9 DEF Next
  <2>2. /\ UNCHANGED <<clock, claims, lastToken>> /\ slot' = [slot EXCEPT !.lease = now + LeaseLen]
        /\ Fenced(Caller(k)) /\ slot \in SlotRow
    BY <1>9 DEF Heartbeat, ExInv, IInv, TypeOK
  <2>3. slot'.job = slot.job /\ slot'.lease = now + LeaseLen
    BY <2>2 DEF SlotRow
  <2>4. Owned(k) /\ Leased /\ k = lastToken
    BY <1>2, <2>2
  <2>5. reply \in Replies /\ reply # "owned" /\ (~Failures => reply \in {"renewed", "cancel"})
    BY <1>9, <2>4 DEF Reply
  <2> DEFINE rec == [asked(reply) EXCEPT !.until = now + LeaseLen]
  <2>6. now + LeaseLen \in Nat
    BY Clocks, Intervals
  <2>7. /\ rec \in RunRec /\ rec.mon = "asked"
        /\ rec.due = clock + OpTimeout /\ rec.reply = reply
        /\ rec.renew = run[k].renew /\ rec.confirmed = run[k].confirmed
        /\ rec.until = now + LeaseLen /\ rec.phase = run[k].phase
        /\ rec.began = run[k].began /\ rec.displaced = run[k].displaced
        /\ rec.proc = run[k].proc /\ rec.job = run[k].job /\ Becomes(k, rec)
    <3> HIDE DEF asked
    <3> QED BY <1>5, <1>9, <2>5, <2>6 DEF RunRec
  <2> HIDE DEF rec
  <2>8. Watched(k) => /\ OnTime(rec)
                      /\ Timely /\ reply \in {"renewed", "cancel"} =>
                            clock + MaxSkew < rec.until /\ InForce(rec)
    BY <1>1, <1>9, <2>5, <2>7, RenewsOnTime
  <2>9. Timely /\ Watched(k) => clock + MaxSkew < rec.until /\ InForce(rec)
    BY <1>3, <2>5, <2>8
  <2> QED BY <1>1, <2>1, <2>2, <2>3, <2>4, <2>7, <2>8, <2>9, MonitorKeeps
<1>10. \/ ~(Renewing(k) /\ Owned(k)) /\ Becomes(k, asked(Reply(k, "owned"))) /\ UNCHANGED vars
       \/ Failures /\ Becomes(k, asked("fail")) /\ UNCHANGED vars
       \/ /\ Renewing(k)
          /\ \E now \in Now, reply \in {Reply(k, "renewed")} \union (IF Failures THEN {"fail"} ELSE {}) :
                /\ Heartbeat(Caller(k), now)
                /\ Becomes(k, [asked(reply) EXCEPT !.until = now + LeaseLen])
  BY DEF Ask
<1> QED BY <1>7, <1>8, <1>9, <1>10

(* An answer: the monitor tells its task, ends, or sleeps again. *)
LEMMA AnswerKeeps ==
  ASSUME ExInv, NEW k \in Runs, Answer(k)
  PROVE  [Next]_vars /\ RunsInv'
<1> DEFINE r == run[k].reply
           told == (r \in {"lost", "cancel"}) \/ (r = "fail" /\ GivesUp(k))
           slept == [run[k] EXCEPT !.mon = "sleep", !.due = clock + Control, !.reply = "owned"]
           tells == Unwatched([run[k] EXCEPT !.cancelled = TRUE])
           renewed == [slept EXCEPT !.renew = clock + Renew, !.confirmed = clock + LeaseLen]
<1>1. /\ run[k] \in RunRec /\ run[k].mon = "asked" /\ RunOK(k)
      /\ UNCHANGED <<vars, tasks, calling, up>>
  BY RunNumbers DEF ExInv, RunsInv, Answer
<1>2. UNCHANGED <<clock, slot, claims, lastToken, tasks, calling, up>>
  BY <1>1 DEF vars
<1>3. /\ clock \in Nat /\ run[k].due \in Nat /\ run[k].until \in Nat
      /\ clock + Control \in Nat /\ clock + Renew \in Nat /\ clock + LeaseLen \in Nat
  BY Clocks, RunNumbers, Intervals
<1>4. Watched(k) => OnTime(run[k])
  BY <1>1 DEF RunOK, Late
<1>5. Timely /\ Watched(k) => clock + MaxSkew < run[k].until
  BY <1>1 DEF RunOK, Kept
<1>6. CASE told
  <2>1. /\ tells \in RunRec /\ tells.mon = "off" /\ tells.cancelled
        /\ tells.until = run[k].until /\ tells.phase = run[k].phase
        /\ tells.began = run[k].began /\ tells.displaced = run[k].displaced
        /\ tells.proc = run[k].proc /\ tells.job = run[k].job
    BY <1>1 DEF Unwatched, RunRec
  <2>2. Becomes(k, tells)
    BY <1>6 DEF Answer
  <2> HIDE DEF tells
  <2>3. Watched(k) => clock < Window(tells) + Slack
    <3>1. Window(tells) = Window(run[k]) /\ Window(run[k]) \in Nat
      BY <2>1, RunNumbers, WindowIs DEF Window
    <3> QED BY <1>3, <1>4, <3>1, Intervals DEF OnTime
  <2> QED BY <1>1, <1>2, <1>5, <2>1, <2>2, <2>3, MonitorKeeps
<1>7. CASE ~told /\ ~Mapped(k)
  <2> DEFINE rec == Unwatched(run[k])
  <2>1. /\ rec \in RunRec /\ rec.mon = "off" /\ rec.until = run[k].until
        /\ rec.phase = run[k].phase /\ rec.proc = run[k].proc /\ rec.job = run[k].job
        /\ rec.displaced = run[k].displaced
    BY <1>1 DEF Unwatched, RunRec
  <2>2. Becomes(k, rec)
    BY <1>7 DEF Answer, Mapped
  <2>3. ~Watched(k)
    BY <1>7 DEF Watched
  <2> HIDE DEF rec
  <2> QED BY <1>1, <1>2, <2>1, <2>2, <2>3, MonitorKeeps
<1>8. ASSUME NEW rec \in RunRec, Becomes(k, rec), ~told, rec.mon = "sleep",
             rec.due = clock + Control, rec.until = run[k].until,
             rec.phase = run[k].phase, rec.proc = run[k].proc, rec.job = run[k].job,
             rec.began = run[k].began, rec.displaced = run[k].displaced,
             \/ r # "renewed" /\ rec.renew = run[k].renew /\ rec.confirmed = run[k].confirmed
             \/ r = "renewed" /\ rec.renew = clock + Renew /\ rec.confirmed = clock + LeaseLen
      PROVE  RunsInv'
  <2>1. r \in {"owned", "renewed"} \/ (r = "fail" /\ ~GivesUp(k))
    BY <1>1, <1>8 DEF RunRec
  <2>2. Watched(k) => OnTime(rec) /\ (Timely => InForce(rec))
    BY <1>1, <1>8, <2>1, SleepsOnTime
  <2> QED BY <1>1, <1>2, <1>5, <1>8, <2>2, MonitorKeeps
<1>9. /\ slept \in RunRec /\ slept.mon = "sleep" /\ slept.due = clock + Control
      /\ slept.until = run[k].until /\ slept.phase = run[k].phase /\ slept.proc = run[k].proc
      /\ slept.job = run[k].job /\ slept.renew = run[k].renew /\ slept.confirmed = run[k].confirmed
      /\ slept.began = run[k].began /\ slept.displaced = run[k].displaced
  BY <1>1, <1>3 DEF RunRec
<1>10. CASE ~told /\ Mapped(k) /\ r # "renewed"
  <2>1. Becomes(k, slept)
    BY <1>10 DEF Answer, Mapped
  <2> HIDE DEF slept
  <2> QED BY <1>1, <1>8, <1>9, <1>10, <2>1
<1>11. CASE ~told /\ Mapped(k) /\ r = "renewed"
  <2>1. Becomes(k, renewed)
    BY <1>11 DEF Answer, Mapped
  <2> HIDE DEF slept
  <2>2. /\ renewed \in RunRec /\ renewed.mon = "sleep" /\ renewed.due = clock + Control
        /\ renewed.until = run[k].until /\ renewed.phase = run[k].phase
        /\ renewed.proc = run[k].proc /\ renewed.job = run[k].job
        /\ renewed.began = run[k].began /\ renewed.displaced = run[k].displaced
        /\ renewed.renew = clock + Renew /\ renewed.confirmed = clock + LeaseLen
    BY <1>3, <1>9 DEF RunRec
  <2> HIDE DEF renewed
  <2> QED BY <1>1, <1>8, <1>11, <2>1, <2>2
<1>12. RunsInv'
  BY <1>6, <1>7, <1>10, <1>11
<1> QED BY <1>1, <1>12
-----------------------------------------------------------------------------
LEMMA InitExInv == ASSUME ExInit PROVE ExInv
<1>1. IInv
  BY InitIInv DEF ExInit
<1>2. ExTypeOK
  <2>1. NoRun \in RunRec
    BY ExecutorAssumption DEF NoRun, RunRec, Phases, TERMINAL_STATUSES
  <2> QED BY <2>1 DEF ExInit, ExTypeOK
<1>3. \A k \in Runs : RunOK(k)
  BY DEF ExInit, NoRun, RunOK, Known, JustGranted, Late, Kept, Watched, InPhase, InTask
<1>4. MapOK /\ SlotRuns /\ Registry
  BY DEF ExInit, Init, MapOK, SlotRuns, Leased, Registry, NoRun, InPhase, InTask
<1> QED BY <1>1, <1>2, <1>3, <1>4 DEF ExInv, RunsInv

LEMMA StepExInv == ASSUME ExInv, [ExNext]_exvars PROVE [Next]_vars /\ ExInv'
<1>1. [Next]_vars /\ RunsInv'
  <2>1. ASSUME NEW p \in Procs, Claim(p) \/ Request(p) \/ CancelLocal(p) \/ Stop(p)
                                   \/ Stopped(p) \/ Crash(p) \/ Restart(p)
        PROVE  [Next]_vars /\ RunsInv'
    BY <2>1, ClaimKeeps, ReplicaKeeps
  <2>2. ASSUME NEW k \in Runs, RunStep(k)
        PROVE  [Next]_vars /\ RunsInv'
    BY <2>2, LaunchKeeps, TaskKeeps, EndKeeps DEF RunStep
  <2>3. ASSUME NEW k \in Runs, MonitorStep(k)
        PROVE  [Next]_vars /\ RunsInv'
    BY <2>3, AskKeeps, AnswerKeeps DEF MonitorStep
  <2>4. CASE UNCHANGED exvars
    <3>1. UNCHANGED vars /\ UNCHANGED <<clock, slot, claims, lastToken, run, tasks, calling, up>>
      BY <2>4 DEF exvars, vars
    <3>2. /\ calling' \in [Procs -> BOOLEAN]
          /\ up' \in [Procs -> {"up", "stopping", "stopped", "down"}]
      BY <3>1 DEF ExInv, RunsInv, ExTypeOK
    <3> QED BY <3>1, <3>2, QuietKeeps
  <2> QED BY <2>1, <2>2, <2>3, <2>4, TickKeeps, JanitorKeeps DEF ExNext
<1>2. IInv'
  BY <1>1, StepIInv DEF ExInv
<1> QED BY <1>1, <1>2 DEF ExInv

(* ExInv is an invariant of the executor: every run's task is registered    *)
(* where it should be, and its monitor is never later than OnTime says.     *)
THEOREM ExecutorInvariant == ExSpec => []ExInv
BY InitExInv, StepExInv, PTL DEF ExSpec

(* The executor uses the tables only through the store's transactions, so   *)
(* every theorem about the store's behaviours is one about the executor's.  *)
THEOREM ExecutorUsesStore == ExSpec => Spec
<1>1. ExInit => Init
  BY DEF ExInit
<1>2. ExInv /\ [ExNext]_exvars => [Next]_vars
  BY StepExInv
<1> QED BY <1>1, <1>2, ExecutorInvariant, PTL DEF ExSpec, Spec

(* So what callers of the executor observe of a scope's jobs, through       *)
(* crashes, cancellations and failed calls, is what JobContract promises.   *)
THEOREM ExecutorImplementsContract == ExSpec => ImplementsContract
BY ExecutorUsesStore, StoreImplementsContract, PTL

(* The executor's variables always have their types. *)
THEOREM ExecutorTypes == ExSpec => []ExTypeOK
<1>1. ExInv => ExTypeOK
  BY DEF ExInv, RunsInv
<1> QED BY <1>1, ExecutorInvariant, PTL

(* The run that owns the job is the one its replica's map holds, so that    *)
(* cancel and stop reach it (DurableJobExecutor._forget), but for an older  *)
(* claim of the replica answered after it began.                            *)
THEOREM OwnersAreRegistered == ExSpec => []LatestRegistered
<1>1. ASSUME ExInv, NEW k \in Runs, InPhase(k, InTask), Owned(k)
      PROVE  tasks[run[k].proc] = k \/ Overtaken(k)
  <2>1. ~InPhase(k, {"none"})
    BY <1>1 DEF InPhase, InTask
  <2>2. k = lastToken
    BY <1>1, <2>1, OwnedIs
  <2> QED BY <1>1, <2>2 DEF ExInv, RunsInv, Registry, Mapped
<1>2. ExInv => LatestRegistered
  BY <1>1 DEF LatestRegistered
<1> QED BY <1>2, ExecutorInvariant, PTL

(* A runner that has lost its job is out of the feature's code less than    *)
(* Slack after its window, which is that of the lease it last wrote or of   *)
(* its beginning, however many of its monitor's calls fail and however late *)
(* its claim was answered (start, monitor_lease).                           *)
THEOREM SupersededRunsStop == ExSpec => []OverlapBounded
<1>1. ASSUME ExInv, NEW k \in Runs, Superseded(k), tasks[run[k].proc] = k
      PROVE  clock < Window(run[k]) + Slack
  <2>1. Watched(k) /\ RunOK(k)
    BY <1>1 DEF Superseded, Watched, Mapped, InPhase, ExInv, RunsInv
  <2>2. clock \in Nat /\ run[k].due \in Nat /\ Window(run[k]) \in Nat
    BY <1>1, Clocks, RunNumbers, WindowIs
  <2> QED BY <2>1, <2>2, Intervals DEF RunOK, Late, OnTime
<1>2. ExInv => OverlapBounded
  BY <1>1 DEF OverlapBounded
<1> QED BY <1>2, ExecutorInvariant, PTL

(* With the intervals the application uses (a lease of 60 s renewed every   *)
(* 20 s, calls of at most 5 s, a look every second), a database that        *)
(* answers keeps every monitored run in its job, however long it works: no  *)
(* recovery and no janitor takes it, whatever the other replicas do.        *)
THEOREM HealthyRunsKeepTheirLease ==
  ASSUME Renew + Control + 2 * OpTimeout + 2 * MaxSkew <= LeaseLen
  PROVE  ExSpec => []HealthyKeepsLease
<1>1. ASSUME ExInv, ~Failures, NEW k \in Runs, InPhase(k, {"working"}), tasks[run[k].proc] = k
      PROVE  Owned(k)
  <2>1. Watched(k) /\ RunOK(k) /\ Timely /\ ~InPhase(k, {"none"})
    BY <1>1 DEF Watched, Mapped, InPhase, ExInv, RunsInv, Timely
  <2>2. k = lastToken /\ Leased
    BY <2>1 DEF RunOK, Kept
  <2> QED BY <1>1, <2>1, <2>2, OwnedIs
<1>2. ExInv => HealthyKeepsLease
  BY <1>1 DEF HealthyKeepsLease
<1> QED BY <1>2, ExecutorInvariant, PTL
=============================================================================
