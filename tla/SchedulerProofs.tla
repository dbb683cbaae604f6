---------------------------- MODULE SchedulerProofs ----------------------------
(***************************************************************************)
(* What the leases of the scheduler guarantee, for any number of tasks,     *)
(* replicas, slots and occurrences.                                        *)
(*                                                                         *)
(* The invariant has two halves.  The tables: the schedule is ahead of      *)
(* whatever was completed, but for what manual runs have put back           *)
(* (DoneBehind).  The runs: a run that holds its     *)
(* task's lease runs the occurrence the lease is for (LeaseNamesRun), and   *)
(* while no heartbeat has failed its lease outlasts its heartbeat           *)
(* (LeaseOutlastsBeat) and it is the only one at work (OneAtWork).          *)
(***************************************************************************)
EXTENDS Scheduler, FiniteSetTheorems, TLAPS

(* How often an occurrence was completed, is claimed, or is ahead of the    *)
(* schedule: once in all, and once more for each time it was put back.      *)
Behind(o, last, next) == o <= last /\ (next = Null \/ o < next)
Counted(o, ended, rec, last) ==
    ended + (IF o = rec.pending THEN 1 ELSE 0) + (IF Behind(o, last, rec.next) THEN 0 ELSE 1)
DoneBehind ==
    \A t \in Tasks : \A o \in Occurrences :
        Counted(o, done[t][o], task[t], due[t]) <= 1 + rewound[t][o]

PurgedIsFree == \A t \in Tasks : task[t].status = "purged" => task[t].owner = Nobody

(* No two runs have the same token.                                         *)
TokensDiffer ==
    /\ \A r \in Replicas : IsFiniteSet(RunsOf(r))
    /\ \A r, q \in Replicas : \A x \in RunsOf(r), y \in RunsOf(q) :
          x.token = y.token => r = q /\ x = y

LeaseNamesRun ==
    \A r \in Replicas : \A x \in RunsOf(r) : Owns(r, x) => task[x.task].pending = x.occurrence

AtTask(x) == x.at \in {"started", "working"}
LeaseOutlastsBeat ==
    ~missed => \A r \in Replicas : \A x \in RunsOf(r) :
        Owns(r, x) /\ x.at # "leaving" => x.beat # -1 /\ x.beat < task[x.task].left
WorkIsLeased ==
    ~missed => \A r \in Replicas : \A x \in RunsOf(r) :
        AtTask(x) => Owns(r, x) \/ task[x.task].status = "purged"
OneAtWork ==
    ~missed => \A r, q \in Replicas : \A x \in RunsOf(r), y \in RunsOf(q) :
        AtTask(x) /\ AtTask(y) /\ x.task = y.task => x.token = y.token

TableInv == DoneBehind /\ PurgedIsFree
RunInv == TokensDiffer /\ LeaseNamesRun /\ LeaseOutlastsBeat /\ WorkIsLeased /\ OneAtWork
SchedInv == SchedTypeOK /\ TableInv /\ RunInv
-----------------------------------------------------------------------------
(* The schedule. *)

LEMMA OccurrenceRange ==
  /\ Occurrences \subseteq Nat /\ Null \notin Occurrences
  /\ \A t \in Tasks : 1..Last[t] \subseteq Occurrences
  BY SchedulerAssumption DEF Occurrences, Null

LEMMA NextOccurrence ==
  ASSUME NEW t \in Tasks, NEW o \in Nat
  PROVE  /\ NextAfter(t, o) \in Occurrences \union {Null}
         /\ NextAfter(t, o) # Null => NextAfter(t, o) = o + 1
         /\ o < Last[t] => NextAfter(t, o) # Null
  BY OccurrenceRange, SchedulerAssumption DEF NextAfter, Null

(* The columns a step may touch without moving the schedule back: next to   *)
(* nothing or to the occurrence that follows the present.                   *)
LEMMA TableKept ==
  ASSUME SchedTypeOK, TableInv, UNCHANGED <<due, done, rewound>>, PurgedIsFree',
         \A t \in Tasks : /\ task'[t].pending \in {task[t].pending, Null}
                          /\ task'[t].next \in {task[t].next, Null, NextRun(t)}
  PROVE  TableInv'
<1>1. ASSUME NEW t \in Tasks, NEW o \in Occurrences, Behind(o, due[t], task[t].next)
      PROVE  Behind(o, due'[t], task'[t].next)
  <2>1. due[t] \in Nat /\ o \in Nat /\ due'[t] = due[t]
    BY OccurrenceRange DEF SchedTypeOK
  <2>2. NextRun(t) # Null => NextRun(t) = due[t] + 1
    BY <2>1, NextOccurrence DEF NextRun
  <2> QED BY <1>1, <2>1, <2>2 DEF Behind
<1>2. ASSUME NEW t \in Tasks, NEW o \in Occurrences
      PROVE  Counted(o, done'[t][o], task'[t], due'[t]) <= 1 + rewound'[t][o]
  <2>1. o # Null /\ done'[t][o] = done[t][o] /\ done[t][o] \in Nat
        /\ rewound'[t][o] = rewound[t][o] /\ rewound[t][o] \in Nat
    BY OccurrenceRange DEF SchedTypeOK
  <2>2. o = task'[t].pending => o = task[t].pending
    BY <2>1
  <2>3. Counted(o, done[t][o], task[t], due[t]) <= 1 + rewound[t][o]
    BY DEF TableInv, DoneBehind
  <2> QED BY <1>1, <2>1, <2>2, <2>3 DEF Counted
<1> QED BY <1>2 DEF TableInv, DoneBehind
-----------------------------------------------------------------------------
(* The runs. *)

SameRun(z, w) == z.task = w.task /\ z.token = w.token /\ z.occurrence = w.occurrence

LEMMA ChangedRuns ==
  ASSUME SchedTypeOK, TokensDiffer, NEW r \in Replicas, NEW x \in RunsOf(r), NEW y \in RunRec,
         SameRun(y, x), Change(r, x, y)
  PROVE  /\ replica' \in [Replicas -> ReplicaRec]
         /\ RunsOf(r)' = (RunsOf(r) \ {x}) \union {y}
         /\ \A q \in Replicas \ {r} : RunsOf(q)' = RunsOf(q)
         /\ TokensDiffer'
<1>1. /\ replica' = [replica EXCEPT ![r] = [replica[r] EXCEPT !.runs = (replica[r].runs \ {x}) \union {y}]]
      /\ replica \in [Replicas -> ReplicaRec] /\ replica[r] \in ReplicaRec
  BY DEF Change, SchedTypeOK
<1> DEFINE new == [replica[r] EXCEPT !.runs = (replica[r].runs \ {x}) \union {y}]
<1>2. new \in ReplicaRec /\ new.runs = (replica[r].runs \ {x}) \union {y}
  BY <1>1 DEF ReplicaRec, RunsOf
<1> HIDE DEF new
<1>3. /\ replica' \in [Replicas -> ReplicaRec] /\ replica'[r] = new
      /\ \A q \in Replicas \ {r} : replica'[q] = replica[q]
  BY <1>1, <1>2 DEF new
<1>4. /\ RunsOf(r)' = (RunsOf(r) \ {x}) \union {y}
      /\ \A q \in Replicas \ {r} : RunsOf(q)' = RunsOf(q)
  BY <1>2, <1>3 DEF RunsOf
<1>5. \A q \in Replicas : IsFiniteSet(RunsOf(q)')
  <2>1. IsFiniteSet(RunsOf(r) \ {x})
    BY FS_RemoveElement DEF TokensDiffer
  <2>2. IsFiniteSet((RunsOf(r) \ {x}) \union {y})
    BY <2>1, FS_AddElement
  <2> QED BY <1>4, <2>2 DEF TokensDiffer
<1>6. ASSUME NEW q \in Replicas, NEW p \in Replicas, NEW z \in RunsOf(q)', NEW w \in RunsOf(p)',
             z.token = w.token
      PROVE  q = p /\ z = w
  <2>1. \A p0 \in Replicas : \A v \in RunsOf(p0)' :
           \E v0 \in RunsOf(p0) : v0.token = v.token /\ (v = v0 \/ (v = y /\ v0 = x))
                                /\ (v0 = x => v = y)
    BY <1>4 DEF SameRun, TokensDiffer
  <2>2. PICK z0 \in RunsOf(q) : z0.token = z.token /\ (z = z0 \/ (z = y /\ z0 = x)) /\ (z0 = x => z = y)
    BY <2>1
  <2>3. PICK w0 \in RunsOf(p) : w0.token = w.token /\ (w = w0 \/ (w = y /\ w0 = x)) /\ (w0 = x => w = y)
    BY <2>1
  <2>4. q = p /\ z0 = w0
    BY <1>6, <2>2, <2>3 DEF TokensDiffer
  <2> QED BY <2>2, <2>3, <2>4
<1> QED BY <1>3, <1>4, <1>5, <1>6 DEF TokensDiffer

(* What most steps do to the runs and the leases: a run goes on, perhaps    *)
(* begins its work under its lease, or leaves; a lease stays, perhaps       *)
(* renewed, or ends, and then no run is left at work on its task.           *)
Follows(q, z, w) ==
    /\ SameRun(z, w)
    /\ z.at # "leaving" =>
          /\ w.at # "leaving"
          /\ AtTask(z) => AtTask(w) \/ StillLeased(q, w)
          /\ \/ z.beat = w.beat
             \/ z.beat = Renew /\ task'[z.task].left = LeaseLen
             \/ missed' \/ ~Owns(q, w)
LeaseStays(t) ==
    /\ task'[t].owner = task[t].owner /\ task'[t].token = task[t].token
    /\ task'[t].pending = task[t].pending /\ task'[t].left >= task[t].left
    /\ task[t].status = "purged" => task'[t].status = "purged"
LeaseEnds(t) ==
    /\ task'[t].owner \notin Replicas
    /\ \/ missed' \/ task'[t].status = "purged"
       \/ \A q \in Replicas : \A z \in RunsOf(q)' : z.task = t => ~AtTask(z)

LEMMA RunsKept ==
  ASSUME SchedInv, SchedTypeOK', TokensDiffer', missed => missed',
         \A q \in Replicas : \A z \in RunsOf(q)' : \E w \in RunsOf(q) : Follows(q, z, w),
         \A t \in Tasks : LeaseStays(t) \/ LeaseEnds(t)
  PROVE  RunInv'
<1>0. \A q \in Replicas : \A w \in RunsOf(q) : w.task \in Tasks /\ w.beat \in -1..Renew
  BY DEF SchedInv, SchedTypeOK, ReplicaRec, RunRec, RunsOf
<1>1. ASSUME NEW q \in Replicas, NEW z \in RunsOf(q)', Owns(q, z)'
      PROVE  \E w \in RunsOf(q) : Follows(q, z, w) /\ Owns(q, w) /\ LeaseStays(z.task) /\ z.task \in Tasks
  <2>1. PICK w \in RunsOf(q) : Follows(q, z, w)
    OBVIOUS
  <2>2. z.task = w.task /\ z.token = w.token /\ z.task \in Tasks
    BY <1>0, <2>1 DEF Follows, SameRun
  <2>3. LeaseStays(z.task)
    BY <1>1, <2>2 DEF Owns, LeaseEnds
  <2> QED BY <1>1, <2>1, <2>2, <2>3 DEF Owns, LeaseStays
<1>2. LeaseNamesRun'
  <2> SUFFICES ASSUME NEW q \in Replicas, NEW z \in RunsOf(q)', Owns(q, z)'
               PROVE  task'[z.task].pending = z.occurrence
    BY DEF LeaseNamesRun
  <2> QED BY <1>1 DEF SchedInv, RunInv, LeaseNamesRun, Follows, SameRun, LeaseStays
<1>3. LeaseOutlastsBeat'
  <2> SUFFICES ASSUME ~missed', NEW q \in Replicas, NEW z \in RunsOf(q)', Owns(q, z)', z.at # "leaving"
               PROVE  z.beat # -1 /\ z.beat < task'[z.task].left
    BY DEF LeaseOutlastsBeat
  <2>1. PICK w \in RunsOf(q) : Follows(q, z, w) /\ Owns(q, w) /\ LeaseStays(z.task) /\ z.task \in Tasks
    BY <1>1
  <2>2. w.beat # -1 /\ w.beat < task[z.task].left
    BY <2>1 DEF SchedInv, RunInv, LeaseOutlastsBeat, Follows, SameRun
  <2>3. task[z.task].left \in Int /\ task'[z.task].left \in Int /\ task'[z.task].left >= task[z.task].left /\ w.beat \in Int
    BY <1>0, <2>1 DEF LeaseStays, SchedInv, SchedTypeOK, TaskRec
  <2>4. z.beat = w.beat \/ (z.beat = Renew /\ task'[z.task].left = LeaseLen)
    BY <2>1 DEF Follows
  <2>5. Renew \in Nat /\ Renew < LeaseLen /\ LeaseLen \in Nat
    BY SchedulerAssumption
  <2> QED BY <2>2, <2>3, <2>4, <2>5
<1>4. WorkIsLeased'
  <2> SUFFICES ASSUME ~missed', NEW q \in Replicas, NEW z \in RunsOf(q)', AtTask(z)
               PROVE  Owns(q, z)' \/ task'[z.task].status = "purged"
    BY DEF WorkIsLeased
  <2>1. PICK w \in RunsOf(q) : Follows(q, z, w)
    OBVIOUS
  <2>2. /\ AtTask(w) \/ StillLeased(q, w)
        /\ z.task = w.task /\ z.token = w.token /\ z.task \in Tasks
    BY <1>0, <2>1 DEF Follows, SameRun, AtTask
  <2>3. Owns(q, w) \/ task[z.task].status = "purged"
    BY <2>2 DEF SchedInv, RunInv, WorkIsLeased, StillLeased
  <2>4. CASE LeaseEnds(z.task)
    BY <2>4 DEF LeaseEnds
  <2>5. CASE LeaseStays(z.task)
    BY <2>2, <2>3, <2>5 DEF LeaseStays, Owns
  <2> QED BY <2>2, <2>4, <2>5
<1>5. OneAtWork'
  <2> SUFFICES ASSUME ~missed', NEW q \in Replicas, NEW p \in Replicas,
                      NEW z \in RunsOf(q)', NEW v \in RunsOf(p)', AtTask(z), AtTask(v), z.task = v.task
               PROVE  z.token = v.token
    BY DEF OneAtWork
  <2>1. PICK w \in RunsOf(q) : Follows(q, z, w)
    OBVIOUS
  <2>2. PICK u \in RunsOf(p) : Follows(p, v, u)
    OBVIOUS
  <2>3. /\ AtTask(w) \/ StillLeased(q, w)
        /\ AtTask(u) \/ StillLeased(p, u)
        /\ w.task = u.task /\ z.token = w.token /\ v.token = u.token /\ w.task \in Tasks
    BY <1>0, <2>1, <2>2 DEF Follows, SameRun, AtTask
  <2>4. CASE AtTask(w) /\ AtTask(u)
    BY <2>3, <2>4 DEF SchedInv, RunInv, OneAtWork
  <2>5. CASE StillLeased(q, w) \/ StillLeased(p, u)
    <3>1. task[w.task].status # "purged"
      BY <2>3, <2>5, SchedulerAssumption DEF StillLeased, Owns, SchedInv, TableInv, PurgedIsFree
    <3>2. Owns(q, w) /\ Owns(p, u)
      BY <2>3, <3>1 DEF SchedInv, RunInv, WorkIsLeased, StillLeased
    <3> QED BY <2>3, <3>2 DEF Owns
  <2> QED BY <2>3, <2>4, <2>5
<1> QED BY <1>2, <1>3, <1>4, <1>5 DEF RunInv

LEMMA ChangeRunInv ==
  ASSUME SchedInv, SchedTypeOK', NEW r \in Replicas, NEW x \in RunsOf(r), NEW y \in RunRec,
         Change(r, x, y), Follows(r, y, x), missed => missed',
         \A t \in Tasks : LeaseStays(t) \/ LeaseEnds(t)
  PROVE  RunInv'
<1>1. /\ TokensDiffer' /\ RunsOf(r)' = (RunsOf(r) \ {x}) \union {y}
      /\ \A q \in Replicas \ {r} : RunsOf(q)' = RunsOf(q)
  BY ChangedRuns DEF SchedInv, RunInv, Follows
<1>2. \A q \in Replicas : \A z \in RunsOf(q) : Follows(q, z, z)
  BY DEF Follows, SameRun
<1>3. \A q \in Replicas : \A z \in RunsOf(q)' : \E w \in RunsOf(q) : Follows(q, z, w)
  BY <1>1, <1>2
<1> QED BY <1>1, <1>3, RunsKept

(* The steps that leave the tables alone, but for leases. *)
LEMMA TableSame ==
  ASSUME SchedTypeOK, TableInv, UNCHANGED <<due, done, rewound, manual>>,
         \A t \in Tasks : /\ task'[t].pending \in {task[t].pending, Null}
                          /\ task'[t].next \in {task[t].next, Null, NextRun(t)}
                          /\ task'[t].status = "purged" => task'[t].owner = Nobody
  PROVE  TableInv'
<1>1. PurgedIsFree'
  BY DEF TableInv, PurgedIsFree
<1> QED BY <1>1, TableKept

LEMMA RunTypes ==
  ASSUME SchedTypeOK, NEW r \in Replicas, NEW x \in RunsOf(r)
  PROVE  /\ x \in RunRec /\ x.task \in Tasks /\ task[x.task] \in TaskRec
         /\ Leave(x) \in RunRec /\ SameRun(Leave(x), x) /\ Leave(x).at = "leaving"
<1>1. x \in RunRec /\ task \in [Tasks -> TaskRec] /\ -1 \in -1..Renew
  BY SchedulerAssumption DEF SchedTypeOK, ReplicaRec, RunsOf
<1>2. x.task \in Tasks /\ task[x.task] \in TaskRec
  BY <1>1 DEF RunRec
<1>3. Leave(x) \in RunRec /\ SameRun(Leave(x), x) /\ Leave(x).at = "leaving"
  BY <1>1 DEF Leave, RunRec, SameRun
<1> QED BY <1>1, <1>2, <1>3

LEMMA FaultType ==
  ASSUME SchedTypeOK, NEW r \in Replicas, Fault(r)
  PROVE  bounds' \in [faults : 0..MaxFaults, manuals : [Tasks -> Nat], edits : [Tasks -> Nat]]
<1>1. /\ bounds \in [faults : 0..MaxFaults, manuals : [Tasks -> Nat], edits : [Tasks -> Nat]]
      /\ bounds' = [bounds EXCEPT !.faults = bounds.faults + 1]
      /\ bounds.faults < MaxFaults /\ MaxFaults \in Nat
  BY SchedulerAssumption DEF SchedTypeOK, Fault
<1> QED BY <1>1

(* A run goes on or leaves, and the tables stay. *)
LEMMA RunOnlyOK ==
  ASSUME SchedInv, NEW r \in Replicas, NEW x \in RunsOf(r), NEW y \in RunRec,
         Change(r, x, y), Follows(r, y, x), missed => missed', missed' \in BOOLEAN,
         UNCHANGED <<task, due, manual, done, rewound>>,
         bounds' \in [faults : 0..MaxFaults, manuals : [Tasks -> Nat], edits : [Tasks -> Nat]]
  PROVE  SchedInv'
<1>1. SchedTypeOK'
  BY ChangedRuns DEF SchedInv, RunInv, SchedTypeOK, Follows
<1>2. TableInv'
  BY TableSame DEF SchedInv, TableInv, PurgedIsFree
<1>3. \A t \in Tasks : LeaseStays(t)
  BY DEF LeaseStays, SchedInv, SchedTypeOK, TaskRec
<1> QED BY <1>1, <1>2, <1>3, ChangeRunInv DEF SchedInv

LEMMA BeatOK ==
  ASSUME SchedInv, NEW r \in Replicas, NEW x \in RunsOf(r), Beat(r, x)
  PROVE  SchedInv'
<1> USE SchedulerAssumption
<1>1. /\ UNCHANGED <<due, manual, bounds, done, rewound, missed>> /\ SchedTypeOK
      /\ missed \in BOOLEAN
      /\ bounds \in [faults : 0..MaxFaults, manuals : [Tasks -> Nat], edits : [Tasks -> Nat]]
      /\ x.task \in Tasks /\ task[x.task] \in TaskRec /\ task \in [Tasks -> TaskRec]
  BY RunTypes DEF Beat, SchedInv, SchedTypeOK
<1>2. CASE Owns(r, x)
  <2> DEFINE y == [x EXCEPT !.beat = Renew]
  <2>1. y \in RunRec /\ SameRun(y, x) /\ y.at = x.at /\ y.beat = Renew
    BY <1>1, RunTypes DEF RunRec, SameRun
  <2>2. Change(r, x, y) /\ task' = [task EXCEPT ![x.task].left = LeaseLen]
    BY <1>2 DEF Beat
  <2> HIDE DEF y
  <2>3. /\ task' \in [Tasks -> TaskRec]
        /\ \A t \in Tasks : LeaseStays(t)
        /\ \A t \in Tasks : /\ task'[t].pending = task[t].pending /\ task'[t].next = task[t].next
                            /\ task'[t].status = task[t].status /\ task'[t].owner = task[t].owner
        /\ task'[x.task].left = LeaseLen
    <3>1. [task[x.task] EXCEPT !.left = LeaseLen] \in TaskRec /\ task[x.task].left <= LeaseLen
      <4>1. \A rec \in TaskRec : rec.left \in 0..LeaseLen /\ [rec EXCEPT !.left = LeaseLen] \in TaskRec
        BY DEF TaskRec
      <4> QED BY <1>1, <4>1
    <3>2. task' \in [Tasks -> TaskRec] /\ task'[x.task] = [task[x.task] EXCEPT !.left = LeaseLen]
          /\ \A t \in Tasks : t # x.task => task'[t] = task[t]
      <4> DEFINE new == [task[x.task] EXCEPT !.left = LeaseLen]
      <4>0. new \in TaskRec /\ task \in [Tasks -> TaskRec] /\ x.task \in Tasks
        BY <1>1, <3>1
      <4>1. task' = [task EXCEPT ![x.task] = new]
        BY <2>2
      <4> HIDE DEF new
      <4>2. task'[x.task] = new /\ task' \in [Tasks -> TaskRec]
            /\ \A t \in Tasks : t # x.task => task'[t] = task[t]
        BY <4>0, <4>1
      <4> QED BY <4>2 DEF new
    <3>3. \A t \in Tasks : task[t] \in TaskRec
      BY <1>1
    <3>4. task'[x.task].left = LeaseLen
      BY <1>1, <3>2 DEF TaskRec
    <3>5. ASSUME NEW t \in Tasks
          PROVE  /\ task'[t].pending = task[t].pending /\ task'[t].next = task[t].next
                 /\ task'[t].status = task[t].status /\ task'[t].owner = task[t].owner
                 /\ task'[t].token = task[t].token /\ task'[t].left >= task[t].left
      BY <1>1, <3>1, <3>2, <3>3, <3>4 DEF TaskRec
    <3> QED BY <3>2, <3>4, <3>5 DEF LeaseStays
  <2>4. Follows(r, y, x)
    BY <2>1, <2>3 DEF Follows, SameRun, AtTask
  <2>5. SchedTypeOK'
    BY <1>1, <2>1, <2>2, <2>3, ChangedRuns DEF SchedInv, RunInv, SchedTypeOK
  <2>6. TableInv'
    BY <1>1, <2>3, TableSame DEF SchedInv, TableInv, PurgedIsFree
  <2> QED BY <1>1, <2>1, <2>2, <2>3, <2>4, <2>5, <2>6, ChangeRunInv DEF SchedInv
<1>3. CASE ~Owns(r, x)
  <2> DEFINE y == [x EXCEPT !.beat = -1]
  <2>1. y \in RunRec /\ SameRun(y, x) /\ y.at = x.at
    BY <1>1, RunTypes DEF RunRec, SameRun
  <2>2. Change(r, x, y) /\ task' = task
    BY <1>3 DEF Beat
  <2> HIDE DEF y
  <2>3. Follows(r, y, x)
    BY <1>3, <2>1 DEF Follows, AtTask
  <2> QED BY <1>1, <2>1, <2>2, <2>3, RunOnlyOK
<1> QED BY <1>2, <1>3

LEMMA BeatFailsOK ==
  ASSUME SchedInv, NEW r \in Replicas, NEW x \in RunsOf(r), BeatFails(r, x)
  PROVE  SchedInv'
<1> DEFINE y == [x EXCEPT !.beat = Renew]
<1>1. y \in RunRec /\ SameRun(y, x) /\ y.at = x.at /\ y.beat = Renew
  BY RunTypes, SchedulerAssumption DEF SchedInv, RunRec, SameRun
<1>2. Change(r, x, y) /\ UNCHANGED <<task, due, manual, done, rewound>> /\ missed' = TRUE /\ Fault(r)
  BY DEF BeatFails
<1> HIDE DEF y
<1>3. Follows(r, y, x)
  BY <1>1, <1>2 DEF Follows, AtTask
<1> QED BY <1>1, <1>2, <1>3, FaultType, RunOnlyOK DEF SchedInv

LEMMA LeavesOK ==
  ASSUME SchedInv, NEW r \in Replicas, NEW x \in RunsOf(r), Change(r, x, Leave(x)),
         UNCHANGED <<task, due, manual, done, rewound, missed>>, Fault(r) \/ bounds' = bounds
  PROVE  SchedInv'
<1>1. Leave(x) \in RunRec /\ SameRun(Leave(x), x) /\ Leave(x).at = "leaving"
  BY RunTypes DEF SchedInv
<1>2. Follows(r, Leave(x), x)
  BY <1>1 DEF Follows
<1>3. missed' \in BOOLEAN
      /\ bounds' \in [faults : 0..MaxFaults, manuals : [Tasks -> Nat], edits : [Tasks -> Nat]]
  BY FaultType DEF SchedInv, SchedTypeOK
<1> QED BY <1>1, <1>2, <1>3, RunOnlyOK

LEMMA BeginReloadRaiseOK ==
  ASSUME SchedInv, NEW r \in Replicas, NEW x \in RunsOf(r),
         Begin(r, x) \/ Reload(r, x) \/ Raise(r, x)
  PROVE  SchedInv'
<1>1. CASE Change(r, x, Leave(x))
  BY <1>1, LeavesOK DEF Begin, Reload, Raise
<1>2. CASE ~Change(r, x, Leave(x))
  <2>1. PICK at \in {"started", "working"} :
           /\ Change(r, x, [x EXCEPT !.at = at]) /\ StillLeased(r, x)
           /\ x.at # "leaving" /\ UNCHANGED <<task, due, manual, bounds, done, rewound, missed>>
    BY <1>2 DEF Begin, Reload, Raise
  <2> DEFINE y == [x EXCEPT !.at = at]
  <2>2. y \in RunRec /\ SameRun(y, x) /\ y.at = at /\ y.beat = x.beat
    BY RunTypes DEF SchedInv, RunRec, SameRun
  <2>3. Change(r, x, y)
    BY <2>1
  <2> HIDE DEF y
  <2>4. Follows(r, y, x)
    BY <2>1, <2>2 DEF Follows
  <2>5. missed' \in BOOLEAN
        /\ bounds' \in [faults : 0..MaxFaults, manuals : [Tasks -> Nat], edits : [Tasks -> Nat]]
    BY <2>1 DEF SchedInv, SchedTypeOK
  <2> QED BY <2>1, <2>2, <2>3, <2>4, <2>5, RunOnlyOK
<1> QED BY <1>1, <1>2

(* A completed occurrence is the one the lease is for, and the one at work. *)
LEMMA CompletedTask ==
  ASSUME SchedTypeOK, NEW t \in Tasks
  PROVE  /\ Completed(t) \in TaskRec
         /\ Completed(t).completed = task[t].completed + 1
         /\ Completed(t).next = IF LimitReached(t, task[t].completed + 1) THEN Null ELSE task[t].next
         /\ Completed(t).pending = Null /\ Completed(t).owner = Nobody
         /\ Completed(t).status = IF Completed(t).next = Null /\ task[t].status = "on"
                                  THEN "ended" ELSE task[t].status
<1>1. task[t] \in TaskRec /\ Null \in Nat /\ LeaseLen \in Nat /\ task[t].completed + 1 \in Nat
  BY SchedulerAssumption DEF SchedTypeOK, Null, TaskRec
<1> DEFINE completed == task[t].completed + 1
           next == IF LimitReached(t, completed) THEN Null ELSE task[t].next
           status == IF next = Null /\ task[t].status = "on" THEN "ended" ELSE task[t].status
           rec == [task[t] EXCEPT !.completed = completed, !.next = next, !.pending = Null,
                                  !.owner = Nobody, !.token = Null, !.left = 0, !.status = status]
<1>2. next \in Occurrences \union {Null} /\ completed \in Nat /\ 0 \in 0..LeaseLen
      /\ status \in {"on", "off", "ended", "deleted", "purged"}
  BY <1>1 DEF TaskRec
<1>3. Completed(t) = rec
  BY <1>1 DEF Completed, TaskRec
<1> HIDE DEF completed, next, status
<1>4. /\ rec \in TaskRec /\ rec.completed = completed /\ rec.next = next
      /\ rec.pending = Null /\ rec.owner = Nobody /\ rec.status = status
  BY <1>1, <1>2 DEF TaskRec
<1> QED BY <1>3, <1>4 DEF completed, next, status

LEMMA CompleteOK ==
  ASSUME SchedInv, NEW r \in Replicas, NEW x \in RunsOf(r), Complete(r, x)
  PROVE  SchedInv'
<1> USE SchedulerAssumption
<1> DEFINE t == x.task
<1>1. /\ Change(r, x, Leave(x)) /\ x.at = "working"
      /\ UNCHANGED <<due, manual, bounds, rewound, missed>>
  BY DEF Complete
<1>2. CASE ~StillLeased(r, x)
  BY <1>1, <1>2, LeavesOK DEF Complete
<1>3. CASE StillLeased(r, x)
  <2>1. /\ Leave(x) \in RunRec /\ SameRun(Leave(x), x) /\ Leave(x).at = "leaving"
        /\ t \in Tasks /\ x \in RunRec /\ x.occurrence \in Occurrences
    BY RunTypes DEF SchedInv, RunRec
  <2>2. /\ task' = [task EXCEPT ![t] = Completed(t)]
        /\ done' = [done EXCEPT ![t][x.occurrence] = @ + 1]
    BY <1>3 DEF Complete
  <2>3. task \in [Tasks -> TaskRec] /\ done \in [Tasks -> [Occurrences -> Nat]]
    BY DEF SchedInv, SchedTypeOK
  <2>4. /\ task'[t] = Completed(t) /\ \A u \in Tasks \ {t} : task'[u] = task[u]
        /\ task' \in [Tasks -> TaskRec]
    BY <2>1, <2>2, <2>3, CompletedTask DEF SchedInv
  <2>5. /\ done' \in [Tasks -> [Occurrences -> Nat]]
        /\ done'[t][x.occurrence] = done[t][x.occurrence] + 1
        /\ \A o \in Occurrences : o # x.occurrence => done'[t][o] = done[t][o]
        /\ \A u \in Tasks \ {t} : done'[u] = done[u]
    BY <2>1, <2>2, <2>3
  <2>6. task[t].pending = x.occurrence /\ task[t].pending # Null
    BY <1>3 DEF StillLeased, SchedInv, RunInv, LeaseNamesRun
  <2>7. SchedTypeOK'
    BY <1>1, <2>1, <2>4, <2>5, ChangedRuns DEF SchedInv, RunInv, SchedTypeOK
  <2>8. DoneBehind'
    <3> SUFFICES ASSUME NEW u \in Tasks, NEW o \in Occurrences
                 PROVE  Counted(o, done'[u][o], task'[u], due[u]) <= 1 + rewound[u][o]
      BY <1>1 DEF DoneBehind
    <3>1. Counted(o, done[u][o], task[u], due[u]) <= 1 + rewound[u][o]
      BY DEF SchedInv, TableInv, DoneBehind
    <3>2. CASE u # t
      BY <2>4, <2>5, <3>1, <3>2
    <3>3. CASE u = t
      <4>1. task'[t].pending = Null /\ task'[t].next \in {task[t].next, Null}
        BY <2>1, <2>4, CompletedTask DEF SchedInv
      <4>2. Behind(o, due[t], task[t].next) => Behind(o, due[t], task'[t].next)
        BY <4>1 DEF Behind
      <4>3. o # Null /\ done[t][o] \in Nat /\ rewound[t][o] \in Nat
        BY <2>1, OccurrenceRange DEF SchedInv, SchedTypeOK
      <4>4. done'[t][o] = IF o = task[t].pending THEN done[t][o] + 1 ELSE done[t][o]
        BY <2>5, <2>6
      <4>5. CASE o = task[t].pending
        BY <3>1, <3>3, <4>1, <4>2, <4>3, <4>4, <4>5 DEF Counted
      <4>6. CASE o # task[t].pending
        BY <3>1, <3>3, <4>1, <4>2, <4>3, <4>4, <4>6 DEF Counted
      <4> QED BY <4>5, <4>6
    <3> QED BY <3>2, <3>3
  <2>9. TableInv'
    <3>1. PurgedIsFree'
      BY <2>4, CompletedTask DEF SchedInv, TableInv, PurgedIsFree
    <3> QED BY <2>8, <3>1 DEF TableInv
  <2>10. \A u \in Tasks \ {t} : LeaseStays(u)
    BY <2>3, <2>4 DEF LeaseStays, TaskRec
  <2>11. LeaseEnds(t)
    <3>1. task'[t].owner \notin Replicas
      BY <2>1, <2>4, CompletedTask DEF SchedInv
    <3>2. ASSUME ~missed, NEW q \in Replicas, NEW z \in RunsOf(q)', z.task = t
          PROVE  ~AtTask(z)
      <4>1. CASE q = r /\ z = Leave(x)
        BY <2>1, <4>1 DEF AtTask
      <4>2. CASE ~(q = r /\ z = Leave(x))
        <5>1. z \in RunsOf(q) /\ ~(q = r /\ z = x)
          BY <1>1, <2>1, <4>2, ChangedRuns DEF SchedInv, RunInv
        <5>2. AtTask(x)
          BY <1>1 DEF AtTask
        <5> QED BY <3>2, <5>1, <5>2 DEF SchedInv, RunInv, OneAtWork, TokensDiffer
      <4> QED BY <4>1, <4>2
    <3> QED BY <1>1, <3>1, <3>2 DEF LeaseEnds
  <2>12. Follows(r, Leave(x), x)
    BY <2>1 DEF Follows
  <2> HIDE DEF t
  <2> QED BY <1>1, <2>1, <2>7, <2>9, <2>10, <2>11, <2>12, ChangeRunInv DEF SchedInv
<1> QED BY <1>2, <1>3

(* The releases: a run goes, or all of a replica's. *)
LEMMA UnownedTask ==
  ASSUME NEW rec \in TaskRec
  PROVE  /\ Unowned(rec) \in TaskRec /\ Unowned(rec).owner = Nobody
         /\ Unowned(rec).pending = rec.pending /\ Unowned(rec).next = rec.next
         /\ Unowned(rec).status = rec.status
<1>1. Null \in Nat /\ 0 \in 0..LeaseLen
  BY SchedulerAssumption DEF Null
<1> QED BY <1>1 DEF Unowned, TaskRec

LEMMA FewerRuns ==
  ASSUME SchedInv, SchedTypeOK', missed' = missed,
         \A q \in Replicas : RunsOf(q)' \subseteq RunsOf(q),
         \A t \in Tasks : LeaseStays(t) \/ LeaseEnds(t)
  PROVE  RunInv'
<1>1. TokensDiffer'
  <2>1. \A q \in Replicas : IsFiniteSet(RunsOf(q)')
    BY FS_Subset DEF SchedInv, RunInv, TokensDiffer
  <2>2. \A q, p \in Replicas : \A z \in RunsOf(q)', w \in RunsOf(p)' : z.token = w.token => q = p /\ z = w
    BY DEF SchedInv, RunInv, TokensDiffer
  <2> QED BY <2>1, <2>2 DEF TokensDiffer
<1>2. \A q \in Replicas : \A z \in RunsOf(q)' : Follows(q, z, z)
  BY DEF Follows, SameRun
<1> QED BY <1>1, <1>2, RunsKept

LEMMA WorkerOwns ==
  ASSUME SchedInv, ~missed, NEW q \in Replicas, NEW z \in RunsOf(q), AtTask(z),
         task[z.task].owner \in Replicas
  PROVE  Owns(q, z)
<1>1. z.task \in Tasks
  BY RunTypes DEF SchedInv
<1> QED BY <1>1, SchedulerAssumption DEF SchedInv, RunInv, WorkIsLeased, TableInv, PurgedIsFree

(* A replica's runs are among those it had, and what it unowns was its own. *)
LEMMA ReplicaLosesOK ==
  ASSUME SchedInv, NEW r \in Replicas, NEW rep \in ReplicaRec, rep.runs \subseteq RunsOf(r),
         replica' = [replica EXCEPT ![r] = rep],
         UNCHANGED <<due, manual, done, rewound, missed>>, Fault(r) \/ bounds' = bounds,
         task' \in [Tasks -> TaskRec],
         \A t \in Tasks :
            \/ task'[t] = task[t]
            \/ /\ task[t].owner = r /\ task'[t].owner \in {Nobody, Gone}
               /\ task'[t].pending = task[t].pending /\ task'[t].next = task[t].next
               /\ task'[t].status = task[t].status
               /\ \A x \in rep.runs : x.task = t => ~AtTask(x) \/ task[t].token # x.token
  PROVE  SchedInv'
<1>1. /\ SchedTypeOK /\ task \in [Tasks -> TaskRec] /\ replica \in [Replicas -> ReplicaRec]
      /\ \A t \in Tasks : task[t] \in TaskRec
  BY DEF SchedInv, SchedTypeOK
<1>2. SchedTypeOK'
  BY <1>1, FaultType DEF SchedTypeOK
<1>3. /\ RunsOf(r)' = rep.runs
      /\ \A q \in Replicas \ {r} : RunsOf(q)' = RunsOf(q)
      /\ \A q \in Replicas : RunsOf(q)' \subseteq RunsOf(q)
  BY <1>1 DEF RunsOf
<1>4. TableInv'
  <2>1. \A t \in Tasks : task[t].status = "purged" => task[t].owner = Nobody
    BY DEF SchedInv, TableInv, PurgedIsFree
  <2>2. \A t \in Tasks : task[t].owner = r => task[t].status # "purged"
    BY <2>1, SchedulerAssumption
  <2>3. \A t \in Tasks : /\ task'[t].pending = task[t].pending /\ task'[t].next = task[t].next
                         /\ task'[t].status = "purged" => task'[t].owner = Nobody
    BY <2>1, <2>2
  <2> QED BY <1>1, <2>3, TableSame DEF SchedInv
<1>5. ASSUME NEW t \in Tasks
      PROVE  LeaseStays(t) \/ LeaseEnds(t)
  <2>1. CASE task'[t] = task[t]
    BY <1>1, <2>1 DEF LeaseStays, TaskRec
  <2>2. CASE /\ task[t].owner = r /\ task'[t].owner \in {Nobody, Gone}
             /\ \A x \in rep.runs : x.task = t => ~AtTask(x) \/ task[t].token # x.token
    <3>1. task'[t].owner \notin Replicas
      BY <2>2, SchedulerAssumption
    <3>2. ASSUME ~missed', NEW q \in Replicas, NEW z \in RunsOf(q)', z.task = t, AtTask(z)
          PROVE  FALSE
      <4>1. Owns(q, z)
        BY <1>3, <2>2, <3>2, WorkerOwns
      <4>2. q = r /\ z \in rep.runs
        BY <1>3, <2>2, <3>2, <4>1 DEF Owns
      <4> QED BY <2>2, <3>2, <4>1, <4>2 DEF Owns
    <3> QED BY <3>1, <3>2 DEF LeaseEnds
  <2> QED BY <2>1, <2>2
<1>6. RunInv'
  BY <1>2, <1>3, <1>5, FewerRuns
<1> QED BY <1>2, <1>4, <1>6 DEF SchedInv

LEMMA ReleaseOK ==
  ASSUME SchedInv, NEW r \in Replicas, NEW x \in RunsOf(r), Release(r, x) \/ ReleaseFails(r, x)
  PROVE  SchedInv'
<1> DEFINE rep == [replica[r] EXCEPT !.runs = RunsOf(r) \ {x}, !.running = replica[r].running \ {x.task}]
<1>1. /\ replica[r] \in ReplicaRec /\ task \in [Tasks -> TaskRec]
      /\ x.task \in Tasks /\ task[x.task] \in TaskRec
  BY RunTypes DEF SchedInv, SchedTypeOK
<1>2. rep \in ReplicaRec /\ rep.runs = RunsOf(r) \ {x}
  BY <1>1 DEF ReplicaRec, RunsOf
<1>0. replica' = [replica EXCEPT ![r] = rep]
  BY DEF Release, ReleaseFails, Left
<1>3. /\ x.at = "leaving"
      /\ UNCHANGED <<due, manual, done, rewound, missed>> /\ (Fault(r) \/ bounds' = bounds)
      /\ task' = task \/ (Owns(r, x) /\ task' = [task EXCEPT ![x.task] = Unowned(task[x.task])])
  BY DEF Release, ReleaseFails
<1> HIDE DEF rep
<1>4. /\ task' \in [Tasks -> TaskRec]
      /\ \A t \in Tasks : task'[t] = task[t] \/ (t = x.task /\ Owns(r, x) /\ task'[t] = Unowned(task[t]))
  BY <1>1, <1>3, UnownedTask
<1>5. \A z \in rep.runs : z.token # x.token
  BY <1>2 DEF SchedInv, RunInv, TokensDiffer
<1>6. ASSUME NEW t \in Tasks, t = x.task, Owns(r, x), task'[t] = Unowned(task[t])
      PROVE  /\ task[t].owner = r /\ task'[t].owner \in {Nobody, Gone}
             /\ task'[t].pending = task[t].pending /\ task'[t].next = task[t].next
             /\ task'[t].status = task[t].status
             /\ \A z \in rep.runs : z.task = t => ~AtTask(z) \/ task[t].token # z.token
  BY <1>1, <1>5, <1>6, UnownedTask DEF Owns
<1>7. rep.runs \subseteq RunsOf(r)
  BY <1>2
<1>8. \A t \in Tasks :
         \/ task'[t] = task[t]
         \/ /\ task[t].owner = r /\ task'[t].owner \in {Nobody, Gone}
            /\ task'[t].pending = task[t].pending /\ task'[t].next = task[t].next
            /\ task'[t].status = task[t].status
            /\ \A z \in rep.runs : z.task = t => ~AtTask(z) \/ task[t].token # z.token
  BY <1>4, <1>6
<1> QED BY <1>0, <1>2, <1>3, <1>4, <1>7, <1>8, ReplicaLosesOK

LEMMA StopsOK ==
  ASSUME SchedInv, NEW r \in Replicas, ReleaseOwned(r) \/ Crash(r)
  PROVE  SchedInv'
<1> DEFINE rep == [at |-> "down", running |-> {}, runs |-> {}]
<1>1. rep \in ReplicaRec /\ rep.runs = {}
  BY DEF ReplicaRec
<1>2. \A t \in Tasks : task[t] \in TaskRec /\ [task[t] EXCEPT !.owner = Gone] \in TaskRec
  <2>1. \A rec \in TaskRec : [rec EXCEPT !.owner = Gone] \in TaskRec
    BY DEF TaskRec
  <2>2. \A t \in Tasks : task[t] \in TaskRec
    BY DEF SchedInv, SchedTypeOK
  <2> QED BY <2>1, <2>2
<1>3. /\ replica' = [replica EXCEPT ![r] = rep]
      /\ UNCHANGED <<due, manual, done, rewound, missed>> /\ (Fault(r) \/ bounds' = bounds)
  BY DEF ReleaseOwned, Crash
<1> HIDE DEF rep
<1>4. CASE ReleaseOwned(r)
  <2>1. task' = [t \in Tasks |-> IF task[t].owner = r THEN Unowned(task[t]) ELSE task[t]]
    BY <1>4 DEF ReleaseOwned
  <2>2. \A t \in Tasks : Unowned(task[t]) \in TaskRec
    BY <1>2, UnownedTask
  <2>3. task' \in [Tasks -> TaskRec]
    BY <1>2, <2>1, <2>2
  <2>4. ASSUME NEW t \in Tasks, task'[t] # task[t]
        PROVE  /\ task[t].owner = r /\ task'[t].owner \in {Nobody, Gone}
               /\ task'[t].pending = task[t].pending /\ task'[t].next = task[t].next
               /\ task'[t].status = task[t].status
    BY <1>2, <2>1, <2>4, UnownedTask
  <2> QED BY <1>1, <1>3, <2>3, <2>4, ReplicaLosesOK
<1>5. CASE Crash(r)
  <2>1. task' = [t \in Tasks |-> IF task[t].owner = r THEN [task[t] EXCEPT !.owner = Gone] ELSE task[t]]
    BY <1>5 DEF Crash
  <2>2. task' \in [Tasks -> TaskRec]
    BY <1>2, <2>1
  <2>3. ASSUME NEW t \in Tasks, task'[t] # task[t]
        PROVE  /\ task[t].owner = r /\ task'[t].owner \in {Nobody, Gone}
               /\ task'[t].pending = task[t].pending /\ task'[t].next = task[t].next
               /\ task'[t].status = task[t].status
    BY <1>2, <2>1, <2>3 DEF TaskRec
  <2> QED BY <1>1, <1>3, <2>2, <2>3, ReplicaLosesOK
<1> QED BY <1>4, <1>5

(* stop makes every run of the replica leave. *)
LEMMA StopOK ==
  ASSUME SchedInv, NEW r \in Replicas, Stop(r)
  PROVE  SchedInv'
<1> DEFINE rep == [replica[r] EXCEPT !.at = "stopping", !.runs = {Leave(x) : x \in RunsOf(r)}]
<1>1. /\ SchedTypeOK /\ replica[r] \in ReplicaRec /\ replica \in [Replicas -> ReplicaRec]
      /\ \A x \in RunsOf(r) : /\ Leave(x) \in RunRec /\ SameRun(Leave(x), x)
                              /\ Leave(x).at = "leaving"
  BY RunTypes DEF SchedInv, SchedTypeOK
<1>2. rep \in ReplicaRec /\ rep.runs = {Leave(x) : x \in RunsOf(r)}
  BY <1>1 DEF ReplicaRec, RunsOf
<1>0. replica' = [replica EXCEPT ![r] = rep]
  BY DEF Stop
<1>3. /\ replica' = [replica EXCEPT ![r] = rep] /\ Fault(r)
      /\ UNCHANGED <<task, due, manual, done, rewound, missed>>
  BY <1>0 DEF Stop
<1> HIDE DEF rep
<1>4. /\ replica' \in [Replicas -> ReplicaRec] /\ RunsOf(r)' = {Leave(x) : x \in RunsOf(r)}
      /\ \A q \in Replicas \ {r} : RunsOf(q)' = RunsOf(q)
  BY <1>1, <1>2, <1>3 DEF RunsOf
<1>5. SchedTypeOK'
  BY <1>3, <1>4, FaultType DEF SchedInv, SchedTypeOK
<1>6. TableInv'
  BY <1>1, <1>3, TableSame DEF SchedInv, TableInv, PurgedIsFree
<1>7. \A q \in Replicas : \A z \in RunsOf(q)' :
         \E w \in RunsOf(q) : Follows(q, z, w) /\ (z = w \/ z = Leave(w)) /\ (q = r => z = Leave(w))
  BY <1>1, <1>4 DEF Follows, SameRun
<1>8. TokensDiffer'
  <2>1. IsFiniteSet({Leave(x) : x \in RunsOf(r)})
    <3> DEFINE leave == [x \in RunsOf(r) |-> Leave(x)]
    <3>1. leave \in Surjection(RunsOf(r), {Leave(x) : x \in RunsOf(r)})
      BY DEF Surjection
    <3> QED BY <3>1, FS_Surjection DEF SchedInv, RunInv, TokensDiffer
  <2>2. \A q \in Replicas : IsFiniteSet(RunsOf(q)')
    BY <1>4, <2>1 DEF SchedInv, RunInv, TokensDiffer
  <2>3. ASSUME NEW q \in Replicas, NEW p \in Replicas, NEW z \in RunsOf(q)', NEW v \in RunsOf(p)',
               z.token = v.token
        PROVE  q = p /\ z = v
    <3>1. PICK w \in RunsOf(q) : /\ Follows(q, z, w) /\ (z = w \/ z = Leave(w))
                                 /\ q = r => z = Leave(w)
      BY <1>7
    <3>2. PICK u \in RunsOf(p) : /\ Follows(p, v, u) /\ (v = u \/ v = Leave(u))
                                 /\ p = r => v = Leave(u)
      BY <1>7
    <3>3. q = p /\ w = u
      BY <2>3, <3>1, <3>2 DEF Follows, SameRun, SchedInv, RunInv, TokensDiffer
    <3>4. q # r => z = w /\ v = u
      BY <1>4, <3>1, <3>2, <3>3, <2>3 DEF SchedInv, RunInv, TokensDiffer, Follows, SameRun
    <3> QED BY <3>1, <3>2, <3>3, <3>4
  <2> QED BY <2>2, <2>3 DEF TokensDiffer
<1>9. \A t \in Tasks : LeaseStays(t)
  BY <1>3 DEF LeaseStays, SchedInv, SchedTypeOK, TaskRec
<1>10. RunInv'
  BY <1>3, <1>5, <1>7, <1>8, <1>9, RunsKept
<1> QED BY <1>5, <1>6, <1>10 DEF SchedInv

(* _backfill_next_runs gives a task without an occurrence its next.         *)
LEMMA StartOK ==
  ASSUME SchedInv, NEW r \in Replicas, Start(r)
  PROVE  SchedInv'
<1>1. /\ SchedTypeOK /\ replica[r] \in ReplicaRec /\ replica \in [Replicas -> ReplicaRec]
      /\ UNCHANGED <<due, manual, bounds, done, rewound, missed>>
      /\ replica' = [replica EXCEPT ![r].at = "up"]
      /\ task' = [t \in Tasks |->
                    IF task[t].status = "on" /\ task[t].pending = Null /\ task[t].next = Null
                    THEN Scheduled(task[t], NextRun(t)) ELSE task[t]]
  BY DEF SchedInv, SchedTypeOK, Start
<1>2. /\ replica' \in [Replicas -> ReplicaRec]
      /\ \A q \in Replicas : RunsOf(q)' = RunsOf(q)
  BY <1>1 DEF ReplicaRec, RunsOf
<1>3. ASSUME NEW t \in Tasks
      PROVE  /\ task'[t] \in TaskRec
             /\ task'[t].pending = task[t].pending
             /\ task'[t].next \in {task[t].next, Null, NextRun(t)}
             /\ task'[t].owner = task[t].owner /\ task'[t].token = task[t].token
             /\ task'[t].left = task[t].left
             /\ task'[t].status = "purged" <=> task[t].status = "purged"
  <2>1. task[t] \in TaskRec /\ due[t] \in Nat
    BY <1>1 DEF SchedTypeOK
  <2>2. NextRun(t) \in Occurrences \union {Null}
    BY <2>1, NextOccurrence DEF NextRun
  <2> DEFINE rec == Scheduled(task[t], NextRun(t))
  <2>3. /\ rec \in TaskRec /\ rec.pending = task[t].pending /\ rec.next = NextRun(t)
        /\ rec.owner = task[t].owner /\ rec.token = task[t].token /\ rec.left = task[t].left
        /\ rec.status # "purged"
    BY <2>1, <2>2 DEF Scheduled, TaskRec
  <2>4. task'[t] = task[t] \/ (task[t].status = "on" /\ task'[t] = rec)
    BY <1>1
  <2> HIDE DEF rec
  <2> QED BY <2>1, <2>3, <2>4
<1>4. task' \in [Tasks -> TaskRec]
  BY <1>1, <1>3
<1>5. SchedTypeOK'
  BY <1>1, <1>2, <1>4 DEF SchedTypeOK
<1>6. TableInv'
  BY <1>1, <1>3, TableSame DEF SchedInv, TableInv, PurgedIsFree
<1>7. \A t \in Tasks : LeaseStays(t)
  BY <1>1, <1>3 DEF LeaseStays, TaskRec
<1>8. RunInv'
  BY <1>1, <1>2, <1>5, <1>7, FewerRuns
<1> QED BY <1>5, <1>6, <1>8 DEF SchedInv
-----------------------------------------------------------------------------
(* Manual runs, edits and time. *)

LEMMA RunsUntouched ==
  ASSUME SchedInv, SchedTypeOK', UNCHANGED <<replica, missed>>,
         \A t \in Tasks : LeaseStays(t) \/ LeaseEnds(t)
  PROVE  RunInv'
  BY FewerRuns DEF RunsOf

LEMMA ManualReadOK ==
  ASSUME SchedInv, NEW t \in Tasks, ManualRead(t)
  PROVE  SchedInv'
<1>1. /\ SchedTypeOK /\ task[t] \in TaskRec /\ due[t] \in Nat /\ bounds.manuals[t] \in Nat
      /\ UNCHANGED <<task, due, replica, done, rewound, missed>> /\ manual \in [Tasks -> ManualRec]
      /\ bounds \in [faults : 0..MaxFaults, manuals : [Tasks -> Nat], edits : [Tasks -> Nat]]
      /\ bounds' = [bounds EXCEPT !.manuals[t] = @ + 1]
  BY DEF SchedInv, SchedTypeOK, ManualRead
<1> DEFINE completed == task[t].completed + 1
           next == IF LimitReached(t, completed) THEN Null ELSE NextRun(t)
           status == IF task[t].status = "on" THEN "on" ELSE "other"
           rec == [at |-> "writing", status |-> status, was |-> task[t].next,
                   completed |-> completed, next |-> next]
<1>2. next \in Occurrences \union {Null} /\ status \in {"on", "other"}
  BY <1>1, NextOccurrence DEF NextRun
<1>3. completed \in Nat
  BY <1>1 DEF TaskRec
<1>4. manual' = [manual EXCEPT ![t] = rec]
  BY DEF ManualRead
<1> HIDE DEF completed, next, status
<1>5. rec \in ManualRec
  BY <1>1, <1>2, <1>3 DEF ManualRec, TaskRec
<1> HIDE DEF rec
<1>6. SchedTypeOK'
  <2>1. bounds' \in [faults : 0..MaxFaults, manuals : [Tasks -> Nat], edits : [Tasks -> Nat]]
    BY <1>1
  <2>2. manual' \in [Tasks -> ManualRec]
    BY <1>1, <1>4, <1>5
  <2> QED BY <1>1, <2>1, <2>2 DEF SchedTypeOK
<1>7. TableInv'
  BY <1>1, TableKept DEF SchedInv, TableInv, PurgedIsFree
<1>8. \A u \in Tasks : LeaseStays(u)
  BY <1>1 DEF LeaseStays, SchedTypeOK, TaskRec
<1> QED BY <1>1, <1>6, <1>7, <1>8, RunsUntouched DEF SchedInv

LEMMA ManualWriteOK ==
  ASSUME SchedInv, NEW t \in Tasks, ManualWrite(t)
  PROVE  SchedInv'
<1> DEFINE m == manual[t]
           rec == [task[t] EXCEPT !.completed = m.completed,
                                  !.next = IF m.next = m.was THEN task[t].next ELSE m.next,
                                  !.status = IF m.next = Null /\ m.status = "on" THEN "ended"
                                             ELSE task[t].status]
<1>1. /\ SchedTypeOK /\ task \in [Tasks -> TaskRec] /\ task[t] \in TaskRec
      /\ UNCHANGED <<due, replica, bounds, done, missed>> /\ manual \in [Tasks -> ManualRec]
      /\ m.at = "writing" /\ m \in ManualRec
      /\ manual' = [manual EXCEPT ![t] = NoManual]
      /\ due \in [Tasks -> Nat] /\ rewound \in [Tasks -> [Occurrences -> Nat]]
  BY DEF SchedInv, SchedTypeOK, ManualWrite
<1>2. task' = IF task[t].status = "purged" THEN task ELSE [task EXCEPT ![t] = rec]
  BY DEF ManualWrite
<1> DEFINE next == IF m.next = m.was THEN task[t].next ELSE m.next
           status == IF m.next = Null /\ m.status = "on" THEN "ended" ELSE task[t].status
<1>3. /\ next \in Occurrences \union {Null}
      /\ status \in {"on", "off", "ended", "deleted", "purged"} /\ status \in {"ended", task[t].status}
      /\ m.completed \in Nat
  BY <1>1 DEF ManualRec, TaskRec
<1>4. rec = [task[t] EXCEPT !.completed = m.completed, !.next = next, !.status = status]
  OBVIOUS
<1> HIDE DEF m, next, status, rec
<1>5. /\ rec \in TaskRec /\ rec.next = next /\ rec.pending = task[t].pending
      /\ rec.owner = task[t].owner /\ rec.token = task[t].token /\ rec.left = task[t].left
      /\ rec.status = status
  BY <1>1, <1>3, <1>4 DEF TaskRec
<1>6. NoManual \in ManualRec /\ NoManual.at = "none"
  BY DEF NoManual, ManualRec
<1>7. /\ task' \in [Tasks -> TaskRec]
      /\ \A u \in Tasks : task'[u] = task[u] \/ (u = t /\ task'[u] = rec /\ task[t].status # "purged")
  BY <1>1, <1>2, <1>5
<1>8. /\ rewound' \in [Tasks -> [Occurrences -> Nat]]
      /\ \A u \in Tasks : \A o \in Occurrences :
            rewound'[u][o] = IF u = t /\ o \in PutBack(t, task'[t].next) THEN rewound[u][o] + 1
                             ELSE rewound[u][o]
  <2> DEFINE counts == [o \in Occurrences |-> IF o \in PutBack(t, task'[t].next)
                                             THEN rewound[t][o] + 1 ELSE rewound[t][o]]
  <2>1. rewound' = [rewound EXCEPT ![t] = counts]
    BY DEF ManualWrite
  <2>2. counts \in [Occurrences -> Nat]
    BY <1>1
  <2>3. \A o \in Occurrences : counts[o] = IF o \in PutBack(t, task'[t].next) THEN rewound[t][o] + 1
                                           ELSE rewound[t][o]
    OBVIOUS
  <2> HIDE DEF counts
  <2>4. /\ rewound'[t] = counts /\ \A u \in Tasks \ {t} : rewound'[u] = rewound[u]
        /\ rewound' \in [Tasks -> [Occurrences -> Nat]]
    BY <1>1, <2>1, <2>2
  <2> QED BY <2>3, <2>4
<1>9. SchedTypeOK'
  BY <1>1, <1>6, <1>7, <1>8 DEF SchedTypeOK
<1>10. PurgedIsFree'
  BY <1>3, <1>5, <1>7 DEF SchedInv, TableInv, PurgedIsFree
<1>11. DoneBehind'
  <2> SUFFICES ASSUME NEW u \in Tasks, NEW o \in Occurrences
               PROVE  Counted(o, done[u][o], task'[u], due[u]) <= 1 + rewound'[u][o]
    BY <1>1 DEF DoneBehind
  <2>1. /\ Counted(o, done[u][o], task[u], due[u]) <= 1 + rewound[u][o]
        /\ task'[u].pending = task[u].pending
        /\ o \in Nat /\ done[u][o] \in Nat /\ rewound[u][o] \in Nat /\ due[u] \in Nat
    BY <1>1, <1>5, <1>7, OccurrenceRange DEF SchedInv, TableInv, DoneBehind, SchedTypeOK
  <2>2. CASE u # t
    BY <1>7, <1>8, <2>1, <2>2
  <2>3. CASE u = t
    <3>1. /\ task'[t].next \in Occurrences \union {Null}
          /\ task[t].next \in Occurrences \union {Null} /\ o # Null
      BY <1>1, <1>3, <1>5, <1>7, OccurrenceRange DEF TaskRec
    <3>2. 1 <= o
      BY <2>1, <3>1 DEF Null
    <3>3. o \in PutBack(t, task'[t].next) <=>
             Behind(o, due[t], task[t].next) /\ ~Behind(o, due[t], task'[t].next)
      <4>1. task'[t].next \in Nat /\ task[t].next \in Nat
        <5>1. Null \in Nat /\ Occurrences \subseteq Nat
          BY OccurrenceRange DEF Null
        <5> QED BY <3>1, <5>1
      <4> QED BY <2>1, <2>3, <3>2, <4>1 DEF PutBack, Behind
    <3> QED BY <1>8, <2>1, <2>3, <3>3 DEF Counted
  <2> QED BY <2>2, <2>3
<1>12. \A u \in Tasks : LeaseStays(u)
  <2>1. \A u \in Tasks : /\ task'[u].owner = task[u].owner /\ task'[u].token = task[u].token
                         /\ task'[u].pending = task[u].pending /\ task'[u].left = task[u].left
                         /\ task[u].status = "purged" => task'[u].status = "purged"
    BY <1>5, <1>7
  <2>2. \A u \in Tasks : task[u].left \in Int
    BY <1>1 DEF TaskRec
  <2> QED BY <2>1, <2>2 DEF LeaseStays
<1> QED BY <1>1, <1>9, <1>10, <1>11, <1>12, RunsUntouched DEF SchedInv, TableInv

(* An edit leaves the lease and the unfinished occurrence, or purges.       *)
LEMMA EditedTask ==
  ASSUME SchedTypeOK, NEW t \in Tasks,
         NEW rec \in UNION {Upserted(t), Toggled(t), Deleted(t), Restored(t), Purged(t)},
         task[t].status # "purged"
  PROVE  /\ rec \in TaskRec /\ rec.next \in {task[t].next, Null, NextRun(t)}
         /\ \/ /\ rec.status # "purged" /\ rec.pending = task[t].pending
               /\ rec.owner = task[t].owner /\ rec.token = task[t].token /\ rec.left = task[t].left
            \/ rec.status = "purged" /\ rec.pending = Null /\ rec.owner = Nobody
<1>1. /\ task[t] \in TaskRec /\ Null \in Nat /\ 0 \in 0..LeaseLen
      /\ NextRun(t) \in Occurrences \union {Null}
  BY SchedulerAssumption, NextOccurrence DEF SchedTypeOK, Null, NextRun
<1>2. CASE rec = Scheduled(task[t], NextRun(t))
  BY <1>1, <1>2 DEF Scheduled, TaskRec
<1>3. CASE rec = [task[t] EXCEPT !.status = "off"]
  BY <1>1, <1>3 DEF TaskRec
<1>4. CASE rec = [task[t] EXCEPT !.status = "off", !.next = Null]
  BY <1>1, <1>4 DEF TaskRec
<1>5. CASE rec \in Deleted(t)
  BY <1>1, <1>5 DEF Deleted, TaskRec
<1>6. CASE rec \in Restored(t)
  BY <1>1, <1>6 DEF Restored, TaskRec
<1>7. CASE rec \in Purged(t)
  <2>1. rec = [status |-> "purged", deleted |-> TRUE, next |-> Null, pending |-> Null,
               owner |-> Nobody, token |-> Null, left |-> 0, completed |-> 0]
    BY <1>7 DEF Purged
  <2>2. Null \in Occurrences \union {Null} /\ Nobody \in Replicas \union {Nobody, Gone}
    OBVIOUS
  <2>3. rec \in TaskRec
    BY <1>1, <2>1, <2>2 DEF TaskRec
  <2> QED BY <2>1, <2>3
<1>8. rec \in Upserted(t) => rec = Scheduled(task[t], NextRun(t)) \/ rec = [task[t] EXCEPT !.status = "off"]
  BY DEF Upserted
<1>9. rec \in Toggled(t) =>
         rec = Scheduled(task[t], NextRun(t)) \/ rec = [task[t] EXCEPT !.status = "off", !.next = Null]
  BY DEF Toggled
<1> QED BY <1>2, <1>3, <1>4, <1>5, <1>6, <1>7, <1>8, <1>9

LEMMA EditOK ==
  ASSUME SchedInv, NEW t \in Tasks, Edit(t)
  PROVE  SchedInv'
<1>1. /\ SchedTypeOK /\ task \in [Tasks -> TaskRec] /\ task[t].status # "purged"
      /\ UNCHANGED <<due, replica, manual, done, rewound, missed>>
      /\ bounds \in [faults : 0..MaxFaults, manuals : [Tasks -> Nat], edits : [Tasks -> Nat]]
      /\ bounds.edits[t] \in Nat /\ bounds' = [bounds EXCEPT !.edits[t] = @ + 1]
  BY DEF SchedInv, SchedTypeOK, Edit
<1>2. PICK rec \in UNION {Upserted(t), Toggled(t), Deleted(t), Restored(t), Purged(t)} :
         task' = [task EXCEPT ![t] = rec]
  BY DEF Edit
<1>3. /\ rec \in TaskRec /\ rec.next \in {task[t].next, Null, NextRun(t)}
      /\ \/ /\ rec.status # "purged" /\ rec.pending = task[t].pending
            /\ rec.owner = task[t].owner /\ rec.token = task[t].token /\ rec.left = task[t].left
         \/ rec.status = "purged" /\ rec.pending = Null /\ rec.owner = Nobody
  BY <1>1, EditedTask
<1>4. task'[t] = rec /\ \A u \in Tasks \ {t} : task'[u] = task[u]
  BY <1>1, <1>2
<1>5. SchedTypeOK'
  <2>1. bounds' \in [faults : 0..MaxFaults, manuals : [Tasks -> Nat], edits : [Tasks -> Nat]]
    BY <1>1
  <2>2. task' \in [Tasks -> TaskRec]
    BY <1>1, <1>2, <1>3
  <2> QED BY <1>1, <2>1, <2>2 DEF SchedTypeOK
<1>6. TableInv'
  BY <1>1, <1>3, <1>4, TableSame DEF SchedInv, TableInv, PurgedIsFree
<1>7. \A u \in Tasks \ {t} : LeaseStays(u)
  BY <1>1, <1>4 DEF LeaseStays, TaskRec
<1>8. LeaseStays(t) \/ LeaseEnds(t)
  BY <1>1, <1>3, <1>4, SchedulerAssumption DEF LeaseStays, LeaseEnds, TaskRec
<1> QED BY <1>1, <1>5, <1>6, <1>7, <1>8, RunsUntouched DEF SchedInv

LEMMA ArriveOK ==
  ASSUME SchedInv, NEW t \in Tasks, Arrive(t)
  PROVE  SchedInv'
<1>1. /\ SchedTypeOK /\ due \in [Tasks -> Nat] /\ Last \in [Tasks -> Nat \ {0}]
      /\ due[t] < Last[t]
      /\ due' = [due EXCEPT ![t] = due[t] + 1]
      /\ UNCHANGED <<task, replica, manual, bounds, done, rewound, missed>>
  BY SchedulerAssumption DEF SchedInv, SchedTypeOK, Arrive
<1>2. \A u \in Tasks : due[u] \in Nat /\ due'[u] \in Nat /\ due[u] <= due'[u] /\ (u # t => due'[u] = due[u])
  BY <1>1
<1>3. SchedTypeOK'
  BY <1>1 DEF SchedTypeOK
<1>4. DoneBehind'
  <2> SUFFICES ASSUME NEW u \in Tasks, NEW o \in Occurrences
               PROVE  Counted(o, done[u][o], task[u], due'[u]) <= 1 + rewound[u][o]
    BY <1>1 DEF DoneBehind
  <2>1. Behind(o, due[u], task[u].next) => Behind(o, due'[u], task[u].next)
    BY <1>2, OccurrenceRange DEF Behind
  <2>2. Counted(o, done[u][o], task[u], due[u]) <= 1 + rewound[u][o]
        /\ done[u][o] \in Nat /\ rewound[u][o] \in Nat
    BY <1>1 DEF SchedInv, TableInv, DoneBehind, SchedTypeOK
  <2> QED BY <2>1, <2>2 DEF Counted
<1>5. PurgedIsFree'
  BY <1>1 DEF SchedInv, TableInv, PurgedIsFree
<1>6. \A u \in Tasks : LeaseStays(u)
  BY <1>1 DEF LeaseStays, SchedTypeOK, TaskRec
<1> QED BY <1>1, <1>3, <1>4, <1>5, <1>6, RunsUntouched DEF SchedInv, TableInv

(* Time passes.  A lease that outlasts a heartbeat still does after both    *)
(* have come nearer, for no heartbeat was due.                              *)
Older(x) == [x EXCEPT !.beat = Less(x.beat)]

LEMMA TickRuns ==
  ASSUME SchedInv, SchedTick
  PROVE  /\ replica' \in [Replicas -> ReplicaRec] /\ TokensDiffer'
         /\ \A r \in Replicas : \A z \in RunsOf(r)' : \E x \in RunsOf(r) :
               /\ SameRun(z, x) /\ z.at = x.at /\ z.beat = Less(x.beat)
               /\ x.beat # 0 /\ x.beat \in Int /\ x.task \in Tasks
<1>1. /\ replica \in [Replicas -> ReplicaRec] /\ TokensDiffer
      /\ replica' = [r \in Replicas |-> [replica[r] EXCEPT !.runs = {Older(x) : x \in replica[r].runs}]]
      /\ \A r \in Replicas : \A x \in RunsOf(r) : x.beat # 0
  BY DEF SchedInv, RunInv, SchedTypeOK, SchedTick, Older
<1>2. ASSUME NEW r \in Replicas, NEW x \in RunsOf(r)
      PROVE  /\ Older(x) \in RunRec /\ SameRun(Older(x), x) /\ Older(x).at = x.at
             /\ Older(x).beat = Less(x.beat) /\ x.beat # 0 /\ x.beat \in Int /\ x.task \in Tasks
  <2>1. x \in RunRec /\ x.beat \in -1..Renew /\ x.task \in Tasks
    BY RunTypes DEF SchedInv, RunRec
  <2>2. Less(x.beat) \in -1..Renew
    BY <2>1, SchedulerAssumption DEF Less
  <2> QED BY <1>1, <2>1, <2>2 DEF Older, RunRec, SameRun
<1>3. ASSUME NEW r \in Replicas
      PROVE  /\ replica'[r] \in ReplicaRec /\ replica'[r].runs = {Older(x) : x \in RunsOf(r)}
  <2> DEFINE runs == {Older(x) : x \in RunsOf(r)}
  <2>1. runs \subseteq RunRec
    BY <1>2
  <2>2. replica[r] \in ReplicaRec /\ replica'[r] = [replica[r] EXCEPT !.runs = runs]
    BY <1>1 DEF RunsOf
  <2> HIDE DEF runs
  <2>3. replica'[r] \in ReplicaRec /\ replica'[r].runs = runs
    BY <2>1, <2>2 DEF ReplicaRec
  <2> QED BY <2>3 DEF runs
<1>4. /\ replica' \in [Replicas -> ReplicaRec]
      /\ \A r \in Replicas : RunsOf(r)' = {Older(x) : x \in RunsOf(r)}
  BY <1>1, <1>3 DEF RunsOf
<1>5. \A r \in Replicas : \A z \in RunsOf(r)' : \E x \in RunsOf(r) : z = Older(x)
  BY <1>4
<1>6. ASSUME NEW r \in Replicas
      PROVE  IsFiniteSet(RunsOf(r)')
  <2> DEFINE older == [x \in RunsOf(r) |-> Older(x)]
  <2>1. older \in Surjection(RunsOf(r), {Older(x) : x \in RunsOf(r)})
    BY DEF Surjection
  <2>2. IsFiniteSet({Older(x) : x \in RunsOf(r)})
    BY <1>1, <2>1, FS_Surjection DEF TokensDiffer
  <2> QED BY <1>4, <2>2
<1>7. ASSUME NEW r \in Replicas, NEW q \in Replicas, NEW z \in RunsOf(r)', NEW w \in RunsOf(q)',
             z.token = w.token
      PROVE  r = q /\ z = w
  <2>1. PICK x \in RunsOf(r) : z = Older(x)
    BY <1>5
  <2>2. PICK y \in RunsOf(q) : w = Older(y)
    BY <1>5
  <2>3. x.token = y.token
    BY <1>2, <1>7, <2>1, <2>2 DEF SameRun
  <2> QED BY <1>1, <2>1, <2>2, <2>3 DEF TokensDiffer
<1>8. TokensDiffer'
  BY <1>6, <1>7 DEF TokensDiffer
<1>9. ASSUME NEW r \in Replicas, NEW z \in RunsOf(r)'
      PROVE  \E x \in RunsOf(r) : /\ SameRun(z, x) /\ z.at = x.at /\ z.beat = Less(x.beat)
                                  /\ x.beat # 0 /\ x.beat \in Int /\ x.task \in Tasks
  BY <1>2, <1>5
<1> QED BY <1>4, <1>8, <1>9

LEMMA SchedTickOK ==
  ASSUME SchedInv, SchedTick
  PROVE  SchedInv'
<1>1. /\ SchedTypeOK /\ task \in [Tasks -> TaskRec]
      /\ UNCHANGED <<due, manual, bounds, done, rewound, missed>>
      /\ task' = [t \in Tasks |-> [task[t] EXCEPT !.left = Less(task[t].left)]]
  BY DEF SchedInv, SchedTypeOK, SchedTick
<1>2. ASSUME NEW t \in Tasks
      PROVE  /\ task'[t] \in TaskRec /\ task'[t].left = Less(task[t].left) /\ task[t].left \in Nat
             /\ task'[t].pending = task[t].pending /\ task'[t].next = task[t].next
             /\ task'[t].status = task[t].status /\ task'[t].owner = task[t].owner
             /\ task'[t].token = task[t].token
  <2>1. task[t] \in TaskRec /\ task[t].left \in 0..LeaseLen /\ LeaseLen \in Nat
    BY <1>1, SchedulerAssumption DEF TaskRec
  <2>2. Less(task[t].left) \in 0..LeaseLen
    BY <2>1 DEF Less
  <2>3. task'[t] = [task[t] EXCEPT !.left = Less(task[t].left)]
    BY <1>1
  <2> DEFINE left == Less(task[t].left)
  <2>4. left \in 0..LeaseLen
    BY <2>2
  <2> HIDE DEF left
  <2>5. [task[t] EXCEPT !.left = left] \in TaskRec /\ [task[t] EXCEPT !.left = left].left = left
    BY <2>1, <2>4 DEF TaskRec
  <2>6. /\ [task[t] EXCEPT !.left = left].pending = task[t].pending
        /\ [task[t] EXCEPT !.left = left].next = task[t].next
        /\ [task[t] EXCEPT !.left = left].status = task[t].status
        /\ [task[t] EXCEPT !.left = left].owner = task[t].owner
        /\ [task[t] EXCEPT !.left = left].token = task[t].token
    BY <2>1 DEF TaskRec
  <2>7. task'[t] = [task[t] EXCEPT !.left = left] /\ left = Less(task[t].left) /\ task[t].left \in Nat
    BY <2>1, <2>3 DEF left
  <2> QED BY <2>5, <2>6, <2>7
<1>3. task' \in [Tasks -> TaskRec]
  BY <1>1, <1>2
<1>4. SchedTypeOK'
  BY <1>1, <1>3, TickRuns DEF SchedTypeOK
<1>5. TableInv'
  BY <1>1, <1>2, TableSame DEF SchedInv, TableInv, PurgedIsFree
<1>6. ASSUME NEW r \in Replicas, NEW z \in RunsOf(r)'
      PROVE  \E x \in RunsOf(r) :
                /\ SameRun(z, x) /\ z.at = x.at /\ z.beat = Less(x.beat)
                /\ x.beat # 0 /\ x.beat \in Int /\ x.task \in Tasks
                /\ Owns(r, z)' <=> Owns(r, x)
  <2>1. PICK x \in RunsOf(r) : /\ SameRun(z, x) /\ z.at = x.at /\ z.beat = Less(x.beat)
                               /\ x.beat # 0 /\ x.beat \in Int /\ x.task \in Tasks
    BY TickRuns
  <2> QED BY <1>2, <2>1 DEF SameRun, Owns
<1>7. LeaseNamesRun'
  BY <1>2, <1>6 DEF SchedInv, RunInv, LeaseNamesRun, SameRun
<1>8. LeaseOutlastsBeat'
  <2> SUFFICES ASSUME ~missed, NEW r \in Replicas, NEW z \in RunsOf(r)', Owns(r, z)', z.at # "leaving"
               PROVE  z.beat # -1 /\ z.beat < task'[z.task].left
    BY <1>1 DEF LeaseOutlastsBeat
  <2>1. PICK x \in RunsOf(r) : /\ SameRun(z, x) /\ z.at = x.at /\ z.beat = Less(x.beat)
                               /\ x.beat # 0 /\ x.beat \in Int /\ x.task \in Tasks
                               /\ Owns(r, z)' <=> Owns(r, x)
    BY <1>6
  <2>2. x.beat # -1 /\ x.beat < task[x.task].left /\ z.task = x.task
    BY <2>1 DEF SchedInv, RunInv, LeaseOutlastsBeat, SameRun
  <2>3. x.beat \in -1..Renew
    BY RunTypes DEF SchedInv, RunRec
  <2>4. task'[x.task].left = Less(task[x.task].left) /\ task[x.task].left \in Nat
    BY <1>2, <2>1
  <2>5. x.beat > 0
    BY <2>1, <2>2, <2>3, SchedulerAssumption
  <2> QED BY <2>1, <2>2, <2>4, <2>5 DEF Less
<1>9. WorkIsLeased'
  <2> SUFFICES ASSUME ~missed, NEW r \in Replicas, NEW z \in RunsOf(r)', AtTask(z)
               PROVE  Owns(r, z)' \/ task'[z.task].status = "purged"
    BY <1>1 DEF WorkIsLeased
  <2>1. PICK x \in RunsOf(r) : /\ SameRun(z, x) /\ z.at = x.at /\ x.task \in Tasks
                               /\ Owns(r, z)' <=> Owns(r, x)
    BY <1>6
  <2>2. Owns(r, x) \/ task[x.task].status = "purged"
    BY <2>1 DEF SchedInv, RunInv, WorkIsLeased, AtTask
  <2>3. task'[z.task].status = task[x.task].status
    BY <1>2, <2>1 DEF SameRun
  <2> QED BY <2>1, <2>2, <2>3
<1>10. OneAtWork'
  BY <1>1, <1>6 DEF SchedInv, RunInv, OneAtWork, AtTask, SameRun
<1> QED BY <1>4, <1>5, <1>7, <1>8, <1>9, <1>10, TickRuns DEF SchedInv, RunInv
-----------------------------------------------------------------------------
(* A claim.  Its token is new, and the run it dispatches is the only one    *)
(* that may come to work on the task: a lease whose run still works has     *)
(* not expired, as long as heartbeats get through.                          *)

LEMMA FreshToken ==
  ASSUME TokensDiffer, NEW t \in Tasks
  PROVE  Fresh(t) \in Nat /\ \A r \in Replicas : \A x \in RunsOf(r) : x.token # Fresh(t)
<1> DEFINE sets == {RunsOf(r) : r \in Replicas}
           all == UNION sets
           held == {x.token : x \in all}
<1>1. IsFiniteSet(sets)
  <2> DEFINE f == [r \in Replicas |-> RunsOf(r)]
  <2>1. f \in Surjection(Replicas, sets)
    BY DEF Surjection
  <2> QED BY <2>1, FS_Surjection, SchedulerAssumption
<1>2. IsFiniteSet(all)
  <2>1. \A T \in sets : IsFiniteSet(T)
    BY DEF TokensDiffer
  <2> HIDE DEF sets
  <2> QED BY <1>1, <2>1, FS_UNION
<1>3. IsFiniteSet(held)
  <2> HIDE DEF all
  <2> DEFINE f == [x \in all |-> x.token]
  <2>1. f \in Surjection(all, held)
    BY DEF Surjection
  <2> QED BY <1>2, <2>1, FS_Surjection
<1>4. Fresh(t) = CHOOSE n \in 1..Cardinality(held) + 1 : n \notin held
  BY DEF Fresh
<1>5. \A r \in Replicas : \A x \in RunsOf(r) : x.token \in held
  OBVIOUS
<1> HIDE DEF held
<1>6. Cardinality(held) \in Nat
  BY <1>3, FS_CardinalityType
<1>7. \E n \in 1..Cardinality(held) + 1 : n \notin held
  <2> DEFINE range == 1..Cardinality(held) + 1
  <2>1. Cardinality(range) = Cardinality(held) + 1
    BY <1>6, FS_Interval
  <2> HIDE DEF range
  <2>2. ~(range \subseteq held)
    BY <1>3, <1>6, <2>1, FS_Subset
  <2> QED BY <2>2 DEF range
<1>8. Fresh(t) \in 1..Cardinality(held) + 1 /\ Fresh(t) \notin held
  BY <1>4, <1>7
<1> QED BY <1>5, <1>6, <1>8

LEMMA NobodyAtWork ==
  ASSUME SchedInv, ~missed, NEW t \in Tasks, task[t].status # "purged", Expired(t),
         NEW q \in Replicas, NEW z \in RunsOf(q), z.task = t
  PROVE  ~AtTask(z)
<1> SUFFICES ASSUME AtTask(z) PROVE FALSE
  OBVIOUS
<1>1. Owns(q, z)
  BY DEF SchedInv, RunInv, WorkIsLeased
<1>2. task[t].left = 0
  BY <1>1, SchedulerAssumption DEF Owns, Expired
<1>3. z.beat # -1 /\ z.beat < task[t].left
  BY <1>1 DEF SchedInv, RunInv, LeaseOutlastsBeat, AtTask
<1>4. z.beat \in -1..Renew
  BY RunTypes DEF SchedInv, RunRec
<1> QED BY <1>2, <1>3, <1>4, SchedulerAssumption

LEMMA ClaimOK ==
  ASSUME SchedInv, NEW r \in Replicas, NEW t \in Tasks, Claim(r, t)
  PROVE  SchedInv'
<1> DEFINE new == task[t].pending = Null
           occurrence == IF new THEN task[t].next ELSE task[t].pending
           next == IF new THEN NextAfter(t, occurrence) ELSE task[t].next
           token == Fresh(t)
           rec == [task[t] EXCEPT !.owner = r, !.token = token, !.left = LeaseLen,
                                  !.pending = occurrence, !.next = next]
           y == [task |-> t, token |-> token, beat |-> Renew, occurrence |-> occurrence,
                 at |-> "waiting"]
           rep == [replica[r] EXCEPT !.running = replica[r].running \union {t},
                                     !.runs = RunsOf(r) \union {y}]
<1>1. /\ SchedTypeOK /\ task \in [Tasks -> TaskRec] /\ replica \in [Replicas -> ReplicaRec]
      /\ task[t] \in TaskRec /\ replica[r] \in ReplicaRec /\ due[t] \in Nat /\ due[t] <= Last[t]
      /\ task[t].next \in Occurrences \union {Null} /\ task[t].pending \in Occurrences \union {Null}
      /\ UNCHANGED <<due, manual, bounds, done, rewound, missed>>
  BY DEF SchedInv, SchedTypeOK, TaskRec, Claim
<1>2. /\ task[t].status = "on" /\ Expired(t)
      /\ ~new \/ task[t].next \in 1..due[t]
  BY DEF Claim, Claimable
<1>3. /\ task' = [task EXCEPT ![t] = rec]
      /\ replica' = [replica EXCEPT ![r] = rep]
  BY DEF Claim
<1>4. token \in Nat /\ \A q \in Replicas : \A x \in RunsOf(q) : x.token # token
  BY FreshToken DEF SchedInv, RunInv
<1>5. occurrence \in Occurrences /\ occurrence \in Nat /\ occurrence # Null
  <2>1. CASE new
    <3>1. task[t].next \in 1..Last[t]
      BY <1>1, <1>2, <2>1, SchedulerAssumption
    <3> QED BY <2>1, <3>1, OccurrenceRange
  <2>2. CASE ~new
    BY <1>1, <2>2, OccurrenceRange
  <2> QED BY <2>1, <2>2
<1>6. /\ next \in Occurrences \union {Null}
      /\ new => task[t].next = occurrence /\ occurrence <= due[t] /\ next \in {Null, occurrence + 1}
      /\ ~new => task[t].pending = occurrence /\ next = task[t].next
  BY <1>1, <1>2, <1>5, NextOccurrence
<1> HIDE DEF new, occurrence, next, token
<1>7. /\ rec \in TaskRec /\ rec.owner = r /\ rec.token = token /\ rec.left = LeaseLen
      /\ rec.pending = occurrence /\ rec.next = next /\ rec.status = "on"
  <2>1. LeaseLen \in 0..LeaseLen
    BY SchedulerAssumption
  <2> QED BY <1>1, <1>2, <1>4, <1>5, <1>6, <2>1 DEF TaskRec
<1>8. /\ y \in RunRec /\ y.task = t /\ y.token = token /\ y.beat = Renew
      /\ y.occurrence = occurrence /\ y.at = "waiting"
  <2>1. Renew \in -1..Renew
    BY SchedulerAssumption
  <2> QED BY <1>4, <1>5, <2>1 DEF RunRec
<1> HIDE DEF y, rec
<1>9. rep \in ReplicaRec /\ rep.runs = RunsOf(r) \union {y}
  BY <1>1, <1>8 DEF ReplicaRec, RunsOf
<1> HIDE DEF rep
<1>10. /\ task' \in [Tasks -> TaskRec] /\ task'[t] = rec
       /\ \A u \in Tasks \ {t} : task'[u] = task[u]
  BY <1>1, <1>3, <1>7
<1>11. /\ replica' \in [Replicas -> ReplicaRec] /\ RunsOf(r)' = RunsOf(r) \union {y}
       /\ \A q \in Replicas \ {r} : RunsOf(q)' = RunsOf(q)
  BY <1>1, <1>3, <1>9 DEF RunsOf
<1>12. SchedTypeOK'
  BY <1>1, <1>10, <1>11 DEF SchedTypeOK
<1>13. DoneBehind'
  <2> SUFFICES ASSUME NEW u \in Tasks, NEW o \in Occurrences
               PROVE  Counted(o, done[u][o], task'[u], due[u]) <= 1 + rewound[u][o]
    BY <1>1 DEF DoneBehind
  <2>1. /\ Counted(o, done[u][o], task[u], due[u]) <= 1 + rewound[u][o]
        /\ o \in Nat /\ done[u][o] \in Nat /\ rewound[u][o] \in Nat
    BY OccurrenceRange DEF SchedInv, TableInv, DoneBehind, SchedTypeOK
  <2>2. CASE u # t
    BY <1>10, <2>1, <2>2
  <2>3. CASE u = t /\ ~new
    BY <1>6, <1>7, <1>10, <2>1, <2>3 DEF Counted
  <2>4. CASE u = t /\ new
    <3>1. o # task[t].pending
      BY <2>4, OccurrenceRange DEF new
    <3>2. o = occurrence => ~Behind(o, due[t], task[t].next) /\ Behind(o, due[t], next)
      BY <1>5, <1>6, <2>4 DEF Behind
    <3>3. o # occurrence /\ Behind(o, due[t], task[t].next) => Behind(o, due[t], next)
      BY <1>5, <1>6, <2>1, <2>4 DEF Behind
    <3> QED BY <1>7, <1>10, <2>1, <2>4, <3>1, <3>2, <3>3 DEF Counted
  <2> QED BY <2>2, <2>3, <2>4
<1>14. TableInv'
  <2>1. PurgedIsFree'
    BY <1>7, <1>10 DEF SchedInv, TableInv, PurgedIsFree
  <2> QED BY <1>13, <2>1 DEF TableInv
<1>15. TokensDiffer'
  <2>1. \A q \in Replicas : IsFiniteSet(RunsOf(q)')
    BY <1>11, FS_AddElement DEF SchedInv, RunInv, TokensDiffer
  <2>2. \A q, p \in Replicas : \A z \in RunsOf(q)', w \in RunsOf(p)' : z.token = w.token => q = p /\ z = w
    BY <1>4, <1>8, <1>11 DEF SchedInv, RunInv, TokensDiffer
  <2> QED BY <2>1, <2>2 DEF TokensDiffer
<1>16. \A q \in Replicas : \A z \in RunsOf(q) : z.task \in Tasks
  BY RunTypes DEF SchedInv
<1>17. ASSUME NEW q \in Replicas, NEW z \in RunsOf(q)'
       PROVE  \/ q = r /\ z = y
              \/ z \in RunsOf(q) /\ z.task # t /\ (Owns(q, z)' <=> Owns(q, z))
              \/ z \in RunsOf(q) /\ z.task = t /\ ~Owns(q, z)'
  <2>1. (q = r /\ z = y) \/ z \in RunsOf(q)
    BY <1>11
  <2>2. CASE z \in RunsOf(q) /\ z.task # t
    BY <1>10, <1>16, <2>2 DEF Owns
  <2>3. CASE z \in RunsOf(q) /\ z.task = t
    BY <1>4, <1>7, <1>10, <2>3 DEF Owns
  <2> QED BY <2>1, <2>2, <2>3
<1>18. LeaseNamesRun'
  <2> SUFFICES ASSUME NEW q \in Replicas, NEW z \in RunsOf(q)', Owns(q, z)'
               PROVE  task'[z.task].pending = z.occurrence
    BY DEF LeaseNamesRun
  <2>1. CASE q = r /\ z = y
    BY <1>7, <1>8, <1>10, <2>1
  <2>2. CASE z \in RunsOf(q) /\ z.task # t /\ Owns(q, z)
    BY <1>10, <1>16, <2>2 DEF SchedInv, RunInv, LeaseNamesRun
  <2> QED BY <1>17, <2>1, <2>2
<1>19. LeaseOutlastsBeat'
  <2> SUFFICES ASSUME ~missed, NEW q \in Replicas, NEW z \in RunsOf(q)', Owns(q, z)', z.at # "leaving"
               PROVE  z.beat # -1 /\ z.beat < task'[z.task].left
    BY <1>1 DEF LeaseOutlastsBeat
  <2>1. CASE q = r /\ z = y
    BY <1>7, <1>8, <1>10, <2>1, SchedulerAssumption
  <2>2. CASE z \in RunsOf(q) /\ z.task # t /\ Owns(q, z)
    BY <1>10, <1>16, <2>2 DEF SchedInv, RunInv, LeaseOutlastsBeat
  <2> QED BY <1>17, <2>1, <2>2
<1>20. \A q \in Replicas : \A z \in RunsOf(q)' :
          ~missed /\ AtTask(z) => z \in RunsOf(q) /\ z.task # t
  BY <1>2, <1>8, <1>17, NobodyAtWork DEF AtTask
<1>21. WorkIsLeased'
  <2> SUFFICES ASSUME ~missed, NEW q \in Replicas, NEW z \in RunsOf(q)', AtTask(z)
               PROVE  Owns(q, z)' \/ task'[z.task].status = "purged"
    BY <1>1 DEF WorkIsLeased
  <2>1. z \in RunsOf(q) /\ z.task # t /\ z.task \in Tasks
    BY <1>16, <1>20
  <2>2. Owns(q, z) \/ task[z.task].status = "purged"
    BY <2>1 DEF SchedInv, RunInv, WorkIsLeased
  <2> QED BY <1>10, <2>1, <2>2 DEF Owns
<1>22. OneAtWork'
  BY <1>1, <1>20 DEF SchedInv, RunInv, OneAtWork
<1> QED BY <1>12, <1>14, <1>15, <1>18, <1>19, <1>21, <1>22 DEF SchedInv, RunInv
-----------------------------------------------------------------------------
(* The invariant. *)

LEMMA InitSchedInv == SchedInit => SchedInv
<1> SUFFICES ASSUME SchedInit PROVE SchedInv
  OBVIOUS
<1>1. \A r \in Replicas : RunsOf(r) = {}
  BY DEF SchedInit, RunsOf
<1>2. RunInv
  BY <1>1, FS_EmptySet DEF RunInv, TokensDiffer, LeaseNamesRun, LeaseOutlastsBeat, WorkIsLeased, OneAtWork
<1>3. TableInv
  <2>1. \A t \in Tasks : \A o \in Occurrences : Counted(o, done[t][o], task[t], due[t]) <= 1 + rewound[t][o]
    BY OccurrenceRange DEF SchedInit, Counted
  <2>2. PurgedIsFree
    BY DEF SchedInit, PurgedIsFree
  <2> QED BY <2>1, <2>2 DEF TableInv, DoneBehind
<1>4. \A t \in Tasks : 1 \in Occurrences
  BY OccurrenceRange, SchedulerAssumption
<1>5. task \in [Tasks -> TaskRec]
  <2> DEFINE rec == [status |-> "on", deleted |-> FALSE, next |-> 1, pending |-> Null,
                     owner |-> Nobody, token |-> Null, left |-> 0, completed |-> 0]
  <2>1. Null \in Nat /\ 0 \in 0..LeaseLen
    BY SchedulerAssumption DEF Null
  <2>2. \A t \in Tasks : rec \in TaskRec
    BY <1>4, <2>1 DEF TaskRec
  <2> QED BY <2>2 DEF SchedInit
<1>6. /\ due \in [Tasks -> Nat] /\ \A t \in Tasks : due[t] <= Last[t]
      /\ replica \in [Replicas -> ReplicaRec]
  BY SchedulerAssumption DEF SchedInit, ReplicaRec
<1>7. manual \in [Tasks -> ManualRec] /\ missed \in BOOLEAN
  BY DEF SchedInit, NoManual, ManualRec
<1>8. /\ bounds \in [faults : 0..MaxFaults, manuals : [Tasks -> Nat], edits : [Tasks -> Nat]]
      /\ done \in [Tasks -> [Occurrences -> Nat]] /\ rewound \in [Tasks -> [Occurrences -> Nat]]
  BY SchedulerAssumption DEF SchedInit
<1>9. SchedTypeOK
  BY <1>5, <1>6, <1>7, <1>8 DEF SchedTypeOK
<1> QED BY <1>2, <1>3, <1>9 DEF SchedInv

LEMMA StutterOK ==
  ASSUME SchedInv, UNCHANGED svars
  PROVE  SchedInv'
<1>1. UNCHANGED <<task, due, replica, manual, bounds, done, rewound, missed>> /\ SchedTypeOK
  BY DEF svars, SchedInv
<1>2. SchedTypeOK'
  BY <1>1 DEF SchedTypeOK
<1>3. TableInv'
  BY <1>1, TableSame DEF SchedInv, TableInv, PurgedIsFree
<1>4. \A u \in Tasks : LeaseStays(u)
  BY <1>1 DEF LeaseStays, SchedTypeOK, TaskRec
<1> QED BY <1>1, <1>2, <1>3, <1>4, RunsUntouched DEF SchedInv

(* What a step may be, with its replica, run or task. *)
LEMMA StepCases ==
  ASSUME SchedNext
  PROVE  \/ SchedTick
         \/ \E t \in Tasks : Arrive(t) \/ ManualRead(t) \/ ManualWrite(t) \/ Edit(t)
         \/ \E r \in Replicas, t \in Tasks : Claim(r, t)
         \/ \E r \in Replicas : \E x \in RunsOf(r) :
               \/ Beat(r, x) \/ BeatFails(r, x) \/ Begin(r, x) \/ Reload(r, x) \/ Raise(r, x)
               \/ Complete(r, x) \/ Release(r, x) \/ ReleaseFails(r, x)
         \/ \E r \in Replicas : Stop(r) \/ ReleaseOwned(r) \/ Crash(r) \/ Start(r)
  BY DEF SchedNext, Proceeds

LEMMA StepSchedInv == SchedInv /\ [SchedNext]_svars => SchedInv'
<1> SUFFICES ASSUME SchedInv, [SchedNext]_svars PROVE SchedInv'
  OBVIOUS
<1>1. CASE SchedTick
  BY <1>1, SchedTickOK
<1>2. CASE \E t \in Tasks : Arrive(t) \/ ManualRead(t) \/ ManualWrite(t) \/ Edit(t)
  BY <1>2, ArriveOK, ManualReadOK, ManualWriteOK, EditOK
<1>3. CASE \E r \in Replicas, t \in Tasks : Claim(r, t)
  BY <1>3, ClaimOK
<1>4. CASE \E r \in Replicas : \E x \in RunsOf(r) :
              \/ Beat(r, x) \/ BeatFails(r, x) \/ Begin(r, x) \/ Reload(r, x) \/ Raise(r, x)
              \/ Complete(r, x) \/ Release(r, x) \/ ReleaseFails(r, x)
  BY <1>4, BeatOK, BeatFailsOK, BeginReloadRaiseOK, CompleteOK, ReleaseOK
<1>5. CASE \E r \in Replicas : Stop(r) \/ ReleaseOwned(r) \/ Crash(r) \/ Start(r)
  BY <1>5, StopOK, StopsOK, StartOK
<1>6. CASE UNCHANGED svars
  BY <1>6, StutterOK
<1> QED BY <1>1, <1>2, <1>3, <1>4, <1>5, <1>6, StepCases

(* Every state of the scheduler satisfies the invariant. *)
THEOREM SchedInvariant == SchedSpec => []SchedInv
  BY InitSchedInv, StepSchedInv, PTL DEF SchedSpec

(* The state has its types: a claimed task has an occurrence of its         *)
(* schedule, a lease no longer than LEASE_SECONDS and a known owner.        *)
THEOREM SchedTypes == SchedSpec => []SchedTypeOK
<1>1. SchedInv => SchedTypeOK
  BY DEF SchedInv
<1> QED BY <1>1, SchedInvariant, PTL

(* No occurrence is completed twice, whatever leases are lost, taken over   *)
(* or released and whatever is edited in between, unless the end of a       *)
(* manual run has put it back, and then once more for each time.            *)
THEOREM CompletedAtMostOnce == SchedSpec => []CompletedOnce
<1>1. ASSUME SchedInv, NEW t \in Tasks, NEW o \in Occurrences
      PROVE  done[t][o] <= 1 + rewound[t][o]
  <2>1. /\ Counted(o, done[t][o], task[t], due[t]) <= 1 + rewound[t][o]
        /\ done[t][o] \in Nat /\ rewound[t][o] \in Nat
    BY <1>1 DEF SchedInv, TableInv, DoneBehind, SchedTypeOK
  <2> QED BY <2>1 DEF Counted
<1>2. SchedInv => CompletedOnce
  BY <1>1 DEF CompletedOnce
<1> QED BY <1>2, SchedInvariant, PTL

(* While no heartbeat has failed, at most one run the scheduler started is  *)
(* at work on a task, over any number of replicas.                          *)
THEOREM NoOverlappingRuns == SchedSpec => []OneRunAtATime
<1>1. ASSUME SchedInv, ~missed, NEW t \in Tasks
      PROVE  Cardinality(AtWork(t)) <= 1
  <2>1. ASSUME NEW p \in AtWork(t), NEW w \in AtWork(t)
        PROVE  p = w
    <3>1. \A v \in AtWork(t) : \E q \in Replicas : \E x \in RunsOf(q) :
             v = <<q, x>> /\ x.task = t /\ AtTask(x)
      BY DEF AtWork, AtTask
    <3>2. PICK r \in Replicas : \E x \in RunsOf(r) : p = <<r, x>> /\ x.task = t /\ AtTask(x)
      BY <3>1
    <3>3. PICK q \in Replicas : \E y \in RunsOf(q) : w = <<q, y>> /\ y.task = t /\ AtTask(y)
      BY <3>1
    <3>4. PICK x \in RunsOf(r) : p = <<r, x>> /\ x.task = t /\ AtTask(x)
      BY <3>2
    <3>5. PICK y \in RunsOf(q) : w = <<q, y>> /\ y.task = t /\ AtTask(y)
      BY <3>3
    <3>6. x.token = y.token
      BY <1>1, <3>4, <3>5 DEF SchedInv, RunInv, OneAtWork
    <3> QED BY <1>1, <3>4, <3>5, <3>6 DEF SchedInv, RunInv, TokensDiffer
  <2>2. CASE AtWork(t) = {}
    BY <2>2, FS_EmptySet
  <2>3. CASE AtWork(t) # {}
    <3>1. PICK p \in AtWork(t) : TRUE
      BY <2>3
    <3>2. AtWork(t) = {p}
      BY <2>1, <3>1
    <3> QED BY <3>2, FS_Singleton
  <2> QED BY <2>2, <2>3
<1>2. SchedInv => OneRunAtATime
  BY <1>1 DEF OneRunAtATime
<1> QED BY <1>2, SchedInvariant, PTL
-----------------------------------------------------------------------------
(* What is owed.  An occurrence stays owed as long as its task stays on,    *)
(* the schedule does not move beyond it, and it is not given up unfinished. *)
LEMMA StillOwed ==
  ASSUME SchedTypeOK, NEW t \in Tasks, NEW o \in Owed(t), due'[t] \in Nat, due'[t] >= due[t],
         task'[t].status = "on",
         \/ o = task'[t].pending
         \/ /\ task'[t].next = task[t].next
            /\ task'[t].pending = task[t].pending
  PROVE  o \in Owed(t)'
  BY DEF SchedTypeOK, Owed

LEMMA SkippedByStep ==
  ASSUME SchedInv, SchedInv', SchedNext, NEW t \in Tasks, NEW o \in Owed(t), o \notin Owed(t)'
  PROVE  \/ done'[t][o] = done[t][o] + 1
         \/ LimitReached(t, task'[t].completed)
         \/ manual'[t] # manual[t] \/ bounds'.edits[t] # bounds.edits[t]
<1>1. /\ task[t] \in TaskRec /\ task \in [Tasks -> TaskRec] /\ due[t] \in Nat /\ due'[t] \in Nat
      /\ task'[t] \in TaskRec /\ SchedTypeOK /\ due \in [Tasks -> Nat] /\ manual \in [Tasks -> ManualRec]
  BY DEF SchedInv, SchedTypeOK
<1>2. /\ o \in 1..due[t] /\ task[t].status = "on"
      /\ o = task[t].pending \/ (task[t].next # Null /\ o >= task[t].next)
  BY DEF Owed
<1>3. ASSUME due'[t] >= due[t], task'[t].status = "on",
             \/ o = task'[t].pending
             \/ task'[t].next = task[t].next /\ task'[t].pending = task[t].pending
      PROVE  FALSE
  BY <1>1, <1>3, StillOwed
<1>4. CASE SchedTick
  <2>1. /\ task'[t].status = task[t].status /\ task'[t].next = task[t].next
        /\ task'[t].pending = task[t].pending /\ due'[t] = due[t]
    BY <1>1, <1>4 DEF SchedTick, TaskRec
  <2> QED BY <1>1, <1>2, <1>3, <2>1
<1>5. CASE \E u \in Tasks : Arrive(u)
  <2>1. PICK u \in Tasks : Arrive(u)
    BY <1>5
  <2>2. task' = task /\ due' = [due EXCEPT ![u] = due[u] + 1]
    BY <2>1 DEF Arrive
  <2>3. due'[t] >= due[t]
    BY <1>1, <2>2
  <2> QED BY <1>2, <1>3, <2>2, <2>3
<1>6. CASE \E u \in Tasks : ManualRead(u)
  BY <1>1, <1>2, <1>3, <1>6 DEF ManualRead
<1>7. CASE \E u \in Tasks : ManualWrite(u)
  <2>1. PICK u \in Tasks : ManualWrite(u)
    BY <1>7
  <2>2. CASE u = t
    <3>1. manual[t].at = "writing" /\ manual' = [manual EXCEPT ![t] = NoManual]
      BY <2>1, <2>2 DEF ManualWrite
    <3>2. manual'[t].at = "none"
      BY <1>1, <3>1 DEF NoManual
    <3> QED BY <3>1, <3>2
  <2>3. CASE u # t
    <3>1. task'[t] = task[t] /\ due' = due
      BY <1>1, <2>1, <2>3 DEF ManualWrite
    <3> QED BY <1>1, <1>2, <1>3, <3>1
  <2> QED BY <2>2, <2>3
<1>8. CASE \E u \in Tasks : Edit(u)
  <2>1. PICK u \in Tasks : Edit(u)
    BY <1>8
  <2>2. CASE u = t
    <3>1. bounds \in [faults : 0..MaxFaults, manuals : [Tasks -> Nat], edits : [Tasks -> Nat]]
      BY <1>1 DEF SchedTypeOK
    <3>2. bounds' = [bounds EXCEPT !.edits[t] = @ + 1]
      BY <2>1, <2>2 DEF Edit
    <3>3. bounds'.edits[t] = bounds.edits[t] + 1 /\ bounds.edits[t] \in Nat
      BY <3>1, <3>2
    <3> QED BY <3>3
  <2>3. CASE u # t
    <3>1. task'[t] = task[t] /\ due' = due
      BY <1>1, <2>1, <2>3 DEF Edit
    <3> QED BY <1>1, <1>2, <1>3, <3>1
  <2> QED BY <2>2, <2>3
<1>9. CASE \E r \in Replicas, u \in Tasks : Claim(r, u)
  <2>1. PICK r \in Replicas, u \in Tasks : Claim(r, u)
    BY <1>9
  <2>2. CASE u # t
    <3>1. task'[t] = task[t] /\ due' = due
      BY <1>1, <2>1, <2>2 DEF Claim
    <3> QED BY <1>1, <1>2, <1>3, <3>1
  <2>3. CASE u = t /\ task[t].pending # Null
    <3>1. /\ task'[t].status = task[t].status /\ task'[t].next = task[t].next
          /\ task'[t].pending = task[t].pending /\ due' = due
      BY <1>1, <2>1, <2>3 DEF Claim, TaskRec
    <3> QED BY <1>1, <1>2, <1>3, <3>1
  <2>4. CASE u = t /\ task[t].pending = Null
    <3> DEFINE first == task[t].next
    <3>1. /\ task'[t].status = "on" /\ task'[t].next = NextAfter(t, first)
          /\ task'[t].pending = first /\ due' = due /\ first \in 1..due[t]
      BY <1>1, <1>2, <2>1, <2>4 DEF Claim, Claimable, TaskRec
    <3>2. first \in Nat /\ o \in Nat /\ o >= first /\ o <= due[t] /\ due[t] <= Last[t]
      BY <1>1, <1>2, <2>4, <3>1 DEF SchedTypeOK, Null
    <3> HIDE DEF first
    <3>3. o = first \/ o >= first + 1
      BY <3>2
    <3>4. o # first => NextAfter(t, first) # Null /\ NextAfter(t, first) = first + 1
      <4>1. Last[t] \in Nat
        BY SchedulerAssumption
      <4>2. o # first => first < Last[t]
        BY <1>1, <3>2, <3>3, <4>1
      <4> QED BY <3>2, <4>2, NextOccurrence
    <3>5. o \in Owed(t)'
      BY <1>1, <1>2, <3>1, <3>3, <3>4 DEF Owed
    <3> QED BY <3>5
  <2> QED BY <2>2, <2>3, <2>4
<1>10. CASE \E r \in Replicas : \E x \in RunsOf(r) : Complete(r, x)
  <2>1. PICK r \in Replicas : \E x \in RunsOf(r) : Complete(r, x)
    BY <1>10
  <2>2. PICK x \in RunsOf(r) : Complete(r, x)
    BY <2>1
  <2>3. x.task \in Tasks /\ x.occurrence \in Occurrences
    BY <1>1, RunTypes DEF RunRec
  <2>4. CASE ~StillLeased(r, x) \/ x.task # t
    <3>1. task'[t] = task[t] /\ due' = due
      BY <1>1, <2>2, <2>4 DEF Complete
    <3> QED BY <1>1, <1>2, <1>3, <3>1
  <2>5. CASE StillLeased(r, x) /\ x.task = t
    <3>1. /\ task' = [task EXCEPT ![t] = Completed(t)] /\ due' = due
          /\ done' = [done EXCEPT ![t][x.occurrence] = @ + 1]
      BY <2>2, <2>5 DEF Complete
    <3>2. x.occurrence = task[t].pending
      BY <2>5 DEF StillLeased, SchedInv, RunInv, LeaseNamesRun
    <3>3. CASE o = x.occurrence
      BY <1>1, <2>3, <3>1, <3>3 DEF SchedTypeOK
    <3>4. CASE o # x.occurrence /\ ~LimitReached(t, task[t].completed + 1)
      <4>1. task[t].next # Null /\ o >= task[t].next
        BY <1>2, <3>2, <3>4
      <4>2. task'[t].next = task[t].next /\ task'[t].status = "on"
        BY <1>1, <1>2, <3>1, <3>4, <4>1, CompletedTask
      <4>3. o \in Owed(t)'
        BY <1>2, <3>1, <4>1, <4>2 DEF Owed
      <4> QED BY <4>3
    <3>5. CASE LimitReached(t, task[t].completed + 1)
      BY <1>1, <3>1, <3>5, CompletedTask
    <3> QED BY <3>3, <3>4, <3>5
  <2> QED BY <2>4, <2>5
<1>11. CASE \E r \in Replicas : \E x \in RunsOf(r) :
               \/ Beat(r, x) \/ BeatFails(r, x) \/ Begin(r, x) \/ Reload(r, x) \/ Raise(r, x)
               \/ Release(r, x) \/ ReleaseFails(r, x)
  <2>1. PICK r \in Replicas : \E x \in RunsOf(r) :
               \/ Beat(r, x) \/ BeatFails(r, x) \/ Begin(r, x) \/ Reload(r, x) \/ Raise(r, x)
               \/ Release(r, x) \/ ReleaseFails(r, x)
    BY <1>11
  <2>2. PICK x \in RunsOf(r) :
               \/ Beat(r, x) \/ BeatFails(r, x) \/ Begin(r, x) \/ Reload(r, x) \/ Raise(r, x)
               \/ Release(r, x) \/ ReleaseFails(r, x)
    BY <2>1
  <2>3. x.task \in Tasks /\ task[x.task] \in TaskRec
    BY <1>1, RunTypes
  <2>4. /\ due' = due
        /\ \/ task' = task
           \/ task' = [task EXCEPT ![x.task].left = LeaseLen]
           \/ task' = [task EXCEPT ![x.task] = Unowned(task[x.task])]
    BY <2>2 DEF Beat, BeatFails, Begin, Reload, Raise, Release, ReleaseFails
  <2>5. /\ task'[t].status = task[t].status /\ task'[t].next = task[t].next
        /\ task'[t].pending = task[t].pending
    BY <1>1, <2>3, <2>4, UnownedTask DEF TaskRec
  <2> QED BY <1>1, <1>2, <1>3, <2>4, <2>5
<1>12. CASE \E r \in Replicas : Stop(r)
  BY <1>1, <1>2, <1>3, <1>12 DEF Stop
<1>13. CASE \E r \in Replicas : ReleaseOwned(r)
  <2>1. due' = due /\ (task'[t] = task[t] \/ task'[t] = Unowned(task[t]))
    BY <1>1, <1>13 DEF ReleaseOwned
  <2> QED BY <1>1, <1>2, <1>3, <2>1, UnownedTask
<1>14. CASE \E r \in Replicas : Crash(r)
  <2>1. due' = due /\ (task'[t] = task[t] \/ task'[t] = [task[t] EXCEPT !.owner = Gone])
    BY <1>1, <1>14 DEF Crash
  <2>2. /\ task'[t].status = task[t].status /\ task'[t].next = task[t].next
        /\ task'[t].pending = task[t].pending
    BY <1>1, <2>1 DEF TaskRec
  <2> QED BY <1>1, <1>2, <1>3, <2>1, <2>2
<1>15. CASE \E r \in Replicas : Start(r)
  <2>1. due' = due /\ (task'[t] = task[t] \/ (task[t].pending = Null /\ task[t].next = Null))
    BY <1>1, <1>15 DEF Start
  <2>2. task'[t] = task[t]
    BY <1>2, <2>1 DEF Null
  <2> QED BY <1>1, <1>2, <1>3, <2>1, <2>2
<1> QED BY <1>4, <1>5, <1>6, <1>7, <1>8, <1>9, <1>10, <1>11, <1>12, <1>13, <1>14, <1>15, StepCases

(* An occurrence that is owed ceases to be only by being completed, by the  *)
(* run limit, or by an edit or the end of a manual run.                     *)
THEOREM NoOccurrenceSkipped == SchedSpec => NothingSkipped
<1> DEFINE Step == \A t \in Tasks : \A o \in Owed(t) \ Owed(t)' :
                      \/ done'[t][o] = done[t][o] + 1
                      \/ LimitReached(t, task'[t].completed)
                      \/ manual'[t] # manual[t] \/ bounds'.edits[t] # bounds.edits[t]
<1>1. SchedInv /\ SchedInv' /\ [SchedNext]_svars => [Step]_svars
  BY SkippedByStep
<1>2. NothingSkipped <=> [][Step]_svars
  BY DEF NothingSkipped
<1> HIDE DEF Step
<1> QED BY <1>1, <1>2, SchedInvariant, PTL DEF SchedSpec
=============================================================================
