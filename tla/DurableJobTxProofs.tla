--------------------------- MODULE DurableJobTxProofs ---------------------------
(***************************************************************************)
(* The statements of DurableJobTx, run by any number of sessions, do to    *)
(* the tables what the transactions of DurableJobStore do in one step.     *)
(*                                                                         *)
(* The proof is of the rely-guarantee kind.  Sees(s) is what session s     *)
(* relies on between two of its statements; Careful(s) is what a step of s *)
(* guarantees to the others.  A careful step of one session preserves what *)
(* every other session relies on (SeesStable), and each statement is       *)
(* careful, establishes what its own session relies on next, and is a step *)
(* of DurableJobStore or changes no table.                                 *)
(***************************************************************************)
EXTENDS DurableJobTx, DurableJobStoreProofs

Timed == {"claim", "heartbeat", "finalize", "interrupt"}
Caller(s) == [job |-> tx[s].id, token |-> tx[s].token]

(* What a session relies on.  Its reading of the clock is recent and leaves *)
(* room for a lease; the caller of a fenced operation holds a claim; what   *)
(* was read under a lock is still so, and what was read without one is of a *)
(* kind nobody changes: a terminal job stays terminal or is removed, and    *)
(* the slot never comes to point to it again.                               *)
ClockRecent(s) ==
    tx[s].op \in Timed =>
        /\ tx[s].now <= clock /\ clock <= tx[s].now + MaxSkew
        /\ tx[s].op \in {"claim", "heartbeat"} => tx[s].now + LeaseLen <= MaxTime
CallerHolds(s) ==
    tx[s].op \in {"heartbeat", "finalize"} =>
        /\ Caller(s) \in claims
        /\ tx[s].at = "slot" => jobLock[tx[s].id] = s /\ Fenced(Caller(s))
ClaimSees(s) ==
    tx[s].op = "claim" /\ tx[s].at \in {"read", "job"} =>
        /\ slotLock = s /\ slot.job = tx[s].id
        /\ slot.lease = None \/ slot.lease <= tx[s].now
        /\ tx[s].at = "job" => (tx[s].runs <=> CurrentRuns)
InterruptSees(s) ==
    /\ tx[s].op \in {"cancel", "interrupt"} /\ tx[s].at # "begin" => tx[s].id \in Jobs
    /\ At(s, "interrupt", "slot") =>
          jobLock[tx[s].id] = s /\ slot.job = tx[s].id /\ Lapsed(slot.lease, tx[s].now)
Dead(j, alone) ==
    \/ job[j].status = "removed"
    \/ Terminal(j) /\ (alone \/ Lapsed(job[j].expires, clock))
RemoveSees(s) ==
    tx[s].op = "remove" =>
        /\ \A j \in tx[s].dead : Dead(j, tx[s].dead = {j})
        /\ tx[s].at = "job" => slotLock = s \/ slot.job \notin tx[s].dead
Sees(s) == ClockRecent(s) /\ CallerHolds(s) /\ ClaimSees(s) /\ InterruptSees(s) /\ RemoveSees(s)

(* Every claim in flight has a token left to take. *)
Claiming == {s \in Sessions : tx[s].op = "claim"}
TokensLast == IsFiniteSet(Claiming) /\ lastToken + Cardinality(Claiming) <= MaxToken

(* More facts about the tables: the slot points to a row that exists, and a *)
(* removed row has left nothing, no event either.                           *)
SlotHasRow == slot.job # NoJob => job[slot.job].status \notin {"unborn", "removed"}
RemovedIsBlank == \A j \in Jobs : job[j].status = "removed" => job[j] = NoRow("removed")
TablesOK == IInv /\ SlotHasRow /\ RemovedIsBlank /\ NoOrphanEvents

TxInv == TablesOK /\ TxTypeOK /\ TokensLast /\ \A s \in Sessions : Sees(s)

(* What a step of `who` guarantees to the other sessions.  The writes of a  *)
(* row are under its lock, taken or free, but for a row nobody knows yet;   *)
(* the slot of a running job is written under both locks; and time passes   *)
(* only as far as every open transaction allows.                            *)
Careful(who) ==
    /\ claims \subseteq claims'
    /\ clock <= clock' /\ clock' \in Time
    /\ slot' # slot => slotLock \in {NoSession, who}
                       /\ (CurrentRuns => jobLock[slot.job] \in {NoSession, who})
    /\ \A j \in Jobs : job'[j] # job[j] =>
          jobLock[j] \in {NoSession, who} \/ job[j].status = "unborn"
    /\ \A t \in Sessions \ {who} :
          /\ tx'[t] = tx[t]
          /\ tx[t].op \in Timed => clock' <= tx[t].now + MaxSkew
          /\ slotLock = t => slotLock' = t
          /\ \A j \in Jobs : jobLock[j] = t => jobLock'[j] = t

StepOK(s) == [Next]_vars /\ Careful(s) /\ TxTypeOK' /\ TokensLast' /\ Sees(s)'
-----------------------------------------------------------------------------
(* The tables. *)

(* A removed row stays removed, and only a claim changes where the slot     *)
(* points to, other than to nothing: to a row it inserts.                   *)
RowsKept ==
    /\ \A j \in Jobs : job[j].status = "removed" => job'[j] = job[j] \/ job'[j] = NoRow("removed")
    /\ \A j \in Jobs : job[j].status # "unborn" => job'[j].status # "unborn"
    /\ \A j \in Jobs : job[j].status # "removed" /\ job'[j].status = "removed" =>
          job'[j] = NoRow("removed") /\ slot'.job # j
    /\ \/ slot'.job \in {slot.job, NoJob}
       \/ /\ slot'.job \in Jobs
          /\ job[slot'.job].status = "unborn" /\ job'[slot'.job].status = "running"

LEMMA StepRows == IInv /\ [Next]_vars => RowsKept
<1> SUFFICES ASSUME IInv, [Next]_vars PROVE RowsKept
  OBVIOUS
<1> USE StoreAssumption DEF IInv
<1>1. CASE Tick \/ UNCHANGED vars
  BY <1>1 DEF RowsKept, Tick, vars
<1>2. CASE RequestCancel
  <2>1. /\ slot.job \in Jobs /\ job[slot.job].status = "running" /\ slot' = slot
        /\ job'[slot.job].status = "running"
        /\ \A j \in Jobs : j # slot.job => job'[j] = job[j]
    BY <1>2 DEF RequestCancel, CurrentRuns, Running, TypeOK, SlotRow, Row
  <2> QED BY <2>1 DEF RowsKept
<1>3. CASE \E j \in Jobs : Dismiss(j)
  BY <1>3 DEF RowsKept, Dismiss, Detach, Remove, NoRow, TypeOK, SlotRow
<1>4. ASSUME NEW now \in Now, NEW S \in SUBSET Jobs, Cleanup(S, now)
      PROVE  RowsKept
  BY <1>4 DEF RowsKept, Cleanup, Detach, Remove, NoRow, TypeOK, SlotRow
<1>5. ASSUME NEW now \in Now, ClaimRecover(now)
      PROVE  RowsKept
  BY <1>5 DEF RowsKept, ClaimRecover, TakeSlot, CurrentRuns, Running, NextRun, TypeOK
<1>6. ASSUME NEW now \in Now, NEW j \in Jobs, ClaimNew(j, now)
      PROVE  RowsKept
  BY <1>6 DEF RowsKept, ClaimNew, TakeSlot, FirstRun, TypeOK
<1>7. ASSUME NEW now \in Now, InterruptExpired(now)
      PROVE  RowsKept
  BY <1>7 DEF RowsKept, InterruptExpired, CurrentRuns, FreeSlot, Running, Ended, TypeOK
<1>8. ASSUME NEW c \in claims, NEW n \in 1..MaxBatch, AppendEvents(c, n)
      PROVE  RowsKept
  <2>1. /\ c.job \in Jobs /\ job[c.job].status = "running" /\ slot'.job = slot.job
        /\ job'[c.job].status = "running"
        /\ \A j \in Jobs : j # c.job => job'[j] = job[j]
    BY <1>8, FencedHolds DEF AppendEvents, Running, TypeOK, Row
  <2> QED BY <2>1 DEF RowsKept
<1>9. ASSUME NEW c \in claims, NEW now \in Now, Heartbeat(c, now)
      PROVE  RowsKept
  <2>1. /\ c.job \in Jobs /\ job[c.job].status = "running" /\ slot'.job = slot.job
        /\ job'[c.job].status = "running"
        /\ \A j \in Jobs : j # c.job => job'[j] = job[j]
    BY <1>9, FencedHolds DEF Heartbeat, Running, TypeOK, Row, SlotRow
  <2> QED BY <2>1 DEF RowsKept
<1>10. ASSUME NEW c \in claims, NEW now \in Now, NEW status \in TERMINAL_STATUSES,
              Finalize(c, status, now)
       PROVE  RowsKept
  <2>1. /\ c.job \in Jobs /\ slot.job = c.job /\ slot'.job = c.job
        /\ job[c.job].status = "running"
    BY <1>10, FencedHolds DEF Finalize, FreeSlot, Running
  <2>2. /\ job'[c.job].status = status
        /\ \A j \in Jobs : j # c.job => job'[j] = job[j]
    BY <1>10, <2>1 DEF Finalize, Ended, TypeOK
  <2> QED BY <2>1, <2>2 DEF RowsKept, TERMINAL_STATUSES
<1> QED BY <1>1, <1>2, <1>3, <1>4, <1>5, <1>6, <1>7, <1>8, <1>9, <1>10 DEF Next

LEMMA StepTables ==
  ASSUME TablesOK, [Next]_vars
  PROVE  TablesOK'
<1> USE TxAssumption DEF TablesOK
<1>1. IInv'
  BY StepIInv
<1>2. SlotHasRow'
  BY StepRows, <1>1 DEF RowsKept, SlotHasRow, IInv, TypeOK, SlotRow
<1>3. NoOrphanEvents'
  BY StepRemoved DEF NoOrphanEvents
<1>4. RemovedIsBlank'
  BY StepRows DEF RowsKept, RemovedIsBlank
<1> QED BY <1>1, <1>2, <1>3, <1>4

(* While a slot is leased its job runs, and the other way round. *)
LEMMA LeasedRuns ==
  ASSUME IInv
  PROVE  /\ CurrentRuns <=> slot.lease # None
         /\ \A j \in Jobs : Running(j) => CurrentRuns /\ slot.job = j
  BY StoreAssumption DEF IInv, SlotGuardsRun, CurrentRuns, TypeOK, SlotRow
-----------------------------------------------------------------------------
(* The rely: whatever careful steps others take, a session may go on.       *)
LEMMA SeesStable ==
  ASSUME TxInv, TablesOK', [Next]_vars, NEW who, Careful(who),
         NEW t \in Sessions, t # who
  PROVE  Sees(t)'
<1> USE StoreAssumption, TxAssumption
<1>0. /\ tx[t] \in TxRec /\ tx'[t] = tx[t] /\ Sees(t) /\ t # NoSession
      /\ claims \subseteq claims' /\ clock <= clock' /\ clock \in Time /\ clock' \in Time
      /\ tx[t].op \in Timed => clock' <= tx[t].now + MaxSkew
      /\ slotLock = t => slotLock' = t /\ slot' = slot
      /\ \A j \in Jobs : jobLock[j] = t => jobLock'[j] = t
                             /\ (job[j].status # "unborn" => job'[j] = job[j])
  BY DEF TxInv, TxTypeOK, Careful, TablesOK, IInv, TypeOK
<1>1. ClockRecent(t)'
  BY <1>0 DEF ClockRecent, Sees, Timed, TxRec, Time
<1>2. CallerHolds(t)'
  <2> SUFFICES ASSUME tx[t].op \in {"heartbeat", "finalize"}
               PROVE  /\ Caller(t) \in claims'
                      /\ tx[t].at = "slot" => jobLock'[tx[t].id] = t /\ Fenced(Caller(t))'
    BY <1>0 DEF CallerHolds, Caller
  <2>1. Caller(t) \in claims
    BY <1>0 DEF Sees, CallerHolds
  <2>2. tx[t].id \in Jobs
    BY <2>1 DEF TxInv, TablesOK, IInv, TypeOK, ClaimRec, Caller
  <2>3. tx[t].at = "slot" => jobLock[tx[t].id] = t /\ Fenced(Caller(t))
    BY <1>0 DEF Sees, CallerHolds
  <2> QED BY <1>0, <2>1, <2>2, <2>3 DEF Fenced, Running, Caller
<1>3. ClaimSees(t)'
  <2> SUFFICES ASSUME tx[t].op = "claim", tx[t].at \in {"read", "job"}
               PROVE  ClaimSees(t)'
    BY <1>0 DEF ClaimSees
  <2>1. slotLock' = t /\ slot' = slot
    BY <1>0 DEF Sees, ClaimSees
  <2>2. CurrentRuns' <=> CurrentRuns
    BY <2>1, LeasedRuns DEF TablesOK, TxInv, IInv, SlotGuardsRun, CurrentRuns, TypeOK, SlotRow
  <2> QED BY <1>0, <2>1, <2>2 DEF Sees, ClaimSees
<1>4. InterruptSees(t)'
  <2>1. tx[t].op \in {"cancel", "interrupt"} /\ tx[t].at # "begin" => tx[t].id \in Jobs
    BY <1>0 DEF Sees, InterruptSees
  <2>2. ASSUME At(t, "interrupt", "slot")
        PROVE  jobLock'[tx[t].id] = t /\ slot' = slot
    <3>1. tx[t].id \in Jobs /\ jobLock[tx[t].id] = t /\ slot.job = tx[t].id /\ slot.lease # None
      BY <1>0, <2>1, <2>2 DEF Sees, InterruptSees, At, Lapsed
    <3>2. CurrentRuns
      BY <3>1, LeasedRuns DEF TxInv, TablesOK
    <3> QED BY <1>0, <3>1, <3>2 DEF Careful
  <2> QED BY <1>0, <2>1, <2>2 DEF Sees, InterruptSees, At
<1>5. RemoveSees(t)'
  <2> SUFFICES ASSUME tx[t].op = "remove"
               PROVE  RemoveSees(t)'
    BY <1>0 DEF RemoveSees
  <2>0. tx[t].dead \subseteq Jobs
    BY <1>0 DEF TxRec
  <2>1. ASSUME NEW j \in tx[t].dead
        PROVE  Dead(j, tx[t].dead = {j})'
    <3>1. Dead(j, tx[t].dead = {j}) /\ j \in Jobs
      BY <1>0, <2>0 DEF Sees, RemoveSees
    <3>2. CASE job[j].status = "removed"
      BY <3>1, <3>2, StepRows DEF RowsKept, Dead, NoRow, TxInv, TablesOK
    <3>3. CASE Terminal(j)
      <4>1. job'[j] = job[j] \/ job'[j].status = "removed"
        BY <3>1, <3>3, StepTerminal DEF TxInv, TablesOK
      <4>2. job[j] \in Row
        BY <3>1 DEF TxInv, TablesOK, IInv, TypeOK
      <4>3. Lapsed(job[j].expires, clock) => Lapsed(job[j].expires, clock')
        BY <1>0, <4>2 DEF Lapsed, Row, Time, None
      <4> QED BY <1>0, <3>1, <3>3, <4>1, <4>3 DEF Dead, Terminal
    <3> QED BY <3>1, <3>2, <3>3 DEF Dead
  <2>2. ASSUME tx[t].at = "job"
        PROVE  slotLock' = t \/ slot'.job \notin tx[t].dead
    <3>1. CASE slotLock = t
      BY <1>0, <3>1
    <3>2. CASE slot.job \notin tx[t].dead
      <4>1. \A j \in tx[t].dead : job[j].status # "unborn"
        BY <1>0 DEF Sees, RemoveSees, Dead, Terminal, TERMINAL_STATUSES
      <4> QED BY <2>0, <3>2, <4>1, StepRows DEF RowsKept, TxInv, TablesOK
    <3> QED BY <1>0, <2>2, <3>1, <3>2 DEF Sees, RemoveSees
  <2> QED BY <1>0, <2>1, <2>2 DEF RemoveSees
<1> QED BY <1>1, <1>2, <1>3, <1>4, <1>5 DEF Sees
-----------------------------------------------------------------------------
(* The bookkeeping of a statement. *)

(* A session touches its own locks and the free ones. *)
OwnLocks(s) ==
    /\ slotLock' \in {slotLock, s, NoSession}
    /\ slotLock \notin {s, NoSession} => slotLock' = slotLock
    /\ jobLock' \in [Jobs -> Sessions \union {NoSession}]
    /\ \A j \in Jobs : jobLock[j] \notin {s, NoSession} => jobLock'[j] = jobLock[j]

LEMMA KeptLocks ==
  ASSUME TxTypeOK, UNCHANGED Locks, NEW s \in Sessions
  PROVE  OwnLocks(s)
  BY DEF TxTypeOK, Locks, OwnLocks

LEMMA IdleType == Idle \in TxRec
  BY DEF Idle, TxRec, Ops, Time, None

LEMMA Moved ==
  ASSUME TxTypeOK, NEW s \in Sessions, NEW rec \in TxRec, Move(s, rec)
  PROVE  /\ tx' \in [Sessions -> TxRec] /\ tx'[s] = rec
         /\ \A t \in Sessions \ {s} : tx'[t] = tx[t]
  BY DEF TxTypeOK, Move

LEMMA Released ==
  ASSUME TxTypeOK, NEW s \in Sessions, Release(s)
  PROVE  /\ OwnLocks(s) /\ Move(s, Idle) /\ Idle \in TxRec
         /\ tx'[s] = Idle /\ Sees(s)'
<1>1. Move(s, Idle) /\ Idle \in TxRec /\ tx'[s] = Idle
  BY IdleType, Moved DEF Release
<1>2. OwnLocks(s)
  BY DEF Release, OwnLocks, TxTypeOK
<1>3. Sees(s)'
  BY <1>1 DEF Sees, ClockRecent, CallerHolds, ClaimSees, InterruptSees, RemoveSees, At, Idle, Timed
<1> QED BY <1>1, <1>2, <1>3

(* The tokens: a claim begins with one left to take, and takes one as it    *)
(* commits.                                                                 *)
LEMMA TokensKept ==
  ASSUME TxInv, NEW s \in Sessions, NEW rec \in TxRec, Move(s, rec),
         \/ /\ lastToken' = lastToken
            /\ rec.op = "claim" => tx[s].op = "claim" \/ TokenLeft
         \/ lastToken' = lastToken + 1 /\ tx[s].op = "claim" /\ rec.op # "claim"
  PROVE  TokensLast'
<1> USE StoreAssumption
<1>1. /\ tx'[s] = rec /\ \A t \in Sessions \ {s} : tx'[t] = tx[t]
      /\ IsFiniteSet(Claiming) /\ lastToken + Cardinality(Claiming) <= MaxToken
      /\ lastToken \in Nat /\ Cardinality(Claiming) \in Nat
  BY Moved, FS_CardinalityType DEF TxInv, TokensLast, TablesOK, IInv, TypeOK
<1>2. CASE rec.op = "claim" /\ tx[s].op # "claim"
  <2>1. Claiming' = Claiming \union {s} /\ s \notin Claiming
    BY <1>1, <1>2 DEF Claiming
  <2>2. IsFiniteSet(Claiming') /\ Cardinality(Claiming') = Cardinality(Claiming) + 1
    BY <1>1, <2>1, FS_AddElement
  <2>3. lastToken + Cardinality(Claiming) < MaxToken
    BY <1>2 DEF TokenLeft, Claiming
  <2> QED BY <1>1, <1>2, <2>2, <2>3 DEF TokensLast
<1>3. CASE rec.op # "claim" /\ tx[s].op = "claim"
  <2>1. Claiming' = Claiming \ {s} /\ s \in Claiming
    BY <1>1, <1>3 DEF Claiming
  <2>2. IsFiniteSet(Claiming') /\ Cardinality(Claiming') = Cardinality(Claiming) - 1
    BY <1>1, <2>1, FS_RemoveElement
  <2> QED BY <1>1, <2>2 DEF TokensLast
<1>4. CASE (rec.op = "claim") <=> (tx[s].op = "claim")
  <2>1. Claiming' = Claiming
    BY <1>1, <1>4 DEF Claiming
  <2> QED BY <1>1, <1>4, <2>1 DEF TokensLast
<1> QED BY <1>2, <1>3, <1>4

(* What every statement of s keeps for the others. *)
LEMMA OthersKept ==
  ASSUME TxInv, NEW s \in Sessions, NEW rec \in TxRec, Move(s, rec), OwnLocks(s),
         clock' = clock
  PROVE  /\ TxTypeOK'
         /\ \A t \in Sessions \ {s} :
               /\ tx'[t] = tx[t]
               /\ tx[t].op \in Timed => clock' <= tx[t].now + MaxSkew
               /\ slotLock = t => slotLock' = t
               /\ \A j \in Jobs : jobLock[j] = t => jobLock'[j] = t
<1> USE TxAssumption
<1>1. TxTypeOK' /\ \A t \in Sessions \ {s} : tx'[t] = tx[t]
  BY Moved DEF TxInv, TxTypeOK, OwnLocks
<1>2. \A t \in Sessions : tx[t].op \in Timed => clock <= tx[t].now + MaxSkew
  BY DEF TxInv, Sees, ClockRecent
<1>3. ASSUME NEW t \in Sessions, t # s
      PROVE  /\ slotLock = t => slotLock' = t
             /\ \A j \in Jobs : jobLock[j] = t => jobLock'[j] = t
  BY <1>3 DEF OwnLocks
<1> QED BY <1>1, <1>2, <1>3

(* A statement that writes no table. *)
LEMMA Quiet ==
  ASSUME TxInv, NEW s \in Sessions, NEW rec \in TxRec, Move(s, rec), OwnLocks(s),
         UNCHANGED vars, rec.op = "claim" => tx[s].op = "claim" \/ TokenLeft,
         Sees(s)'
  PROVE  StepOK(s)
<1>1. TokensLast'
  BY TokensKept DEF vars
<1>2. Careful(s) /\ TxTypeOK'
  BY OthersKept DEF vars, Careful, TxInv, TablesOK, IInv, TypeOK, Time
<1> QED BY <1>1, <1>2 DEF StepOK

(* A transaction that ends without a write, or rolls back. *)
LEMMA QuietEnd ==
  ASSUME TxInv, NEW s \in Sessions, Release(s), UNCHANGED vars
  PROVE  StepOK(s)
<1>1. OwnLocks(s) /\ Move(s, Idle) /\ Idle \in TxRec /\ Sees(s)' /\ Idle.op # "claim"
  BY Released DEF TxInv, Idle
<1> QED BY <1>1, Quiet

(* A transaction that commits its writes. *)
LEMMA Commit ==
  ASSUME TxInv, NEW s \in Sessions, Release(s), Next,
         UNCHANGED clock, claims \subseteq claims',
         slot' # slot => slotLock \in {NoSession, s}
                         /\ (CurrentRuns => jobLock[slot.job] \in {NoSession, s}),
         \A j \in Jobs : job'[j] # job[j] =>
            jobLock[j] \in {NoSession, s} \/ job[j].status = "unborn",
         lastToken' = lastToken \/ (lastToken' = lastToken + 1 /\ tx[s].op = "claim")
  PROVE  StepOK(s)
<1>1. OwnLocks(s) /\ Move(s, Idle) /\ Idle \in TxRec /\ Sees(s)' /\ Idle.op # "claim"
  BY Released DEF TxInv, Idle
<1>2. TokensLast'
  BY <1>1, TokensKept
<1>3. Careful(s) /\ TxTypeOK'
  BY <1>1, OthersKept DEF Careful, TxInv, TablesOK, IInv, TypeOK, Time
<1> QED BY <1>1, <1>2, <1>3 DEF StepOK
-----------------------------------------------------------------------------
(* The statements that write no table. *)

LEMMA Begun ==
  ASSUME TxInv, NEW s \in Sessions, NEW op \in Timed \union {"cancel"},
         NEW at \in {"begin", "job"}, NEW now \in Time, NEW id \in Jobs \union {NoJob},
         NEW token \in Token \union {None}, Begin(s, op, at, now, id, token),
         op \in Timed => now = clock,
         op \in {"claim", "heartbeat"} => clock + LeaseLen <= MaxTime,
         op = "claim" => TokenLeft,
         IF op \in {"heartbeat", "finalize"} THEN at = "job" /\ [job |-> id, token |-> token] \in claims
                                             ELSE at = "begin"
  PROVE  StepOK(s)
<1> DEFINE rec == [Idle EXCEPT !.op = op, !.at = at, !.now = now, !.id = id, !.token = token]
<1>1. /\ rec \in TxRec /\ rec.op = op /\ rec.at = at /\ rec.now = now
      /\ rec.id = id /\ rec.token = token
  BY IdleType DEF Idle, TxRec, Ops, Timed
<1>2. Move(s, rec) /\ OwnLocks(s) /\ UNCHANGED vars
  BY KeptLocks DEF Begin, TxInv
<1> HIDE DEF rec
<1>3. tx'[s] = rec /\ clock' = clock /\ claims' = claims /\ clock \in Time /\ MaxSkew \in Nat
  BY <1>1, <1>2, Moved, StoreAssumption DEF vars, TxInv, TablesOK, IInv, TypeOK
<1>4. Sees(s)'
  <2>1. ClockRecent(s)'
    BY <1>1, <1>3 DEF ClockRecent, Time
  <2>2. CallerHolds(s)'
    BY <1>1, <1>3 DEF CallerHolds, Caller
  <2>3. ClaimSees(s)' /\ InterruptSees(s)' /\ RemoveSees(s)'
    BY <1>1, <1>3 DEF ClaimSees, InterruptSees, RemoveSees, At, Timed
  <2> QED BY <2>1, <2>2, <2>3 DEF Sees
<1> QED BY <1>1, <1>2, <1>4, Quiet

LEMMA CallOK ==
  ASSUME TxInv, NEW s \in Sessions, Call(s)
  PROVE  StepOK(s)
<1>1. /\ clock \in Time /\ 0 \in Time
      /\ \A c \in claims : c.job \in Jobs /\ c.token \in Token /\ c = [job |-> c.job, token |-> c.token]
  BY DEF TxInv, TablesOK, IInv, TypeOK, Time, ClaimRec
<1>2. CASE Begin(s, "interrupt", "begin", clock, NoJob, None)
  BY <1>1, <1>2, Begun DEF Timed
<1>3. CASE Begin(s, "cancel", "begin", 0, NoJob, None)
  BY <1>1, <1>3, Begun DEF Timed
<1>4. ASSUME NEW c \in claims, Begin(s, "finalize", "job", clock, c.job, c.token)
      PROVE  StepOK(s)
  BY <1>1, <1>4, Begun DEF Timed
<1>5. CASE clock + LeaseLen <= MaxTime /\ TokenLeft /\ Begin(s, "claim", "begin", clock, NoJob, None)
  BY <1>1, <1>5, Begun DEF Timed
<1>6. ASSUME NEW c \in claims, clock + LeaseLen <= MaxTime,
             Begin(s, "heartbeat", "job", clock, c.job, c.token)
      PROVE  StepOK(s)
  BY <1>1, <1>6, Begun DEF Timed
<1> QED BY <1>2, <1>3, <1>4, <1>5, <1>6 DEF Call

(* claim takes the slot, or finds it held and attaches. *)
LEMMA ClaimSlotOK ==
  ASSUME TxInv, NEW s \in Sessions, ClaimSlot(s)
  PROVE  StepOK(s)
<1>1. /\ tx[s] \in TxRec /\ slot \in SlotRow /\ UNCHANGED vars /\ tx[s].op = "claim"
      /\ Sees(s) /\ TxTypeOK
  BY DEF ClaimSlot, At, TxInv, TxTypeOK, TablesOK, IInv, TypeOK
<1>2. CASE slot.lease = None \/ slot.lease <= tx[s].now
  <2> DEFINE rec == [tx[s] EXCEPT !.at = "read", !.id = slot.job]
  <2>1. /\ rec \in TxRec /\ rec.op = "claim" /\ rec.at = "read" /\ rec.now = tx[s].now
        /\ rec.id = slot.job
    BY <1>1 DEF TxRec, SlotRow
  <2>2. Move(s, rec) /\ slotLock' = s /\ OwnLocks(s)
    BY <1>1, <1>2 DEF ClaimSlot, LockSlot, OwnLocks, TxTypeOK
  <2> HIDE DEF rec
  <2>3. tx'[s] = rec
    BY <1>1, <2>1, <2>2, Moved
  <2>4. Sees(s)'
    BY <1>1, <1>2, <2>1, <2>2, <2>3
    DEF Sees, ClockRecent, CallerHolds, ClaimSees, InterruptSees, RemoveSees, At, vars
  <2> QED BY <1>1, <2>1, <2>2, <2>4, Quiet
<1>3. CASE ~(slot.lease = None \/ slot.lease <= tx[s].now)
  <2> DEFINE rec == [tx[s] EXCEPT !.op = "attach"]
  <2>1. rec \in TxRec /\ rec.op = "attach"
    BY <1>1 DEF TxRec, Ops
  <2>2. Move(s, rec) /\ OwnLocks(s)
    BY <1>1, <1>3, KeptLocks DEF ClaimSlot, Locks
  <2> HIDE DEF rec
  <2>3. tx'[s] = rec
    BY <1>1, <2>1, <2>2, Moved
  <2>4. Sees(s)'
    BY <2>1, <2>3
    DEF Sees, ClockRecent, CallerHolds, ClaimSees, InterruptSees, RemoveSees, At, Timed
  <2> QED BY <1>1, <2>1, <2>2, <2>4, Quiet
<1> QED BY <1>2, <1>3

(* Under the slot's lock it reads the job: nobody else starts or ends it.   *)
LEMMA ClaimReadOK ==
  ASSUME TxInv, NEW s \in Sessions, ClaimRead(s)
  PROVE  StepOK(s)
<1>1. /\ tx[s] \in TxRec /\ UNCHANGED vars /\ tx[s].op = "claim" /\ tx[s].at = "read"
      /\ Sees(s) /\ TxTypeOK /\ OwnLocks(s) /\ UNCHANGED Locks
      /\ job \in [Jobs -> Row]
  BY KeptLocks DEF ClaimRead, At, TxInv, TxTypeOK, TablesOK, IInv, TypeOK
<1> DEFINE runs == tx[s].id # NoJob /\ Running(tx[s].id)
           cancel == tx[s].id # NoJob /\ job[tx[s].id].cancel
           rec == [tx[s] EXCEPT !.at = "job", !.runs = runs, !.cancel = cancel]
<1>2. /\ rec \in TxRec /\ rec.op = "claim" /\ rec.at = "job" /\ rec.now = tx[s].now
      /\ rec.id = tx[s].id /\ rec.runs = runs
  <2>1. runs \in BOOLEAN
    BY DEF Running
  <2>2. cancel \in BOOLEAN
    <3>1. tx[s].id # NoJob => job[tx[s].id] \in Row
      BY <1>1 DEF TxRec
    <3>2. CASE tx[s].id # NoJob
      <4>1. job[tx[s].id].cancel \in BOOLEAN
        BY <3>1, <3>2 DEF Row
      <4> QED BY <3>2, <4>1
    <3> QED BY <3>2
  <2> HIDE DEF runs, cancel
  <2> QED BY <1>1, <2>1, <2>2 DEF TxRec
<1>3. Move(s, rec)
  BY DEF ClaimRead
<1> HIDE DEF rec
<1>4. tx'[s] = rec
  BY <1>1, <1>2, <1>3, Moved
<1>5. Sees(s)'
  BY <1>1, <1>2, <1>4
  DEF Sees, ClockRecent, CallerHolds, ClaimSees, InterruptSees, RemoveSees, At, vars, Locks,
      CurrentRuns, Running
<1> QED BY <1>1, <1>2, <1>3, <1>5, Quiet

LEMMA AttachOK ==
  ASSUME TxInv, NEW s \in Sessions, Attach(s)
  PROVE  StepOK(s)
<1>1. /\ tx[s] \in TxRec /\ TxTypeOK /\ OwnLocks(s) /\ UNCHANGED vars
  BY KeptLocks DEF Attach, TxInv, TxTypeOK
<1>2. PICK rec \in TxRec : Move(s, rec) /\ rec.op \in {"idle", "raised", "attach"}
  <2>1. /\ Idle \in TxRec /\ Idle.op = "idle"
    BY IdleType DEF Idle
  <2>2. [Idle EXCEPT !.op = "raised"] \in TxRec /\ [Idle EXCEPT !.op = "raised"].op = "raised"
    BY DEF Idle, TxRec, Ops, Time, None
  <2>3. tx[s].tries + 1 \in Nat
    BY <1>1 DEF TxRec
  <2>4. [tx[s] EXCEPT !.tries = @ + 1] \in TxRec /\ [tx[s] EXCEPT !.tries = @ + 1].op = tx[s].op
    BY <1>1, <2>3 DEF TxRec
  <2> QED BY <2>1, <2>2, <2>4 DEF Attach
<1>3. tx'[s] = rec
  BY <1>1, <1>2, Moved
<1>4. Sees(s)'
  BY <1>2, <1>3
  DEF Sees, ClockRecent, CallerHolds, ClaimSees, InterruptSees, RemoveSees, At, Timed
<1> QED BY <1>1, <1>2, <1>4, Quiet

(* heartbeat and finalize: the job's row, if the fence still holds. *)
LEMMA FencedJobOK ==
  ASSUME TxInv, NEW s \in Sessions, FencedJob(s)
  PROVE  StepOK(s)
<1>1. /\ tx[s] \in TxRec /\ TxTypeOK /\ Sees(s) /\ UNCHANGED vars
      /\ tx[s].op \in {"heartbeat", "finalize"} /\ jobLock[tx[s].id] = NoSession
      /\ Caller(s) \in claims
  BY DEF FencedJob, TxInv, TxTypeOK, Sees, CallerHolds
<1>2. tx[s].id \in Jobs
  BY <1>1 DEF TxInv, TablesOK, IInv, TypeOK, ClaimRec, Caller
<1>3. CASE Fenced(Caller(s))
  <2> DEFINE rec == [tx[s] EXCEPT !.at = "slot"]
  <2>1. /\ rec \in TxRec /\ rec.op = tx[s].op /\ rec.at = "slot" /\ rec.now = tx[s].now
        /\ rec.id = tx[s].id /\ rec.token = tx[s].token
    BY <1>1 DEF TxRec
  <2>2. /\ Move(s, rec) /\ slotLock' = slotLock
        /\ jobLock' = [jobLock EXCEPT ![tx[s].id] = s]
    BY <1>3 DEF FencedJob, LockJob, Caller
  <2>3. OwnLocks(s) /\ jobLock'[tx[s].id] = s
    BY <1>1, <1>2, <2>2 DEF OwnLocks, TxTypeOK
  <2> HIDE DEF rec
  <2>4. tx'[s] = rec
    BY <1>1, <2>1, <2>2, Moved
  <2>5. Caller(s)' = Caller(s)
    BY <2>1, <2>4 DEF Caller
  <2>6. Fenced(Caller(s))'
    BY <1>1, <1>3, <2>5 DEF Fenced, Running, vars
  <2>7. ClockRecent(s)' /\ ClaimSees(s)' /\ InterruptSees(s)' /\ RemoveSees(s)'
    BY <1>1, <2>1, <2>4 DEF Sees, ClockRecent, ClaimSees, InterruptSees, RemoveSees, At, vars
  <2>8. CallerHolds(s)'
    BY <1>1, <2>1, <2>3, <2>4, <2>5, <2>6 DEF CallerHolds, vars
  <2> QED BY <1>1, <2>1, <2>2, <2>3, <2>7, <2>8, Quiet DEF Sees
<1>4. CASE ~Fenced(Caller(s))
  BY <1>1, <1>4, QuietEnd DEF FencedJob, Caller
<1> QED BY <1>3, <1>4

LEMMA CancelReadOK ==
  ASSUME TxInv, NEW s \in Sessions, CancelRead(s)
  PROVE  StepOK(s)
<1>1. /\ tx[s] \in TxRec /\ TxTypeOK /\ OwnLocks(s) /\ UNCHANGED vars /\ slot \in SlotRow
      /\ tx[s].op = "cancel"
  BY KeptLocks DEF CancelRead, At, TxInv, TxTypeOK, TablesOK, IInv, TypeOK
<1> DEFINE rec == IF slot.job = NoJob THEN Idle ELSE [tx[s] EXCEPT !.at = "job", !.id = slot.job]
<1>2. /\ Move(s, rec) /\ rec \in TxRec
      /\ rec.op = "idle" \/ (rec.op = "cancel" /\ rec.id \in Jobs)
  <2>1. Idle \in TxRec /\ Idle.op = "idle"
    BY IdleType DEF Idle
  <2>2. slot.job # NoJob =>
          /\ [tx[s] EXCEPT !.at = "job", !.id = slot.job] \in TxRec
          /\ [tx[s] EXCEPT !.at = "job", !.id = slot.job].op = "cancel"
          /\ [tx[s] EXCEPT !.at = "job", !.id = slot.job].id \in Jobs
    BY <1>1 DEF TxRec, SlotRow
  <2> QED BY <2>1, <2>2 DEF CancelRead
<1> HIDE DEF rec
<1>3. tx'[s] = rec
  BY <1>1, <1>2, Moved
<1>4. Sees(s)'
  BY <1>2, <1>3
  DEF Sees, ClockRecent, CallerHolds, ClaimSees, InterruptSees, RemoveSees, At, Timed
<1> QED BY <1>1, <1>2, <1>4, Quiet

LEMMA InterruptReadOK ==
  ASSUME TxInv, NEW s \in Sessions, InterruptRead(s)
  PROVE  StepOK(s)
<1>1. /\ tx[s] \in TxRec /\ TxTypeOK /\ OwnLocks(s) /\ UNCHANGED vars /\ slot \in SlotRow
      /\ tx[s].op = "interrupt" /\ Sees(s)
  BY KeptLocks DEF InterruptRead, At, TxInv, TxTypeOK, TablesOK, IInv, TypeOK
<1> DEFINE rec == IF slot.job # NoJob /\ Lapsed(slot.lease, tx[s].now)
                  THEN [tx[s] EXCEPT !.at = "job", !.id = slot.job] ELSE Idle
<1>2. /\ Move(s, rec) /\ rec \in TxRec
      /\ \/ rec.op = "idle"
         \/ rec.op = "interrupt" /\ rec.id \in Jobs /\ rec.at = "job" /\ rec.now = tx[s].now
  <2>1. Idle \in TxRec /\ Idle.op = "idle"
    BY IdleType DEF Idle
  <2>2. slot.job # NoJob =>
          LET r == [tx[s] EXCEPT !.at = "job", !.id = slot.job]
          IN  /\ r \in TxRec /\ r.op = "interrupt" /\ r.id \in Jobs
              /\ r.at = "job" /\ r.now = tx[s].now
    BY <1>1 DEF TxRec, SlotRow
  <2>3. Move(s, rec)
    BY DEF InterruptRead
  <2> QED BY <2>1, <2>2, <2>3
<1> HIDE DEF rec
<1>3. tx'[s] = rec
  BY <1>1, <1>2, Moved
<1>4. Sees(s)'
  BY <1>1, <1>2, <1>3
  DEF Sees, ClockRecent, CallerHolds, ClaimSees, InterruptSees, RemoveSees, At, Timed, vars
<1> QED BY <1>1, <1>2, <1>4, Quiet

(* interrupt: a running job whose lease has lapsed is the slot's, on the    *)
(* same lease, and holding its row keeps the slot as it is.                 *)
LEMMA InterruptJobOK ==
  ASSUME TxInv, NEW s \in Sessions, InterruptJob(s)
  PROVE  StepOK(s)
<1>1. /\ tx[s] \in TxRec /\ TxTypeOK /\ Sees(s) /\ UNCHANGED vars
      /\ tx[s].op = "interrupt" /\ tx[s].at = "job" /\ jobLock[tx[s].id] = NoSession
  BY DEF InterruptJob, At, TxInv, TxTypeOK
<1>2. tx[s].id \in Jobs
  BY <1>1 DEF Sees, InterruptSees
<1>3. CASE Running(tx[s].id) /\ Lapsed(job[tx[s].id].lease, tx[s].now)
  <2> DEFINE rec == [tx[s] EXCEPT !.at = "slot"]
  <2>1. /\ rec \in TxRec /\ rec.op = "interrupt" /\ rec.at = "slot" /\ rec.now = tx[s].now
        /\ rec.id = tx[s].id
    BY <1>1 DEF TxRec
  <2>2. /\ Move(s, rec) /\ slotLock' = slotLock
        /\ jobLock' = [jobLock EXCEPT ![tx[s].id] = s]
    BY <1>3 DEF InterruptJob, LockJob
  <2>3. OwnLocks(s) /\ jobLock'[tx[s].id] = s
    BY <1>1, <1>2, <2>2 DEF OwnLocks, TxTypeOK
  <2> HIDE DEF rec
  <2>4. tx'[s] = rec
    BY <1>1, <2>1, <2>2, Moved
  <2>5. slot.job = tx[s].id /\ slot.lease = job[tx[s].id].lease
    BY <1>2, <1>3 DEF TxInv, TablesOK, IInv, SlotGuardsRun
  <2>6. Sees(s)'
    BY <1>1, <1>2, <1>3, <2>1, <2>3, <2>4, <2>5
    DEF Sees, ClockRecent, CallerHolds, ClaimSees, InterruptSees, RemoveSees, At, vars, Timed
  <2> QED BY <1>1, <2>1, <2>2, <2>3, <2>6, Quiet
<1>4. CASE ~(Running(tx[s].id) /\ Lapsed(job[tx[s].id].lease, tx[s].now))
  BY <1>1, <1>4, QuietEnd DEF InterruptJob
<1> QED BY <1>3, <1>4

LEMMA RemoveReadOK ==
  ASSUME TxInv, NEW s \in Sessions, RemoveRead(s)
  PROVE  StepOK(s)
<1>1. TxTypeOK /\ OwnLocks(s) /\ UNCHANGED vars
  BY KeptLocks DEF RemoveRead, TxInv
<1>2. PICK dead \in {{j} : j \in {i \in Jobs : slot.job = i /\ Terminal(i)}} \union {Expired(clock)} :
         Move(s, [Idle EXCEPT !.op = "remove", !.at = "slot", !.dead = dead])
  BY DEF RemoveRead
<1> DEFINE rec == [Idle EXCEPT !.op = "remove", !.at = "slot", !.dead = dead]
<1>3. /\ dead \subseteq Jobs
      /\ \A j \in dead : Dead(j, dead = {j})
  BY <1>2 DEF Dead, Expired
<1>4. rec \in TxRec /\ rec.op = "remove" /\ rec.at = "slot" /\ rec.dead = dead
  BY <1>3 DEF Idle, TxRec, Ops, Time, None
<1>5. Move(s, rec)
  BY <1>2
<1> HIDE DEF rec
<1>6. tx'[s] = rec
  BY <1>1, <1>4, <1>5, Moved
<1>7. RemoveSees(s)'
  BY <1>1, <1>3, <1>4, <1>6 DEF RemoveSees, Dead, Terminal, Lapsed, vars
<1>8. Sees(s)'
  BY <1>4, <1>6, <1>7 DEF Sees, ClockRecent, CallerHolds, ClaimSees, InterruptSees, At, Timed
<1> QED BY <1>1, <1>4, <1>5, <1>8, Quiet

LEMMA RemoveSlotOK ==
  ASSUME TxInv, NEW s \in Sessions, RemoveSlot(s)
  PROVE  StepOK(s)
<1>1. /\ tx[s] \in TxRec /\ TxTypeOK /\ UNCHANGED vars /\ Sees(s)
      /\ tx[s].op = "remove" /\ tx[s].at = "slot"
  BY DEF RemoveSlot, At, TxInv, TxTypeOK
<1> DEFINE rec == [tx[s] EXCEPT !.at = "job"]
<1>2. /\ rec \in TxRec /\ rec.op = "remove" /\ rec.at = "job" /\ rec.dead = tx[s].dead
  BY <1>1 DEF TxRec
<1>3. /\ Move(s, rec) /\ OwnLocks(s)
      /\ slot.job \in tx[s].dead => slotLock' = s
  BY <1>1 DEF RemoveSlot, LockSlot, OwnLocks, TxTypeOK
<1> HIDE DEF rec
<1>4. tx'[s] = rec
  BY <1>1, <1>2, <1>3, Moved
<1>5. RemoveSees(s)'
  BY <1>1, <1>2, <1>3, <1>4 DEF Sees, RemoveSees, Dead, Terminal, Lapsed, vars
<1>6. Sees(s)'
  BY <1>2, <1>4, <1>5 DEF Sees, ClockRecent, CallerHolds, ClaimSees, InterruptSees, At, Timed
<1> QED BY <1>1, <1>2, <1>3, <1>6, Quiet
-----------------------------------------------------------------------------
(* The statements that commit. *)

(* A recent reading of the clock is one DurableJobStore's transactions may  *)
(* have used.                                                               *)
LEMMA RecentNow ==
  ASSUME TxInv, NEW s \in Sessions, tx[s].op \in Timed
  PROVE  tx[s].now \in Now /\ tx[s].now \in Time
<1>1. /\ tx[s].now \in Nat /\ clock \in Nat /\ MaxSkew \in Nat
      /\ tx[s].now <= clock /\ clock <= tx[s].now + MaxSkew
  BY StoreAssumption
  DEF TxInv, TxTypeOK, TxRec, TablesOK, IInv, TypeOK, Time, Sees, ClockRecent
<1> QED BY <1>1 DEF Now, Time

(* heartbeat and finalize: the row lock has kept the ownership.             *)
LEMMA StillOwned ==
  ASSUME TxInv, NEW s \in Sessions, tx[s].op \in {"heartbeat", "finalize"}, tx[s].at = "slot"
  PROVE  /\ Caller(s) \in claims /\ Caller(s).job = tx[s].id /\ Caller(s).token = tx[s].token
         /\ tx[s].id \in Jobs /\ jobLock[tx[s].id] = s
         /\ Fenced(Caller(s)) /\ HoldsSlot(Caller(s))
<1>1. Caller(s) \in claims /\ jobLock[tx[s].id] = s /\ Fenced(Caller(s))
  BY DEF TxInv, Sees, CallerHolds
<1>2. HoldsSlot(Caller(s)) /\ Caller(s).job \in Jobs
  BY <1>1, FencedHolds DEF HoldsSlot, TxInv, TablesOK
<1> QED BY <1>1, <1>2 DEF Caller

LEMMA HeartbeatSlotOK ==
  ASSUME TxInv, NEW s \in Sessions, HeartbeatSlot(s)
  PROVE  StepOK(s)
<1> DEFINE c == Caller(s)
<1>1. tx[s].op = "heartbeat" /\ tx[s].at = "slot" /\ slotLock = NoSession /\ Release(s)
  BY DEF HeartbeatSlot, At
<1>2. /\ c \in claims /\ c.job \in Jobs /\ jobLock[c.job] = s
      /\ Fenced(c) /\ HoldsSlot(c)
  BY <1>1, StillOwned
<1>3. tx[s].now \in Now /\ tx[s].now + LeaseLen <= MaxTime
  BY <1>1, RecentNow DEF TxInv, Sees, ClockRecent, Timed
<1>4. Heartbeat(c, tx[s].now)
  BY <1>2, <1>3 DEF HeartbeatSlot, Heartbeat, Caller
<1>5. Next
  BY <1>2, <1>3, <1>4 DEF Next
<1>6. \A j \in Jobs : job'[j] # job[j] => j = c.job
  BY <1>4 DEF Heartbeat, TxInv, TablesOK, IInv, TypeOK
<1>7. slot.job = c.job /\ UNCHANGED <<clock, claims, lastToken>>
  BY <1>4 DEF Heartbeat, HoldsSlot
<1> HIDE DEF c
<1> QED BY <1>1, <1>2, <1>5, <1>6, <1>7, Commit

LEMMA FinalizeSlotOK ==
  ASSUME TxInv, NEW s \in Sessions, FinalizeSlot(s)
  PROVE  StepOK(s)
<1> DEFINE c == Caller(s)
<1>1. tx[s].op = "finalize" /\ tx[s].at = "slot" /\ slotLock = NoSession /\ Release(s)
  BY DEF FinalizeSlot, At
<1>2. /\ c \in claims /\ c.job \in Jobs /\ jobLock[c.job] = s
      /\ Fenced(c) /\ HoldsSlot(c)
  BY <1>1, StillOwned
<1>3. tx[s].now \in Now
  BY <1>1, RecentNow DEF Timed
<1>4. PICK status \in TERMINAL_STATUSES : Finalize(c, status, tx[s].now)
  BY <1>2, <1>3 DEF FinalizeSlot, Finalize, Caller
<1>5. Next
  BY <1>2, <1>3, <1>4 DEF Next
<1>6. \A j \in Jobs : job'[j] # job[j] => j = c.job
  BY <1>4 DEF Finalize, TxInv, TablesOK, IInv, TypeOK
<1>7. slot.job = c.job /\ UNCHANGED <<clock, claims, lastToken>>
  BY <1>4 DEF Finalize, HoldsSlot
<1> HIDE DEF c
<1> QED BY <1>1, <1>2, <1>5, <1>6, <1>7, Commit

(* request_cancel: the job it read as current has ended, or is current.     *)
LEMMA CancelWriteOK ==
  ASSUME TxInv, NEW s \in Sessions, CancelWrite(s)
  PROVE  StepOK(s)
<1> DEFINE j == tx[s].id
<1>1. /\ Release(s) /\ jobLock[j] = NoSession /\ j \in Jobs
      /\ UNCHANGED <<clock, slot, events, claims, lastToken>>
  BY DEF CancelWrite, At, TxInv, Sees, InterruptSees
<1>2. CASE Running(j)
  <2>1. CurrentRuns /\ slot.job = j
    BY <1>1, <1>2, LeasedRuns DEF TxInv, TablesOK
  <2>2. job' = [job EXCEPT ![j].cancel = TRUE]
    BY <1>2 DEF CancelWrite
  <2>3. RequestCancel
    BY <1>1, <2>1, <2>2 DEF RequestCancel
  <2>4. Next
    BY <2>3 DEF Next
  <2>5. \A i \in Jobs : job'[i] # job[i] => i = j
    BY <2>2 DEF TxInv, TablesOK, IInv, TypeOK
  <2> HIDE DEF j
  <2> QED BY <1>1, <2>4, <2>5, Commit
<1>3. CASE ~Running(j)
  <2>1. UNCHANGED vars
    BY <1>1, <1>3 DEF CancelWrite, vars
  <2> QED BY <1>1, <2>1, QuietEnd
<1> QED BY <1>2, <1>3

(* interrupt_expired: the expiry it saw is still so, on both rows.          *)
LEMMA InterruptSlotOK ==
  ASSUME TxInv, NEW s \in Sessions, InterruptSlot(s)
  PROVE  StepOK(s)
<1>1. /\ Release(s) /\ slotLock = NoSession /\ jobLock[slot.job] = s
      /\ slot.job = tx[s].id /\ slot.job \in Jobs /\ Lapsed(slot.lease, tx[s].now)
      /\ tx[s].op = "interrupt"
  BY DEF InterruptSlot, At, TxInv, Sees, InterruptSees
<1>2. CurrentRuns /\ job[slot.job].lease = slot.lease
  BY <1>1, LeasedRuns DEF Lapsed, TxInv, TablesOK, IInv, SlotGuardsRun, CurrentRuns
<1>3. InterruptExpired(tx[s].now)
  BY <1>1, <1>2 DEF InterruptSlot, InterruptExpired
<1>4. Next
  BY <1>1, <1>3, RecentNow DEF Next, Timed
<1>5. /\ \A i \in Jobs : job'[i] # job[i] => i = slot.job
      /\ UNCHANGED <<clock, claims, lastToken>>
  BY <1>3 DEF InterruptExpired, TxInv, TablesOK, IInv, TypeOK
<1> QED BY <1>1, <1>4, <1>5, Commit

(* claim: the slot is still free or lapsed, and the job still to be         *)
(* recovered, or to be replaced.                                            *)
LEMMA ClaimWriteOldOK ==
  ASSUME TxInv, NEW s \in Sessions, ClaimWriteOld(s)
  PROVE  StepOK(s)
<1> DEFINE j == tx[s].id
           until == tx[s].now + LeaseLen
<1>1. /\ Release(s) /\ jobLock[j] = NoSession /\ UNCHANGED <<clock, events>>
      /\ tx[s].op = "claim" /\ tx[s].at = "job" /\ tx[s].runs
      /\ lastToken' = lastToken + 1
      /\ claims' = claims \union {[job |-> j, token |-> lastToken']}
      /\ slot' = [job |-> j, token |-> lastToken', lease |-> until]
      /\ job' = [job EXCEPT ![j] = NextRun(@, lastToken', until, @.cancel /\ ~tx[s].cancel)]
  BY DEF ClaimWriteOld, Grant, At
<1>2. /\ slotLock = s /\ slot.job = j /\ CurrentRuns
      /\ slot.lease = None \/ slot.lease <= tx[s].now
      /\ until <= MaxTime
  BY <1>1 DEF TxInv, Sees, ClaimSees, ClockRecent, Timed
<1>3. j \in Jobs /\ job[j] \in Row /\ job \in [Jobs -> Row]
  BY <1>2 DEF CurrentRuns, TxInv, TablesOK, IInv, TypeOK, SlotRow
<1>4. lastToken < MaxToken
  <2>1. /\ s \in Claiming /\ IsFiniteSet(Claiming) /\ lastToken \in Nat /\ MaxToken \in Nat
        /\ lastToken + Cardinality(Claiming) <= MaxToken
    BY <1>1, StoreAssumption DEF Claiming, TxInv, TokensLast, TablesOK, IInv, TypeOK
  <2>2. Cardinality(Claiming) \in Nat /\ Cardinality(Claiming) # 0
    BY <2>1, FS_CardinalityType, FS_EmptySet
  <2> QED BY <2>1, <2>2
<1>5. TakeSlot(j, tx[s].now)
  BY <1>1, <1>2, <1>4 DEF TakeSlot
<1>6. \E cancel \in {FALSE, job[j].cancel} :
         job' = [job EXCEPT ![j] = NextRun(@, lastToken', until, cancel)]
  <2>1. job[j].cancel \in BOOLEAN /\ tx[s].cancel \in BOOLEAN
    BY <1>3 DEF Row, TxInv, TxTypeOK, TxRec
  <2>2. (job[j].cancel /\ ~tx[s].cancel) \in {FALSE, job[j].cancel}
    BY <2>1
  <2> QED BY <1>1, <2>2
<1>7. ClaimRecover(tx[s].now)
  BY <1>1, <1>2, <1>5, <1>6 DEF ClaimRecover
<1>8. Next
  BY <1>1, <1>7, RecentNow DEF Next, Timed
<1>9. \A i \in Jobs : job'[i] # job[i] => i = j
  BY <1>1, <1>3
<1> HIDE DEF j, until
<1> QED BY <1>1, <1>2, <1>8, <1>9, Commit

LEMMA ClaimWriteNewOK ==
  ASSUME TxInv, NEW s \in Sessions, ClaimWriteNew(s)
  PROVE  StepOK(s)
<1> DEFINE until == tx[s].now + LeaseLen
<1>1. PICK j \in Jobs :
      /\ Release(s) /\ UNCHANGED <<clock, events>>
      /\ tx[s].op = "claim" /\ tx[s].at = "job" /\ ~tx[s].runs
      /\ job[j].status = "unborn"
      /\ lastToken' = lastToken + 1
      /\ claims' = claims \union {[job |-> j, token |-> lastToken']}
      /\ slot' = [job |-> j, token |-> lastToken', lease |-> until]
      /\ job' = [job EXCEPT ![j] = FirstRun(lastToken', until)]
  <2> DEFINE fresh == {i \in Jobs : job[i].status = "unborn"}
             j == CHOOSE i \in fresh : TRUE
  <2>1. j \in fresh
    BY DEF ClaimWriteNew
  <2>2. Grant(s, j) /\ job' = [job EXCEPT ![j] = FirstRun(lastToken', until)]
    BY DEF ClaimWriteNew
  <2> HIDE DEF j
  <2> QED BY <2>1, <2>2 DEF ClaimWriteNew, Grant, At
<1>2. /\ slotLock = s /\ ~CurrentRuns
      /\ slot.lease = None \/ slot.lease <= tx[s].now
      /\ until <= MaxTime
  BY <1>1 DEF TxInv, Sees, ClaimSees, ClockRecent, Timed
<1>3. lastToken < MaxToken
  <2>1. /\ s \in Claiming /\ IsFiniteSet(Claiming) /\ lastToken \in Nat /\ MaxToken \in Nat
        /\ lastToken + Cardinality(Claiming) <= MaxToken
    BY <1>1, StoreAssumption DEF Claiming, TxInv, TokensLast, TablesOK, IInv, TypeOK
  <2>2. Cardinality(Claiming) \in Nat /\ Cardinality(Claiming) # 0
    BY <2>1, FS_CardinalityType, FS_EmptySet
  <2> QED BY <2>1, <2>2
<1>4. ClaimNew(j, tx[s].now)
  BY <1>1, <1>2, <1>3 DEF ClaimNew, TakeSlot
<1>5. Next
  BY <1>1, <1>4, RecentNow DEF Next, Timed
<1>6. \A i \in Jobs : job'[i] # job[i] => job[i].status = "unborn"
  BY <1>1 DEF TxInv, TablesOK, IInv, TypeOK
<1> HIDE DEF until
<1> QED BY <1>1, <1>2, <1>5, <1>6, Commit

(* dismiss and cleanup: what they saw as terminal is, or is gone.           *)
LEMMA RemoveJobsOK ==
  ASSUME TxInv, NEW s \in Sessions, RemoveJobs(s)
  PROVE  StepOK(s)
<1> DEFINE dead == tx[s].dead
           S == {j \in dead : job[j].status # "removed"}
<1>1. /\ Release(s) /\ tx[s].op = "remove" /\ tx[s].at = "job"
      /\ \A j \in dead : jobLock[j] = NoSession
      /\ UNCHANGED <<clock, claims, lastToken>>
      /\ Detach(dead) /\ Remove(dead) /\ events' = WithoutEvents(dead)
  BY DEF RemoveJobs, At
<1>2. /\ dead \subseteq Jobs
      /\ slotLock = s \/ slot.job \notin dead
      /\ \A j \in S : j \in Jobs /\ Terminal(j) /\ (dead = {j} \/ Lapsed(job[j].expires, clock))
  <2>1. \A j \in dead : Dead(j, dead = {j})
    BY <1>1 DEF TxInv, Sees, RemoveSees
  <2>2. dead \subseteq Jobs
    BY DEF TxInv, TxTypeOK, TxRec
  <2>3. slotLock = s \/ slot.job \notin dead
    BY <1>1 DEF TxInv, Sees, RemoveSees
  <2> QED BY <2>1, <2>2, <2>3 DEF Dead
<1>3. Detach(S) /\ Remove(S) /\ events' = WithoutEvents(S)
  <2>1. \A j \in Jobs : j \in dead /\ j \notin S => job[j] = NoRow("removed") /\ events[j] = {}
    BY <1>2 DEF TxInv, TablesOK, RemovedIsBlank, NoOrphanEvents
  <2>2. slot.job \in dead => slot.job \in S
    BY <1>2, StoreAssumption DEF TxInv, TablesOK, SlotHasRow
  <2>3. S \subseteq dead
    OBVIOUS
  <2>4. Detach(S)
    BY <1>1, <2>2, <2>3 DEF Detach
  <2>5. Remove(S)
    BY <1>1, <2>1, <2>3 DEF Remove
  <2>6. events' = WithoutEvents(S)
    BY <1>1, <2>1, <2>3 DEF WithoutEvents
  <2> QED BY <2>4, <2>5, <2>6
<1>4. Next \/ UNCHANGED vars
  <2>1. CASE S = {}
    <3>1. slot' = slot /\ job' = job /\ events' = events
      BY <1>3, <2>1 DEF Detach, Remove, WithoutEvents, TxInv, TablesOK, IInv, TypeOK, SlotRow
    <3> QED BY <1>1, <3>1 DEF vars
  <2>2. ASSUME NEW j \in S, dead = {j}
        PROVE  Next
    <3>1. j \in Jobs /\ Terminal(j)
      BY <1>2
    <3>2. S = {j}
      BY <2>2
    <3> HIDE DEF dead, S
    <3>3. Dismiss(j)
      BY <1>1, <1>3, <3>1, <3>2, TxAssumption DEF Dismiss
    <3> QED BY <3>1, <3>3 DEF Next
  <2>3. CASE S # {} /\ \A j \in S : dead # {j}
    <3>1. S \subseteq Expired(clock)
      BY <1>2, <2>3 DEF Expired
    <3>2. Cleanup(S, clock)
      BY <1>1, <1>3, <2>3, <3>1 DEF Cleanup
    <3>3. clock \in Now
      <4>1. clock \in Nat /\ MaxSkew \in Nat
        BY StoreAssumption DEF TxInv, TablesOK, IInv, TypeOK, Time
      <4> QED BY <4>1 DEF Now
    <3>4. S \in SUBSET Jobs
      BY <1>2
    <3> QED BY <3>2, <3>3, <3>4 DEF Next
  <2> QED BY <2>1, <2>2, <2>3
<1>5. slot' # slot => slot.job \in dead
  BY <1>1 DEF Detach, TxInv, TablesOK, IInv, TypeOK, SlotRow
<1>6. \A j \in Jobs : job'[j] # job[j] => j \in dead
  BY <1>1 DEF Remove
<1>7. slot.job \in dead => jobLock[slot.job] = NoSession
  BY <1>1
<1> HIDE DEF dead, S
<1> QED BY <1>1, <1>2, <1>4, <1>5, <1>6, <1>7, Commit, QuietEnd
-----------------------------------------------------------------------------
(* The invariant. *)

LEMMA StatementOK ==
  ASSUME TxInv, NEW s \in Sessions,
         Call(s) \/ RemoveRead(s) \/ Statement(s) \/ BreakDeadlock(s) \/ Drop(s)
  PROVE  StepOK(s)
<1>1. CASE Call(s) \/ RemoveRead(s)
  BY <1>1, CallOK, RemoveReadOK
<1>2. CASE BreakDeadlock(s) \/ Drop(s)
  BY <1>2, QuietEnd DEF BreakDeadlock, Drop, Abort
<1>3. CASE Statement(s)
  BY <1>3, ClaimSlotOK, ClaimReadOK, ClaimWriteOldOK, ClaimWriteNewOK, AttachOK, FencedJobOK,
     HeartbeatSlotOK, FinalizeSlotOK, CancelReadOK, CancelWriteOK, InterruptReadOK,
     InterruptJobOK, InterruptSlotOK, RemoveSlotOK, RemoveJobsOK
  DEF Statement
<1> QED BY <1>1, <1>2, <1>3

(* The steps of no session: time, and an append that takes no turn.         *)
LEMMA OthersOK ==
  ASSUME TxInv, TxTick \/ Append \/ UNCHANGED txvars
  PROVE  /\ [Next]_vars /\ Careful(NoSession) /\ TxTypeOK' /\ TokensLast'
<1>1. TxTypeOK /\ TokensLast /\ clock \in Time /\ job \in [Jobs -> Row]
  BY DEF TxInv, TablesOK, IInv, TypeOK
<1>2. \A t \in Sessions : /\ tx[t].now \in Nat
                          /\ tx[t].op \in Timed => clock <= tx[t].now + MaxSkew
  <2>1. \A t \in Sessions : tx[t] \in TxRec
    BY <1>1 DEF TxTypeOK
  <2>2. \A t \in Sessions : ClockRecent(t)
    BY DEF TxInv, Sees
  <2> QED BY <2>1, <2>2 DEF TxRec, Time, ClockRecent
<1>3. ASSUME UNCHANGED <<tx, Locks>>, lastToken' = lastToken
      PROVE  /\ TxTypeOK' /\ TokensLast'
             /\ \A t \in Sessions : /\ tx'[t] = tx[t]
                                    /\ slotLock = t => slotLock' = t
                                    /\ \A j \in Jobs : jobLock[j] = t => jobLock'[j] = t
  <2>1. Claiming' = Claiming
    BY <1>3 DEF Claiming
  <2> QED BY <1>1, <1>3, <2>1 DEF TxTypeOK, TokensLast, Locks
<1>4. CASE TxTick
  <2>1. /\ clock' = clock + 1 /\ UNCHANGED <<slot, job, events, claims, lastToken>> /\ Next
        /\ UNCHANGED <<tx, Locks>>
    BY <1>4 DEF TxTick, Tick, Next
  <2>2. clock <= clock' /\ clock' \in Time
    BY <1>1, <2>1 DEF Time
  <2>3. \A t \in Sessions : tx[t].op \in Timed => clock' <= tx[t].now + MaxSkew
    BY <1>1, <1>2, <1>4, <2>1, StoreAssumption DEF TxTick, Time, Timed
  <2>4. /\ TxTypeOK' /\ TokensLast'
        /\ \A t \in Sessions : /\ tx'[t] = tx[t]
                               /\ slotLock = t => slotLock' = t
                               /\ \A j \in Jobs : jobLock[j] = t => jobLock'[j] = t
    BY <1>3, <2>1
  <2>5. Careful(NoSession)
    BY <2>1, <2>2, <2>3, <2>4 DEF Careful
  <2> QED BY <2>1, <2>4, <2>5
<1>5. CASE Append
  <2>1. PICK c \in claims, n \in 1..MaxBatch :
           /\ jobLock[c.job] = NoSession /\ AppendEvents(c, n) /\ UNCHANGED <<tx, Locks>>
    BY <1>5 DEF Append
  <2>2. Next /\ UNCHANGED <<clock, slot, claims, lastToken>>
    BY <2>1 DEF Next, AppendEvents
  <2>3. \A j \in Jobs : job'[j] # job[j] => jobLock[j] = NoSession
    BY <1>1, <2>1 DEF AppendEvents
  <2>4. clock <= clock' /\ clock' \in Time
    BY <1>1, <2>2 DEF Time
  <2>5. /\ TxTypeOK' /\ TokensLast'
        /\ \A t \in Sessions : /\ tx'[t] = tx[t]
                               /\ slotLock = t => slotLock' = t
                               /\ \A j \in Jobs : jobLock[j] = t => jobLock'[j] = t
    BY <1>3, <2>1, <2>2
  <2>6. Careful(NoSession)
    BY <1>2, <2>2, <2>3, <2>4, <2>5 DEF Careful
  <2> QED BY <2>2, <2>5, <2>6
<1>6. CASE UNCHANGED txvars
  <2>1. UNCHANGED vars /\ UNCHANGED <<tx, Locks>>
    BY <1>6 DEF txvars, vars, Locks
  <2>2. clock <= clock' /\ clock' \in Time
    BY <1>1, <2>1 DEF Time, vars
  <2>3. /\ TxTypeOK' /\ TokensLast'
        /\ \A t \in Sessions : /\ tx'[t] = tx[t]
                               /\ slotLock = t => slotLock' = t
                               /\ \A j \in Jobs : jobLock[j] = t => jobLock'[j] = t
    BY <1>3, <2>1 DEF vars
  <2>4. Careful(NoSession)
    BY <1>2, <2>1, <2>2, <2>3 DEF Careful, vars
  <2> QED BY <2>1, <2>3, <2>4
<1> QED BY <1>4, <1>5, <1>6

LEMMA StepTxInv ==
  ASSUME TxInv, [TxNext]_txvars
  PROVE  TxInv' /\ [Next]_vars
<1>1. PICK who \in Sessions \union {NoSession} :
         /\ [Next]_vars /\ Careful(who) /\ TxTypeOK' /\ TokensLast'
         /\ who \in Sessions => Sees(who)'
  <2>1. CASE TxTick \/ Append \/ UNCHANGED txvars
    BY <2>1, OthersOK, TxAssumption
  <2>2. ASSUME NEW s \in Sessions,
               Call(s) \/ RemoveRead(s) \/ Statement(s) \/ BreakDeadlock(s) \/ Drop(s)
        PROVE  StepOK(s)
    BY <2>2, StatementOK
  <2> QED BY <2>1, <2>2 DEF TxNext, StepOK
<1>2. TablesOK'
  BY <1>1, StepTables DEF TxInv
<1>3. \A t \in Sessions : Sees(t)'
  BY <1>1, <1>2, SeesStable
<1> QED BY <1>1, <1>2, <1>3 DEF TxInv

LEMMA InitTxInv == TxInit => TxInv
<1> SUFFICES ASSUME TxInit PROVE TxInv
  OBVIOUS
<1>1. TablesOK
  BY InitIInv, StoreAssumption
  DEF TxInit, Init, TablesOK, SlotHasRow, RemovedIsBlank, NoOrphanEvents, NoRow
<1>2. TxTypeOK
  BY IdleType DEF TxInit, TxTypeOK
<1>3. TokensLast
  <2>1. Claiming = {}
    BY DEF TxInit, Claiming, Idle
  <2>2. IsFiniteSet({}) /\ Cardinality({}) = 0
    BY FS_EmptySet
  <2> QED BY <2>1, <2>2, StoreAssumption DEF TokensLast, TxInit, Init
<1>4. \A s \in Sessions : Sees(s)
  BY DEF TxInit, Idle, Sees, ClockRecent, CallerHolds, ClaimSees, InterruptSees, RemoveSees, At, Timed
<1> QED BY <1>1, <1>2, <1>3, <1>4 DEF TxInv

(* What every session relies on is so in every reachable state.             *)
THEOREM TxInvariant == TxSpec => []TxInv
  BY InitTxInv, StepTxInv, PTL DEF TxSpec

(* No session acts on a stale read: what an earlier statement of its        *)
(* transaction saw, mostly without a lock, is still so when a later one     *)
(* acts on it (claim, heartbeat, finalize, interrupt_expired).              *)
THEOREM NoStaleRead == TxSpec => []ReadsStillHold
<1>1. TxInv => ReadsStillHold
  <2> SUFFICES ASSUME TxInv, NEW s \in Sessions
               PROVE  /\ At(s, "claim", "job") =>
                            /\ slotLock = s /\ slot.job = tx[s].id
                            /\ tx[s].runs <=> CurrentRuns
                      /\ tx[s].op \in {"heartbeat", "finalize"} /\ tx[s].at = "slot" =>
                            jobLock[tx[s].id] = s /\ Fenced(Caller(s)) /\ HoldsSlot(Caller(s))
                      /\ At(s, "interrupt", "slot") =>
                            jobLock[tx[s].id] = s /\ slot.job = tx[s].id /\ Lapsed(slot.lease, tx[s].now)
    BY DEF ReadsStillHold, Caller
  <2>1. Sees(s)
    BY DEF TxInv
  <2> QED BY <2>1, StillOwned DEF Sees, ClaimSees, InterruptSees, At
<1> QED BY <1>1, TxInvariant, PTL

(* However the statements of concurrent transactions interleave, and        *)
(* whichever of them are dropped half way, the tables see only the atomic   *)
(* transactions of DurableJobStore.                                         *)
THEOREM TransactionsAreAtomic == TxSpec => AtomicTransactions
<1>1. TxInit => Init
  BY DEF TxInit
<1> QED BY <1>1, TxInvariant, StepTxInv, PTL DEF TxSpec, Spec, AtomicTransactions

(* Hence the contract of DurableJobStore holds of the statements too.       *)
THEOREM StatementsImplementContract == TxSpec => ImplementsContract
  BY TransactionsAreAtomic, StoreImplementsContract, PTL DEF AtomicTransactions
=============================================================================
