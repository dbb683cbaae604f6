------------------------ MODULE DurableJobStoreProofs ------------------------
(***************************************************************************)
(* What DurableJobStore guarantees for every number of jobs, every lease   *)
(* length, clock skew, batch size and bound, proved with TLAPS.            *)
(***************************************************************************)
EXTENDS DurableJobStore, FiniteSetTheorems, FunctionTheorems, TLAPS

(* The inductive invariant.  Beyond the properties of the runs it says: the *)
(* running job holds the last token issued, a row that is not terminal has  *)
(* no result, and every event kept was numbered below next_event_seq by a   *)
(* runner no later than the present one; an unborn row has numbered none.   *)
RunnerToken == \A j \in Jobs : Running(j) => job[j].token = lastToken
OpenRowHasNoResult == \A j \in Jobs :
    /\ ~Terminal(j) => job[j].result = None
    /\ job[j].status = "unborn" => job[j].seq = 0
EventsBelowCounter ==
    \A j \in Jobs : job[j].status # "removed" => \A e \in events[j] :
        /\ e.seq < job[j].seq
        /\ Running(j) => e.token <= job[j].token

IInv ==
    /\ TypeOK
    /\ SlotGuardsRun
    /\ LastClaimDecides
    /\ FencedHistory
    /\ RunnerToken
    /\ OpenRowHasNoResult
    /\ EventsBelowCounter
-----------------------------------------------------------------------------
LEMMA NowIsTime == TypeOK => Now \subseteq Time
  BY StoreAssumption DEF TypeOK, Now, Time

(* The initial tables satisfy the invariant. *)
LEMMA InitIInv == Init => IInv
  BY StoreAssumption DEF Init, IInv, TypeOK, SlotGuardsRun, LastClaimDecides, FencedHistory,
     RunnerToken, OpenRowHasNoResult, EventsBelowCounter, NoRow, FreeSlot, Row, SlotRow,
     Status, TERMINAL_STATUSES, None, Time, Token, CurrentRuns, Running, Terminal, ClaimRec, Event
(* What the two row updates keep and change. *)
LEMMA NextRunRow ==
  ASSUME NEW row \in Row, NEW token \in Token, NEW lease \in Time,
         NEW cancel \in BOOLEAN
  PROVE  /\ NextRun(row, token, lease, cancel) \in Row
         /\ NextRun(row, token, lease, cancel).token = token
         /\ NextRun(row, token, lease, cancel).lease = lease
         /\ NextRun(row, token, lease, cancel).status = "running"
         /\ NextRun(row, token, lease, cancel).seq = row.seq
         /\ NextRun(row, token, lease, cancel).result = row.result
  BY DEF NextRun, Row, Status

LEMMA EndedRow ==
  ASSUME NEW row \in Row, NEW status \in TERMINAL_STATUSES,
         NEW result \in Token \union {None}, NEW now \in Time
  PROVE  /\ Ended(row, status, result, now) \in Row
         /\ Ended(row, status, result, now).token = None
         /\ Ended(row, status, result, now).lease = None
         /\ Ended(row, status, result, now).status = status
         /\ Ended(row, status, result, now).seq = row.seq
         /\ Ended(row, status, result, now).result = result
  BY StoreAssumption DEF Ended, Row, Status, Time

(* A claim, of either kind, moves the slot and one row together. *)
LEMMA ClaimNewIInv ==
  ASSUME IInv, NEW j \in Jobs, NEW now \in Now, ClaimNew(j, now)
  PROVE  IInv'
<1> USE StoreAssumption DEF IInv, ClaimNew, TakeSlot, None
<1>0. now \in Time /\ lastToken' \in Token /\ now + LeaseLen \in Time
  BY NowIsTime DEF TypeOK, Time, Token
<1>1. TypeOK'
  <2>1. slot' \in SlotRow
    BY <1>0 DEF SlotRow
  <2>2. job' \in [Jobs -> Row]
    BY <1>0 DEF TypeOK, Row, FirstRun, Status, TERMINAL_STATUSES
  <2>3. claims' \subseteq ClaimRec
    BY <1>0 DEF TypeOK, ClaimRec
  <2> QED BY <1>0, <2>1, <2>2, <2>3 DEF TypeOK, Token
<1>2. /\ job'[j] = FirstRun(lastToken', now + LeaseLen)
      /\ \A i \in Jobs : i # j => job'[i] = job[i] /\ ~Running(i)
  BY <1>0 DEF TypeOK, SlotGuardsRun, CurrentRuns
<1>3. events[j] = {}
  BY DEF TypeOK, OpenRowHasNoResult, EventsBelowCounter, Event
<1>4. SlotGuardsRun'
  <2>1. slot' = [job |-> j, token |-> lastToken', lease |-> now + LeaseLen] /\ j # NoJob
    OBVIOUS
  <2> QED BY <1>0, <1>2, <2>1 DEF SlotGuardsRun, CurrentRuns, Running, FirstRun, Time, Token
<1>5. LastClaimDecides'
  BY <1>0, <1>2 DEF LastClaimDecides, TypeOK, ClaimRec, Running, FirstRun, Time, Token
<1>6. FencedHistory'
  BY <1>2 DEF FencedHistory
<1>7. RunnerToken'
  BY <1>0, <1>2 DEF RunnerToken, Running, TypeOK, Row, Token, FirstRun
<1>8. OpenRowHasNoResult'
  BY <1>2 DEF OpenRowHasNoResult, Terminal, FirstRun
<1>9. EventsBelowCounter'
  BY <1>2, <1>3 DEF EventsBelowCounter, Running
<1> QED BY <1>1, <1>4, <1>5, <1>6, <1>7, <1>8, <1>9

LEMMA ClaimRecoverIInv ==
  ASSUME IInv, NEW now \in Now, ClaimRecover(now)
  PROVE  IInv'
<1> USE StoreAssumption DEF IInv, ClaimRecover, TakeSlot, None
<1> DEFINE j == slot.job
<1>0. /\ now \in Time /\ lastToken' \in Token /\ now + LeaseLen \in Time
      /\ j \in Jobs /\ Running(j)
  BY NowIsTime DEF TypeOK, Time, Token, CurrentRuns, SlotRow
<1>1. /\ job[j] \in Row /\ DOMAIN job' = Jobs
      /\ \E cancel \in BOOLEAN : job'[j] = NextRun(job[j], lastToken', now + LeaseLen, cancel)
      /\ \A i \in Jobs : i # j => job'[i] = job[i] /\ ~Running(i)
  <2>1. job[j] \in Row
    BY <1>0 DEF TypeOK
  <2>2. PICK cancel \in {FALSE, job[j].cancel} :
          job' = [job EXCEPT ![j] = NextRun(job[j], lastToken', now + LeaseLen, cancel)]
    BY DEF TypeOK
  <2>3. cancel \in BOOLEAN
    BY <2>1 DEF Row
  <2>4. \A i \in Jobs : i # j => ~Running(i)
    BY <1>0 DEF SlotGuardsRun
  <2> QED BY <1>0, <2>1, <2>2, <2>3, <2>4 DEF TypeOK
<1>2. /\ job'[j] \in Row /\ job'[j].status = "running" /\ job'[j].seq = job[j].seq
      /\ job'[j].token = lastToken' /\ job'[j].lease = now + LeaseLen
      /\ job'[j].result = job[j].result
  BY <1>0, <1>1, NextRunRow DEF Running
<1>3. TypeOK'
  <2>1. slot' \in SlotRow
    BY <1>0 DEF SlotRow
  <2>2. job' \in [Jobs -> Row]
    BY <1>0, <1>1, <1>2 DEF TypeOK
  <2>3. claims' \subseteq ClaimRec
    BY <1>0 DEF TypeOK, ClaimRec
  <2> QED BY <1>0, <2>1, <2>2, <2>3 DEF TypeOK, Token
<1>4. SlotGuardsRun'
  <2>1. slot' = [job |-> j, token |-> lastToken', lease |-> now + LeaseLen] /\ j # NoJob
    BY <1>0
  <2> QED BY <1>0, <1>1, <1>2, <2>1 DEF SlotGuardsRun, CurrentRuns, Running, Time, Token
<1>5. LastClaimDecides'
  BY <1>0, <1>1, <1>2
  DEF LastClaimDecides, TypeOK, ClaimRec, Running, Terminal, TERMINAL_STATUSES, Time, Token,
      OpenRowHasNoResult
<1>6. FencedHistory'
  BY DEF FencedHistory
<1>7. RunnerToken'
  BY <1>0, <1>1, <1>2 DEF RunnerToken, Running, TypeOK, Row, Token
<1>8. OpenRowHasNoResult'
  BY <1>0, <1>1, <1>2 DEF OpenRowHasNoResult, Terminal, Running, TERMINAL_STATUSES
<1>9. EventsBelowCounter'
  BY <1>0, <1>1, <1>2 DEF EventsBelowCounter, Running, RunnerToken, TypeOK, Row, Event, Token
<1> QED BY <1>3, <1>4, <1>5, <1>6, <1>7, <1>8, <1>9
(* A fenced caller holds the one running job, and the slot for it. *)
LEMMA FencedHolds ==
  ASSUME IInv, NEW c \in claims, Fenced(c)
  PROVE  /\ c.job \in Jobs /\ c.token \in Token /\ job[c.job] \in Row
         /\ c.job # NoJob /\ Running(c.job) /\ job[c.job].token = c.token
         /\ slot = [job |-> c.job, token |-> c.token, lease |-> job[c.job].lease]
         /\ \A i \in Jobs : i # c.job => ~Running(i)
  BY StoreAssumption DEF IInv, TypeOK, ClaimRec, Fenced, SlotGuardsRun

LEMMA AppendIInv ==
  ASSUME IInv, NEW c \in claims, NEW n \in 1..MaxBatch, AppendEvents(c, n)
  PROVE  IInv'
<1> USE StoreAssumption DEF IInv, AppendEvents, Reserved, None
<1> DEFINE j == c.job
           first == job[j].seq
           added == {[seq |-> s, token |-> c.token] : s \in Reserved(j, n)}
<1>0. /\ j \in Jobs /\ c.token \in Token /\ job[j] \in Row /\ Running(j)
      /\ job[j].token = c.token /\ n \in Nat /\ n > 0 /\ first \in Nat
  BY FencedHolds DEF Row
<1>1. /\ job' = [job EXCEPT ![j] = [job[j] EXCEPT !.seq = first + n]]
      /\ UNCHANGED <<clock, slot, claims, lastToken>>
  BY <1>0 DEF TypeOK
<1>2. /\ job'[j] = [job[j] EXCEPT !.seq = first + n] /\ job'[j] \in Row
      /\ job'[j].seq = first + n
      /\ job'[j].status = "running" /\ job'[j].token = c.token
      /\ job'[j].lease = job[j].lease /\ job'[j].result = job[j].result
      /\ \A i \in Jobs : i # j => job'[i] = job[i]
  BY <1>0, <1>1 DEF TypeOK, Row, Running
<1>3. /\ added \subseteq Event
      /\ events'[j] \subseteq events[j] \union added
      /\ \A i \in Jobs : i # j => events'[i] = events[i]
      /\ DOMAIN events' = Jobs
  BY <1>0 DEF TypeOK, Event, Newest
<1>4. TypeOK'
  <2>1. job' \in [Jobs -> Row]
    BY <1>0, <1>1, <1>2 DEF TypeOK
  <2>2. events' \in [Jobs -> SUBSET Event]
    <3>1. events' = [events EXCEPT ![j] = Newest(events[j] \union added)]
      BY <1>0 DEF TypeOK
    <3>2. Newest(events[j] \union added) \in SUBSET Event
      BY <1>0, <1>3 DEF TypeOK, Newest
    <3> QED BY <3>1, <3>2 DEF TypeOK
  <2> QED BY <1>1, <2>1, <2>2 DEF TypeOK
<1>5. SlotGuardsRun'
  BY <1>0, <1>1, <1>2 DEF SlotGuardsRun, CurrentRuns, Running
<1>6. LastClaimDecides'
  BY <1>0, <1>1, <1>2 DEF LastClaimDecides, Running, TypeOK, ClaimRec
<1>7. FencedHistory'
  <2> SUFFICES ASSUME NEW i \in Jobs, NEW e \in events'[i], NEW f \in events'[i]
               PROVE  (e.seq = f.seq => e = f) /\ (e.seq < f.seq => e.token <= f.token)
    BY DEF FencedHistory
  <2>1. CASE i # j
    BY <2>1, <1>3 DEF FencedHistory
  <2>2. CASE i = j
    <3>1. \A x \in events[j] : x.seq < first /\ x.token <= c.token /\ x \in Event
      BY <1>0 DEF EventsBelowCounter, Running, TypeOK
    <3>2. \A x \in added : x.seq >= first /\ x.token = c.token
                           /\ x = [seq |-> x.seq, token |-> c.token] /\ x \in Event
      BY <1>0, <1>3
    <3>3. e \in events[j] \union added /\ f \in events[j] \union added
      BY <2>2, <1>3
    <3>4. CASE e \in events[j] /\ f \in events[j]
      BY <3>4, <1>0 DEF FencedHistory
    <3>5. CASE e \in events[j] /\ f \in added
      BY <3>5, <3>1, <3>2, <1>0 DEF Event
    <3>6. CASE e \in added /\ f \in events[j]
      BY <3>6, <3>1, <3>2, <1>0 DEF Event
    <3>7. CASE e \in added /\ f \in added
      BY <3>7, <3>2, <1>0 DEF Token
    <3> QED BY <3>3, <3>4, <3>5, <3>6, <3>7
  <2> QED BY <2>1, <2>2
<1>8. RunnerToken'
  BY <1>0, <1>1, <1>2 DEF RunnerToken, Running
<1>9. OpenRowHasNoResult'
  BY <1>0, <1>1, <1>2 DEF OpenRowHasNoResult, Terminal, Running, TERMINAL_STATUSES
<1>10. EventsBelowCounter'
  <2>1. \A x \in events[j] \union added : x.seq < first + n /\ x.token <= c.token
    BY <1>0 DEF EventsBelowCounter, Running, TypeOK, Event, Token
  <2> QED BY <1>0, <1>2, <1>3, <2>1 DEF EventsBelowCounter, Running
<1> QED BY <1>4, <1>5, <1>6, <1>7, <1>8, <1>9, <1>10

LEMMA HeartbeatIInv ==
  ASSUME IInv, NEW c \in claims, NEW now \in Now, Heartbeat(c, now)
  PROVE  IInv'
<1> USE StoreAssumption DEF IInv, Heartbeat, None
<1> DEFINE j == c.job
           until == now + LeaseLen
<1>0. /\ j \in Jobs /\ c.token \in Token /\ job[j] \in Row /\ Running(j)
      /\ job[j].token = c.token /\ j # NoJob /\ until \in Time
      /\ \A i \in Jobs : i # j => ~Running(i)
      /\ slot = [job |-> j, token |-> c.token, lease |-> job[j].lease]
  BY FencedHolds, NowIsTime DEF Time
<1>1. /\ job' = [job EXCEPT ![j] = [job[j] EXCEPT !.lease = until]]
      /\ slot' = [job |-> j, token |-> c.token, lease |-> until]
      /\ UNCHANGED <<clock, events, claims, lastToken>>
  BY <1>0 DEF TypeOK, SlotRow
<1>2. /\ job'[j] = [job[j] EXCEPT !.lease = until] /\ job'[j] \in Row
      /\ job'[j].seq = job[j].seq /\ job'[j].lease = until
      /\ job'[j].status = "running" /\ job'[j].token = c.token
      /\ job'[j].result = job[j].result
      /\ \A i \in Jobs : i # j => job'[i] = job[i]
  <2>1. /\ job'[j] = [job[j] EXCEPT !.lease = until]
        /\ \A i \in Jobs : i # j => job'[i] = job[i]
    BY <1>0, <1>1 DEF TypeOK
  <2>2. job[j] \in Row /\ until \in Time /\ job[j].status = "running" /\ job[j].token = c.token
    BY <1>0 DEF Running
  <2>3. \A row \in Row, lease \in Time :
           LET new == [row EXCEPT !.lease = lease]
           IN  /\ new \in Row /\ new.lease = lease /\ new.seq = row.seq
               /\ new.status = row.status /\ new.token = row.token /\ new.result = row.result
    BY DEF Row
  <2> HIDE DEF until
  <2> QED BY ONLY <2>1, <2>2, <2>3
<1>3. TypeOK'
  <2>1. job' \in [Jobs -> Row]
    BY <1>0, <1>1, <1>2 DEF TypeOK
  <2> QED BY <1>0, <1>1, <2>1 DEF TypeOK, SlotRow
<1>4. SlotGuardsRun'
  BY <1>0, <1>1, <1>2 DEF SlotGuardsRun, CurrentRuns, Running, Token, Time
<1>5. LastClaimDecides'
  BY <1>0, <1>1, <1>2 DEF LastClaimDecides, Running, TypeOK, ClaimRec
<1>6. FencedHistory'
  BY <1>1 DEF FencedHistory
<1>7. RunnerToken'
  BY <1>0, <1>1, <1>2 DEF RunnerToken, Running
<1>8. OpenRowHasNoResult'
  BY <1>0, <1>1, <1>2 DEF OpenRowHasNoResult, Terminal, Running, TERMINAL_STATUSES
<1>9. EventsBelowCounter'
  BY <1>0, <1>1, <1>2 DEF EventsBelowCounter, Running
<1> QED BY <1>3, <1>4, <1>5, <1>6, <1>7, <1>8, <1>9

LEMMA RequestCancelIInv ==
  ASSUME IInv, RequestCancel
  PROVE  IInv'
<1> USE DEF IInv, RequestCancel
<1>1. /\ slot.job \in Jobs /\ job[slot.job] \in Row
      /\ job' = [job EXCEPT ![slot.job] = [job[slot.job] EXCEPT !.cancel = TRUE]]
      /\ UNCHANGED <<clock, slot, events, claims, lastToken>>
  BY DEF TypeOK, CurrentRuns, SlotRow
<1>2. job' \in [Jobs -> Row]
  <2>1. \A row \in Row : [row EXCEPT !.cancel = TRUE] \in Row
    BY DEF Row
  <2> QED BY <1>1, <2>1 DEF TypeOK
<1>3. \A i \in Jobs : /\ job'[i].status = job[i].status /\ job'[i].token = job[i].token
                      /\ job'[i].lease = job[i].lease /\ job'[i].seq = job[i].seq
                      /\ job'[i].result = job[i].result
  BY <1>1 DEF TypeOK, Row
<1>4. TypeOK'
  BY <1>1, <1>2 DEF TypeOK
<1>5. SlotGuardsRun'
  BY <1>1, <1>3 DEF SlotGuardsRun, CurrentRuns, Running
<1>6. LastClaimDecides'
  BY <1>1, <1>3 DEF LastClaimDecides, Running, TypeOK, ClaimRec
<1>7. FencedHistory' /\ RunnerToken' /\ OpenRowHasNoResult' /\ EventsBelowCounter'
  BY <1>1, <1>3
  DEF FencedHistory, RunnerToken, OpenRowHasNoResult, EventsBelowCounter, Running, Terminal
<1> QED BY <1>4, <1>5, <1>6, <1>7
(* interrupt_expired and finalize end the running job the same way; only    *)
(* the result differs, and it is the present runner's or nobody's.          *)
LEMMA EndIInv ==
  ASSUME IInv, NEW j \in Jobs, Running(j), NEW now \in Now,
         NEW status \in TERMINAL_STATUSES, NEW result \in {None, job[j].token},
         job' = [job EXCEPT ![j] = Ended(job[j], status, result, now)],
         slot' = FreeSlot(j),
         UNCHANGED <<clock, events, claims, lastToken>>
  PROVE  IInv'
<1> USE StoreAssumption DEF IInv
<1>0. /\ now \in Time /\ job[j] \in Row /\ job[j].token \in Token /\ j # NoJob
      /\ \A i \in Jobs : i # j => ~Running(i)
  BY NowIsTime DEF TypeOK, SlotGuardsRun, Row, None
<1>1. /\ job'[j] \in Row /\ job'[j].status = status /\ job'[j].seq = job[j].seq
      /\ job'[j].result = result
      /\ \A i \in Jobs : i # j => job'[i] = job[i]
  <2>1. result \in Token \union {None}
    BY <1>0
  <2>2. job'[j] = Ended(job[j], status, result, now)
    BY DEF TypeOK
  <2>3. /\ Ended(job[j], status, result, now) \in Row
        /\ Ended(job[j], status, result, now).status = status
        /\ Ended(job[j], status, result, now).seq = job[j].seq
        /\ Ended(job[j], status, result, now).result = result
    <3> HIDE DEF IInv
    <3> QED BY <1>0, <2>1, EndedRow
  <2> QED BY <2>2, <2>3 DEF TypeOK
<1>2. TypeOK'
  <2>1. job' \in [Jobs -> Row]
    BY <1>0, <1>1 DEF TypeOK
  <2> QED BY <1>0, <2>1 DEF TypeOK, SlotRow, FreeSlot
<1>3. SlotGuardsRun'
  BY <1>0, <1>1 DEF SlotGuardsRun, CurrentRuns, Running, FreeSlot, TERMINAL_STATUSES
<1>4. LastClaimDecides'
  BY <1>0, <1>1 DEF LastClaimDecides, Running, TypeOK, ClaimRec, TERMINAL_STATUSES
<1>5. FencedHistory'
  BY DEF FencedHistory
<1>6. RunnerToken'
  BY <1>1 DEF RunnerToken, Running, TERMINAL_STATUSES
<1>7. OpenRowHasNoResult'
  BY <1>1 DEF OpenRowHasNoResult, Terminal, TERMINAL_STATUSES
<1>8. EventsBelowCounter'
  BY <1>1 DEF EventsBelowCounter, Running, TERMINAL_STATUSES
<1> QED BY <1>2, <1>3, <1>4, <1>5, <1>6, <1>7, <1>8

LEMMA InterruptIInv ==
  ASSUME IInv, NEW now \in Now, InterruptExpired(now)
  PROVE  IInv'
<1>1. slot.job \in Jobs /\ Running(slot.job)
  BY DEF InterruptExpired, CurrentRuns, IInv, TypeOK, SlotRow
<1> QED BY <1>1, EndIInv DEF InterruptExpired, TERMINAL_STATUSES, IInv, TypeOK

LEMMA FinalizeIInv ==
  ASSUME IInv, NEW c \in claims, NEW s \in TERMINAL_STATUSES, NEW now \in Now,
         Finalize(c, s, now)
  PROVE  IInv'
<1>1. c.job \in Jobs /\ Running(c.job) /\ c.token = job[c.job].token
  BY FencedHolds DEF Finalize
<1> QED BY <1>1, EndIInv DEF Finalize, IInv, TypeOK

(* dismiss and cleanup remove terminal rows; the slot forgets them. *)
LEMMA RemoveIInv ==
  ASSUME IInv, NEW S \in SUBSET Jobs, \A j \in S : Terminal(j),
         Detach(S), Remove(S),
         events' \in [Jobs -> SUBSET Event],
         \A j \in Jobs : events'[j] \subseteq events[j],
         UNCHANGED <<clock, claims, lastToken>>
  PROVE  IInv'
<1> USE StoreAssumption DEF IInv
<1> DEFINE Gone == NoRow("removed")
<1>0. /\ Gone \in Row /\ Gone.status = "removed" /\ Gone.result = None
      /\ \A j \in Jobs : job'[j] = IF j \in S THEN Gone ELSE job[j]
  BY DEF NoRow, Row, Status, Remove
<1> HIDE DEF Gone
<1>1. \A j \in S : ~Running(j)
  BY DEF Terminal, Running, TERMINAL_STATUSES
<1>2. /\ slot'.job \in Jobs \union {NoJob} /\ slot'.token = slot.token
      /\ slot'.lease = slot.lease /\ slot' \in SlotRow
      /\ slot.job \notin S => slot' = slot
  BY DEF Detach, TypeOK, SlotRow
<1>3. TypeOK'
  BY <1>0, <1>2 DEF TypeOK, Remove, Gone
<1>4. SlotGuardsRun'
  <2>1. slot.lease # None => slot.job \notin S
    BY <1>1 DEF SlotGuardsRun, CurrentRuns
  <2>2. \A j \in Jobs : job'[j].status = "running" => j \notin S /\ Running(j)
    BY <1>0 DEF Running
  <2>3. \A j \in Jobs : Running(j) => slot.job = j /\ slot' = slot
    BY <1>1, <1>2 DEF SlotGuardsRun
  <2> QED BY <1>0, <1>2, <2>1, <2>2, <2>3 DEF SlotGuardsRun, CurrentRuns, Running, TypeOK, SlotRow
<1>5. LastClaimDecides'
  BY <1>0 DEF LastClaimDecides, Running, TypeOK, ClaimRec
<1>6. FencedHistory'
  BY DEF FencedHistory
<1>7. RunnerToken'
  BY <1>0 DEF RunnerToken, Running
<1>8. OpenRowHasNoResult'
  BY <1>0 DEF OpenRowHasNoResult, Terminal
<1>9. EventsBelowCounter'
  BY <1>0 DEF EventsBelowCounter, Running
<1> QED BY <1>3, <1>4, <1>5, <1>6, <1>7, <1>8, <1>9

LEMMA DismissIInv ==
  ASSUME IInv, NEW j \in Jobs, Dismiss(j)
  PROVE  IInv'
<1>1. events' \in [Jobs -> SUBSET Event] /\ \A i \in Jobs : events'[i] \subseteq events[i]
  BY DEF Dismiss, WithoutEvents, IInv, TypeOK
<1>2. UNCHANGED <<clock, claims, lastToken>>
  BY DEF Dismiss
<1> QED BY <1>1, <1>2, RemoveIInv DEF Dismiss

LEMMA CleanupIInv ==
  ASSUME IInv, NEW now \in Now, NEW S \in SUBSET Jobs, Cleanup(S, now)
  PROVE  IInv'
<1>1. events' \in [Jobs -> SUBSET Event] /\ \A i \in Jobs : events'[i] \subseteq events[i]
  BY DEF Cleanup, WithoutEvents, IInv, TypeOK
<1>2. \A i \in S : Terminal(i)
  BY DEF Cleanup, Expired
<1>3. UNCHANGED <<clock, claims, lastToken>>
  BY DEF Cleanup
<1> QED BY <1>1, <1>2, <1>3, RemoveIInv DEF Cleanup

LEMMA TickIInv ==
  ASSUME IInv, Tick \/ UNCHANGED vars
  PROVE  IInv'
<1>1. UNCHANGED <<slot, job, events, claims, lastToken>> /\ clock' \in Time
  BY DEF Tick, vars, IInv, TypeOK, Time
<1> QED BY <1>1
  DEF IInv, TypeOK, SlotGuardsRun, LastClaimDecides, FencedHistory, RunnerToken,
      OpenRowHasNoResult, EventsBelowCounter, CurrentRuns, Running, Terminal
-----------------------------------------------------------------------------
LEMMA StepIInv == IInv /\ [Next]_vars => IInv'
<1> SUFFICES ASSUME IInv, [Next]_vars PROVE IInv'
  OBVIOUS
<1>1. CASE Tick \/ UNCHANGED vars
  BY <1>1, TickIInv
<1>2. CASE RequestCancel
  BY <1>2, RequestCancelIInv
<1>3. CASE \E j \in Jobs : Dismiss(j)
  BY <1>3, DismissIInv
<1>4. ASSUME NEW now \in Now, ClaimRecover(now)
      PROVE  IInv'
  BY <1>4, ClaimRecoverIInv
<1>5. ASSUME NEW now \in Now, InterruptExpired(now)
      PROVE  IInv'
  BY <1>5, InterruptIInv
<1>6. ASSUME NEW now \in Now, NEW S \in SUBSET Jobs, Cleanup(S, now)
      PROVE  IInv'
  BY <1>6, CleanupIInv
<1>7. ASSUME NEW now \in Now, NEW j \in Jobs, ClaimNew(j, now)
      PROVE  IInv'
  BY <1>7, ClaimNewIInv
<1>8. ASSUME NEW c \in claims, NEW n \in 1..MaxBatch, AppendEvents(c, n)
      PROVE  IInv'
  BY <1>8, AppendIInv
<1>9. ASSUME NEW c \in claims, NEW now \in Now, Heartbeat(c, now)
      PROVE  IInv'
  BY <1>9, HeartbeatIInv
<1>10. ASSUME NEW c \in claims, NEW now \in Now, NEW s \in TERMINAL_STATUSES,
              Finalize(c, s, now)
       PROVE  IInv'
  BY <1>10, FinalizeIInv
<1> QED BY <1>1, <1>2, <1>3, <1>4, <1>5, <1>6, <1>7, <1>8, <1>9, <1>10 DEF Next

(* The inductive invariant holds in every reachable state. *)
THEOREM StoreInvariant == Spec => []IInv
  BY InitIInv, StepIInv, PTL DEF Spec

(* Every column keeps its type. *)
THEOREM TypeCorrect == Spec => []TypeOK
<1>1. IInv => TypeOK
  BY DEF IInv
<1> QED BY <1>1, StoreInvariant, PTL

(* At most one job of a scope runs, it is the one the slot is leased for,   *)
(* and a lease never outlives its job: claim and interrupt_expired can      *)
(* always free the scope by the expiry alone.                               *)
THEOREM OneRunner == Spec => []SlotGuardsRun
<1>1. IInv => SlotGuardsRun
  BY DEF IInv
<1> QED BY <1>1, StoreInvariant, PTL

(* The result stored for a job is that of the last runner it was granted to.*)
THEOREM FencedOutcome == Spec => []LastClaimDecides
<1>1. IInv => LastClaimDecides
  BY DEF IInv
<1> QED BY <1>1, StoreInvariant, PTL

(* A superseded runner writes nothing behind its successor's back.          *)
THEOREM FencedEvents == Spec => []FencedHistory
<1>1. IInv => FencedHistory
  BY DEF IInv
<1> QED BY <1>1, StoreInvariant, PTL
-----------------------------------------------------------------------------
(* The ranking DELETE of append_events, on rows numbered lo..hi without a   *)
(* gap or a repetition, keeps the rows of the EventLimit highest numbers.   *)
LEMMA NewestIsWindow ==
  ASSUME NEW rows \in SUBSET Event, NEW lo \in Nat, NEW hi \in Nat,
         {e.seq : e \in rows} = lo..hi,
         \A e, f \in rows : e.seq = f.seq => e = f
  PROVE  {e.seq : e \in Newest(rows)} = {s \in lo..hi : s > hi - EventLimit}
<1> USE StoreAssumption
<1>1. ASSUME NEW e \in rows
      PROVE  Cardinality({f \in rows : f.seq > e.seq}) = hi - e.seq
  <2> DEFINE later == {f \in rows : f.seq > e.seq}
             above == (e.seq + 1)..hi
             rank == [f \in later |-> f.seq]
  <2>1. e.seq \in Nat /\ e.seq <= hi /\ \A f \in rows : f.seq \in Nat /\ f.seq <= hi
    BY DEF Event
  <2>2. rank \in Bijection(later, above)
    <3>1. rank \in [later -> above]
      BY <2>1
    <3>2. \A x, y \in later : rank[x] = rank[y] => x = y
      OBVIOUS
    <3>3. \A n \in above : \E f \in later : rank[f] = n
      <4>1. \A n \in above : n \in lo..hi
        BY <2>1
      <4>2. \A n \in above : \E f \in rows : f.seq = n
        BY <4>1
      <4> QED BY <2>1, <4>2
    <3> QED BY <3>1, <3>2, <3>3 DEF Bijection, Injection, Surjection, IsInjective
  <2>3. IsFiniteSet(above) /\ Cardinality(above) = hi - e.seq
    <3>1. e.seq + 1 \in Int /\ hi \in Int
      BY <2>1
    <3>2. /\ IsFiniteSet(above)
          /\ Cardinality(above) = IF e.seq + 1 > hi THEN 0 ELSE hi - (e.seq + 1) + 1
      BY <3>1, FS_Interval
    <3> QED BY <2>1, <3>2
  <2>4. ExistsBijection(above, later)
    BY <2>2, Fun_ExistsBijSymmetric DEF ExistsBijection
  <2>5. Cardinality(later) = Cardinality(above)
    BY <2>3, <2>4, FS_Bijection
  <2> QED BY <2>3, <2>5
<1>2. \A e \in rows : e.seq \in Nat
  BY DEF Event
<1>3. \A e \in rows : e \in Newest(rows) <=> e.seq > hi - EventLimit
  BY <1>1, <1>2 DEF Newest
<1>4. Newest(rows) \subseteq rows
  BY DEF Newest
<1> QED BY <1>3, <1>4
(* Replay has no hole, whatever was batched, recovered or retried.          *)
LEMMA StepReplayWindow == IInv /\ ReplayWindow /\ [Next]_vars => ReplayWindow'
<1> SUFFICES ASSUME IInv, ReplayWindow, [Next]_vars PROVE ReplayWindow'
  OBVIOUS
<1> USE StoreAssumption DEF IInv, Reserved
<1> DEFINE Window(q) == {s \in 0..(q - 1) : s >= q - EventLimit}
<1>1. ASSUME NEW c \in claims, NEW n \in 1..MaxBatch, AppendEvents(c, n)
      PROVE  ReplayWindow'
  <2> DEFINE j == c.job
             first == job[j].seq
             added == {[seq |-> s, token |-> c.token] : s \in Reserved(j, n)}
             rows == events[j] \union added
             lo == IF first > EventLimit THEN first - EventLimit ELSE 0
             hi == first + n - 1
  <2>0. /\ j \in Jobs /\ c.token \in Token /\ job[j] \in Row /\ Running(j)
        /\ n \in Nat /\ n > 0 /\ first \in Nat /\ Fenced(c)
    BY <1>1, FencedHolds DEF AppendEvents, Row
  <2>1. /\ job'[j].seq = first + n
        /\ events'[j] = Newest(rows)
        /\ \A i \in Jobs : i # j => job'[i] = job[i] /\ events'[i] = events[i]
    BY <1>1, <2>0 DEF AppendEvents, TypeOK, Row
  <2>2. lo \in Nat /\ hi \in Nat
    BY <2>0
  <2>3. rows \in SUBSET Event
    BY <2>0 DEF TypeOK, Event
  <2>4. {e.seq : e \in events[j]} = Window(first)
    BY <2>0 DEF ReplayWindow, Running
  <2>5. {e.seq : e \in rows} = lo..hi
    <3>1. {e.seq : e \in added} = first..hi
      <4>1. ASSUME NEW s \in first..hi
            PROVE  \E e \in added : e.seq = s
        <5>1. [seq |-> s, token |-> c.token] \in added
          OBVIOUS
        <5> QED BY <5>1
      <4>2. \A e \in added : e.seq \in first..hi
        OBVIOUS
      <4> QED BY <4>1, <4>2
    <3>2. {e.seq : e \in rows} = Window(first) \union first..hi
      BY <2>4, <3>1
    <3>3. Window(first) \union first..hi = lo..hi
      BY <2>0
    <3> QED BY <3>2, <3>3
  <2>6. ASSUME NEW e \in rows, NEW f \in rows, e.seq = f.seq
        PROVE  e = f
    <3>1. \A x \in events[j] : x.seq < first /\ x.seq \in Nat
      BY <2>0 DEF EventsBelowCounter, Running, TypeOK, Event
    <3>2. \A x \in added : x.seq >= first /\ x = [seq |-> x.seq, token |-> c.token]
      BY <2>0
    <3>3. \A x, y \in events[j] : x.seq = y.seq => x = y
      BY <2>0 DEF FencedHistory
    <3> QED BY <2>0, <2>6, <3>1, <3>2, <3>3
  <2>7. {e.seq : e \in Newest(rows)} = {s \in lo..hi : s > hi - EventLimit}
    BY <2>2, <2>3, <2>5, <2>6, NewestIsWindow
  <2>8. {s \in lo..hi : s > hi - EventLimit} = Window(first + n)
    BY <2>0
  <2> QED BY <2>0, <2>1, <2>7, <2>8 DEF ReplayWindow
<1>2. ASSUME NEW now \in Now, NEW j \in Jobs, ClaimNew(j, now)
      PROVE  ReplayWindow'
  <2>1. events[j] = {}
    BY <1>2 DEF ClaimNew, TypeOK, OpenRowHasNoResult, EventsBelowCounter, Event
  <2>2. /\ job'[j].seq = 0 /\ events' = events
        /\ \A i \in Jobs : i # j => job'[i] = job[i]
    BY <1>2 DEF ClaimNew, TypeOK, FirstRun
  <2>3. {e.seq : e \in {}} = Window(0)
    OBVIOUS
  <2> QED BY <2>1, <2>2, <2>3 DEF ReplayWindow
<1>3. ASSUME \A j \in Jobs : job'[j].status \notin {"unborn", "removed"} =>
                /\ job[j].status \notin {"unborn", "removed"}
                /\ job'[j].seq = job[j].seq /\ events'[j] = events[j]
      PROVE  ReplayWindow'
  BY <1>3 DEF ReplayWindow
<1>4. CASE Tick \/ UNCHANGED vars
  BY <1>4, <1>3 DEF Tick, vars
<1>5. CASE RequestCancel
  BY <1>5, <1>3 DEF RequestCancel, CurrentRuns, TypeOK, Row
<1>6. ASSUME NEW S \in SUBSET Jobs, Remove(S), \A j \in Jobs \ S : events'[j] = events[j]
      PROVE  ReplayWindow'
  BY <1>6, <1>3 DEF Remove, NoRow
<1>7. CASE \E j \in Jobs : Dismiss(j)
  BY <1>7, <1>6 DEF Dismiss, WithoutEvents, TypeOK
<1>8. ASSUME NEW now \in Now, NEW S \in SUBSET Jobs, Cleanup(S, now)
      PROVE  ReplayWindow'
  BY <1>8, <1>6 DEF Cleanup, WithoutEvents, Expired
<1>9. ASSUME NEW now \in Now, ClaimRecover(now)
      PROVE  ReplayWindow'
  <2>1. slot.job \in Jobs /\ Running(slot.job) /\ events' = events
    BY <1>9 DEF ClaimRecover, CurrentRuns, TypeOK, SlotRow
  <2>2. \E cancel :
          job' = [job EXCEPT ![slot.job] = NextRun(job[slot.job], lastToken', now + LeaseLen, cancel)]
    BY <1>9 DEF ClaimRecover, TypeOK
  <2> QED BY <2>1, <2>2, <1>3 DEF NextRun, Running, TypeOK
<1>10. ASSUME NEW j \in Jobs, Running(j), NEW status, NEW result, NEW now,
              job' = [job EXCEPT ![j] = Ended(job[j], status, result, now)], events' = events
       PROVE  ReplayWindow'
  BY <1>10, <1>3 DEF Ended, Running, TypeOK
<1>11. ASSUME NEW now \in Now, InterruptExpired(now)
       PROVE  ReplayWindow'
  BY <1>11, <1>10 DEF InterruptExpired, CurrentRuns, TypeOK, SlotRow
<1>12. ASSUME NEW c \in claims, NEW now \in Now, NEW s \in TERMINAL_STATUSES,
              Finalize(c, s, now)
       PROVE  ReplayWindow'
  BY <1>12, <1>10, FencedHolds DEF Finalize, TypeOK
<1>13. ASSUME NEW c \in claims, NEW now \in Now, Heartbeat(c, now)
       PROVE  ReplayWindow'
  <2>1. c.job \in Jobs /\ Running(c.job) /\ events' = events
    BY <1>13, FencedHolds DEF Heartbeat
  <2>2. job' = [job EXCEPT ![c.job] = [job[c.job] EXCEPT !.lease = now + LeaseLen]]
    BY <1>13 DEF Heartbeat, TypeOK
  <2> QED BY <2>1, <2>2, <1>3 DEF Running, TypeOK, Row
<1> QED BY <1>1, <1>2, <1>4, <1>5, <1>7, <1>8, <1>9, <1>11, <1>12, <1>13 DEF Next

(* Replay for every EventLimit, every batch size and any number of          *)
(* recoveries: the events kept are the newest ones, without a hole.         *)
THEOREM ReplayHasNoHole == Spec => []ReplayWindow
<1>1. Init => ReplayWindow
  BY DEF Init, ReplayWindow, NoRow
<1> QED BY <1>1, StoreInvariant, StepReplayWindow, PTL DEF Spec
-----------------------------------------------------------------------------
(* A step leaves a row that does not run, and its history, alone, or        *)
(* removes them.                                                            *)
LEMMA StepTerminal ==
  ASSUME IInv, [Next]_vars, NEW j \in Jobs, Terminal(j) \/ job[j].status = "removed"
  PROVE  \/ job'[j] = job[j] /\ events'[j] = events[j]
         \/ /\ Terminal(j) /\ job'[j].status = "removed"
            /\ CascadeDeletes => events'[j] = {}
<1> USE DEF IInv
<1>1. ~Running(j) /\ job[j].status # "unborn"
  BY DEF Terminal, Running, TERMINAL_STATUSES
<1>2. CASE Tick \/ UNCHANGED vars
  BY <1>2 DEF Tick, vars
<1>3. CASE RequestCancel
  BY <1>1, <1>3 DEF RequestCancel, CurrentRuns, TypeOK
<1>4. CASE \E i \in Jobs : Dismiss(i)
  BY <1>4 DEF Dismiss, WithoutEvents, Remove, NoRow, TypeOK
<1>5. ASSUME NEW now \in Now, ClaimRecover(now) \/ InterruptExpired(now)
      PROVE  job'[j] = job[j] /\ events'[j] = events[j]
  BY <1>1, <1>5 DEF ClaimRecover, InterruptExpired, CurrentRuns, TypeOK
<1>6. ASSUME NEW now \in Now, NEW S \in SUBSET Jobs, Cleanup(S, now)
      PROVE  \/ job'[j] = job[j] /\ events'[j] = events[j]
             \/ /\ Terminal(j) /\ job'[j].status = "removed"
                /\ CascadeDeletes => events'[j] = {}
  BY <1>6 DEF Cleanup, Expired, WithoutEvents, Remove, NoRow
<1>7. ASSUME NEW now \in Now, NEW i \in Jobs, ClaimNew(i, now)
      PROVE  job'[j] = job[j] /\ events'[j] = events[j]
  BY <1>1, <1>7 DEF ClaimNew, TypeOK
<1>8. ASSUME NEW c \in claims,
             \/ \E n \in 1..MaxBatch : AppendEvents(c, n)
             \/ \E now \in Now : Heartbeat(c, now)
             \/ \E now \in Now, s \in TERMINAL_STATUSES : Finalize(c, s, now)
      PROVE  job'[j] = job[j] /\ events'[j] = events[j]
  <2>1. c.job \in Jobs /\ c.job # j
    BY <1>1, <1>8, FencedHolds DEF AppendEvents, Heartbeat, Finalize
  <2> QED BY <1>8, <2>1 DEF AppendEvents, Heartbeat, Finalize, TypeOK
<1> QED BY <1>2, <1>3, <1>4, <1>5, <1>6, <1>7, <1>8 DEF Next

(* A terminal status, its result and the history are final: no late append, *)
(* heartbeat, cancel request, second finalize or recovery touches them.     *)
THEOREM TerminalFinality == Spec => TerminalIsFinal
<1>1. IInv /\ [Next]_vars =>
        [\A j \in Jobs : Terminal(j) \/ job[j].status = "removed" =>
          \/ job'[j] = job[j] /\ events'[j] = events[j]
          \/ /\ Terminal(j) /\ job'[j].status = "removed"
             /\ CascadeDeletes => events'[j] = {}]_vars
  BY StepTerminal
<1> QED BY <1>1, StoreInvariant, PTL DEF Spec, TerminalIsFinal

(* Nothing is left of a removed job: what TerminalIsFinal amounts to. *)
NoOrphanEvents ==
    \A j \in Jobs : job[j].status = "removed" => events[j] = {}

(* A job that a step removes leaves no event behind, and a removed job never *)
(* gets one: only a running job's rows are written.                         *)
LEMMA StepRemoved ==
  ASSUME IInv, [Next]_vars, NEW j \in Jobs, CascadeDeletes, job'[j].status = "removed"
  PROVE  (job[j].status = "removed" /\ events'[j] = events[j]) \/ events'[j] = {}
<1> USE DEF IInv
<1>2. CASE Tick \/ UNCHANGED vars
  BY <1>2 DEF Tick, vars
<1>3. CASE RequestCancel
  BY <1>3 DEF RequestCancel, CurrentRuns, TypeOK, Row
<1>4. CASE \E i \in Jobs : Dismiss(i)
  BY <1>4 DEF Dismiss, WithoutEvents, Remove, NoRow, TypeOK
<1>5. ASSUME NEW now \in Now, ClaimRecover(now) \/ InterruptExpired(now)
      PROVE  job[j].status = "removed" /\ events'[j] = events[j]
  BY <1>5 DEF ClaimRecover, InterruptExpired, CurrentRuns, TypeOK, NextRun, Ended
<1>6. ASSUME NEW now \in Now, NEW S \in SUBSET Jobs, Cleanup(S, now)
      PROVE  (job[j].status = "removed" /\ events'[j] = events[j]) \/ events'[j] = {}
  BY <1>6 DEF Cleanup, WithoutEvents, Remove, NoRow
<1>7. ASSUME NEW now \in Now, NEW i \in Jobs, ClaimNew(i, now)
      PROVE  job[j].status = "removed" /\ events'[j] = events[j]
  BY <1>7 DEF ClaimNew, FirstRun, TypeOK
<1>8. ASSUME NEW c \in claims,
             \/ \E n \in 1..MaxBatch : AppendEvents(c, n)
             \/ \E now \in Now : Heartbeat(c, now)
             \/ \E now \in Now, s \in TERMINAL_STATUSES : Finalize(c, s, now)
      PROVE  job[j].status = "removed" /\ events'[j] = events[j]
  <2>1. c.job \in Jobs /\ Running(c.job)
    BY <1>8, FencedHolds DEF AppendEvents, Heartbeat, Finalize
  <2>2. job'[c.job].status # "removed"
    <3>1. job \in [Jobs -> Row] /\ job[c.job].status = "running"
      BY <2>1 DEF TypeOK, Running
    <3>2. CASE \E n \in 1..MaxBatch : AppendEvents(c, n)
      BY <3>1, <3>2, <2>1 DEF AppendEvents, Row
    <3>3. CASE \E now \in Now : Heartbeat(c, now)
      BY <3>1, <3>3, <2>1 DEF Heartbeat, Row
    <3>4. CASE \E now \in Now, s \in TERMINAL_STATUSES : Finalize(c, s, now)
      BY <3>1, <3>4, <2>1 DEF Finalize, Ended, TERMINAL_STATUSES
    <3> QED BY <1>8, <3>2, <3>3, <3>4
  <2> QED BY <1>8, <2>1, <2>2 DEF AppendEvents, Heartbeat, Finalize, TypeOK
<1> QED BY <1>2, <1>3, <1>4, <1>5, <1>6, <1>7, <1>8 DEF Next

(* Where the database enforces ON DELETE CASCADE, dismiss and cleanup leave *)
(* nothing of a job behind, and no late append brings anything back.        *)
THEOREM RemovalIsComplete ==
  ASSUME CascadeDeletes
  PROVE  Spec => []NoOrphanEvents
<1>1. Init => NoOrphanEvents
  BY DEF Init, NoOrphanEvents, NoRow
<1>2. IInv /\ NoOrphanEvents /\ [Next]_vars => NoOrphanEvents'
  BY StepRemoved DEF NoOrphanEvents
<1> QED BY <1>1, <1>2, StoreInvariant, PTL DEF Spec

(* A step that takes a running job from its runner met an expired lease.    *)
LEMMA StepTakeover ==
  ASSUME IInv, [Next]_vars, NEW j \in Jobs, Running(j), job'[j].token # job[j].token
  PROVE  job[j].lease <= clock + MaxSkew \/ job'[j].result = job[j].token
<1> USE StoreAssumption DEF IInv
<1>0. /\ slot = [job |-> j, token |-> job[j].token, lease |-> job[j].lease]
      /\ slot.lease # None /\ job[j] \in Row /\ slot.lease \in Time
  BY DEF SlotGuardsRun, TypeOK, Row
<1>1. \A now \in Now : now \in Time /\ now <= clock + MaxSkew
  BY DEF TypeOK, Now, Time
<1>2. CASE Tick \/ UNCHANGED vars
  BY <1>2 DEF Tick, vars
<1>3. CASE RequestCancel
  BY <1>3 DEF RequestCancel, CurrentRuns, TypeOK, Row
<1>4. CASE \E i \in Jobs : Dismiss(i)
  <2>1. PICK i \in Jobs : Dismiss(i)
    BY <1>4
  <2> QED BY <1>0, <2>1 DEF Dismiss, Remove, Terminal, Running, TERMINAL_STATUSES
<1>5. ASSUME NEW now \in Now, ClaimRecover(now) \/ InterruptExpired(now)
      PROVE  job[j].lease <= clock + MaxSkew
  <2>1. slot.lease = job[j].lease
    BY <1>0
  <2>2. slot.lease <= now
    <3>1. CASE ClaimRecover(now)
      BY <1>0, <3>1 DEF ClaimRecover, TakeSlot
    <3>2. CASE InterruptExpired(now)
      BY <3>2 DEF InterruptExpired, Lapsed
    <3> QED BY <1>5, <3>1, <3>2
  <2>3. now \in Nat /\ slot.lease \in Nat /\ clock + MaxSkew \in Nat
    BY <1>0, <1>1 DEF TypeOK, Time
  <2> QED BY <1>1, <2>1, <2>2, <2>3
<1>6. ASSUME NEW now \in Now, NEW S \in SUBSET Jobs, Cleanup(S, now)
      PROVE  FALSE
  BY <1>6 DEF Cleanup, Remove, Expired, Terminal, Running, TERMINAL_STATUSES
<1>7. ASSUME NEW now \in Now, NEW i \in Jobs, ClaimNew(i, now)
      PROVE  FALSE
  BY <1>0, <1>7 DEF ClaimNew, CurrentRuns, SlotGuardsRun
<1>8. ASSUME NEW c \in claims, NEW n \in 1..MaxBatch, AppendEvents(c, n)
      PROVE  FALSE
  BY <1>8, FencedHolds DEF AppendEvents, TypeOK, Row
<1>9. ASSUME NEW c \in claims, NEW now \in Now, Heartbeat(c, now)
      PROVE  FALSE
  BY <1>9, FencedHolds DEF Heartbeat, TypeOK, Row
<1>10. ASSUME NEW c \in claims, NEW now \in Now, NEW s \in TERMINAL_STATUSES,
              Finalize(c, s, now)
       PROVE  job'[j].result = job[j].token
  <2>1. c.job = j /\ c.token = job[j].token
    BY <1>10, FencedHolds DEF Finalize
  <2> QED BY <1>10, <2>1 DEF Finalize, Ended, TypeOK
<1> QED BY <1>2, <1>3, <1>4, <1>5, <1>6, <1>7, <1>8, <1>9, <1>10 DEF Next

(* Nobody loses a job while its lease is in force, up to the clock skew.    *)
THEOREM LeaseProtects == Spec => NoEarlyTakeover
<1>1. IInv /\ [Next]_vars =>
        [\A j \in Jobs : Running(j) /\ job'[j].token # job[j].token =>
          \/ job[j].lease <= clock + MaxSkew
          \/ job'[j].result = job[j].token]_vars
  BY StepTakeover
<1> QED BY <1>1, StoreInvariant, PTL DEF Spec, NoEarlyTakeover-----------------------------------------------------------------------------
(* The mapping to JobContract, and what the invariant says of it. *)
current == IF slot.lease = None THEN NoJob ELSE slot.job
phase == [j \in Jobs |-> Phase(job[j].status)]
length == [j \in Jobs |-> job[j].seq]
verdict == [j \in Jobs |-> job[j].result]

LEMMA CurrentIsRunning ==
  ASSUME IInv
  PROVE  /\ \A j \in Jobs : Running(j) => current = j
         /\ current # NoJob => current \in Jobs /\ Running(current)
  BY DEF IInv, current, SlotGuardsRun, CurrentRuns, TypeOK, SlotRow

LEMMA StepContract == IInv /\ IInv' /\ [Next]_vars => [Contract!Next]_(Contract!contractVars)
<1> SUFFICES ASSUME IInv, IInv', [Next]_vars
             PROVE  Contract!Next \/ UNCHANGED <<current, lastToken, phase, length, verdict>>
  BY DEF Contract!contractVars, current, phase, length, verdict
<1> USE StoreAssumption DEF IInv
<1>1. CASE Tick \/ UNCHANGED vars
  BY <1>1 DEF Tick, vars, current, phase, length, verdict
<1>2. CASE RequestCancel
  BY <1>2 DEF RequestCancel, CurrentRuns, TypeOK, Row, current, phase, length, verdict
<1>3. ASSUME NEW S \in SUBSET Jobs, \A j \in S : Terminal(j), Detach(S), Remove(S),
             UNCHANGED lastToken
      PROVE  Contract!Next
  <2>1. \A j \in S : phase[j] = "sealed"
    BY <1>3 DEF phase, Phase, Terminal, TERMINAL_STATUSES
  <2>2. current' = current
    BY <1>3 DEF current, Detach, SlotGuardsRun, CurrentRuns, Running, Terminal,
                TERMINAL_STATUSES, TypeOK, SlotRow
  <2>3. /\ phase' = [j \in Jobs |-> IF j \in S THEN "gone" ELSE phase[j]]
        /\ length' = [j \in Jobs |-> IF j \in S THEN 0 ELSE length[j]]
        /\ verdict' = [j \in Jobs |-> IF j \in S THEN -1 ELSE verdict[j]]
    BY <1>3 DEF phase, Phase, length, verdict, Remove, NoRow, None
  <2>4. Contract!Forget(S)
    BY <1>3, <2>1, <2>2, <2>3
    DEF Contract!Forget, Contract!Nobody, current, phase, length, verdict
  <2> QED BY <2>4 DEF Contract!Next
<1>4. ASSUME NEW j \in Jobs, Dismiss(j)
      PROVE  Contract!Next
  BY <1>4, <1>3 DEF Dismiss
<1>5. ASSUME NEW now \in Now, NEW S \in SUBSET Jobs, Cleanup(S, now)
      PROVE  Contract!Next
  <2>1. \A i \in S : Terminal(i)
    BY <1>5 DEF Cleanup, Expired
  <2> QED BY <1>5, <2>1, <1>3 DEF Cleanup
<1>6. ASSUME NEW now \in Now, NEW j \in Jobs, ClaimNew(j, now)
      PROVE  Contract!Next
  <2>1. current = NoJob
    BY <1>6 DEF ClaimNew, SlotGuardsRun, current
  <2>2. current' = j
    BY <1>6, NowIsTime DEF ClaimNew, TakeSlot, current, Time, None
  <2>3. /\ phase' = [phase EXCEPT ![j] = "open"] /\ phase[j] = "new"
        /\ length' = length /\ verdict' = verdict
    BY <1>6 DEF ClaimNew, phase, length, verdict, Phase, FirstRun, TypeOK, OpenRowHasNoResult,
                Terminal, TERMINAL_STATUSES
  <2>4. Contract!Begin(j)
    BY <1>6, <2>1, <2>2, <2>3
    DEF Contract!Begin, ClaimNew, TakeSlot, current, phase, length, verdict
  <2> QED BY <2>4 DEF Contract!Next
<1>7. ASSUME NEW now \in Now, ClaimRecover(now)
      PROVE  Contract!Next
  <2>1. slot.job \in Jobs /\ Running(slot.job) /\ slot'.job = slot.job /\ slot'.lease # None
    BY <1>7, NowIsTime DEF ClaimRecover, CurrentRuns, TakeSlot, TypeOK, SlotRow, Time, None
  <2>2. current # NoJob /\ current' = current
    BY <2>1 DEF SlotGuardsRun, current
  <2>3. phase' = phase /\ length' = length /\ verdict' = verdict
    BY <1>7, <2>1 DEF ClaimRecover, phase, length, verdict, Phase, NextRun, TypeOK, Running
  <2>4. Contract!HandOver
    BY <1>7, <2>2, <2>3
    DEF Contract!HandOver, ClaimRecover, TakeSlot, current, phase, length, verdict
  <2> QED BY <2>4 DEF Contract!Next
<1>8. ASSUME NEW j \in Jobs, Running(j), NEW status \in TERMINAL_STATUSES, NEW now \in Now,
             NEW result \in {None, lastToken},
             job' = [job EXCEPT ![j] = Ended(job[j], status, result, now)],
             slot' = FreeSlot(j), UNCHANGED lastToken
      PROVE  Contract!Next
  <2>1. current = j /\ j # NoJob /\ current' = NoJob
    BY <1>8, CurrentIsRunning DEF current, FreeSlot
  <2>2. /\ phase' = [phase EXCEPT ![j] = "sealed"] /\ length' = length
        /\ verdict' = [verdict EXCEPT ![j] = result]
    BY <1>8 DEF phase, length, verdict, Phase, Ended, TypeOK, TERMINAL_STATUSES
  <2>3. Contract!Seal(result)
    BY <1>8, <2>1, <2>2 DEF Contract!Seal, current, phase, length, verdict
  <2> QED BY <1>8, <2>3 DEF Contract!Next, Contract!Nobody, None
<1>9. ASSUME NEW now \in Now, InterruptExpired(now)
      PROVE  Contract!Next
  <2>1. slot.job \in Jobs /\ Running(slot.job)
    BY <1>9 DEF InterruptExpired, CurrentRuns, TypeOK, SlotRow
  <2> QED BY <1>9, <2>1, <1>8 DEF InterruptExpired, TERMINAL_STATUSES, TypeOK
<1>10. ASSUME NEW c \in claims, NEW now \in Now, NEW s \in TERMINAL_STATUSES,
              Finalize(c, s, now)
       PROVE  Contract!Next
  <2>1. c.job \in Jobs /\ Running(c.job) /\ c.token = lastToken
    BY <1>10, FencedHolds DEF Finalize, RunnerToken
  <2> QED BY <1>10, <2>1, <1>8 DEF Finalize, TypeOK
<1>11. ASSUME NEW c \in claims, NEW now \in Now, Heartbeat(c, now)
       PROVE  UNCHANGED <<current, lastToken, phase, length, verdict>>
  <2>1. /\ c.job \in Jobs
        /\ slot.job = c.job /\ slot.lease # None
        /\ slot' = [slot EXCEPT !.lease = now + LeaseLen]
        /\ now + LeaseLen # None
    BY <1>11, FencedHolds, NowIsTime DEF Heartbeat, SlotGuardsRun, Time, None
  <2>2. current' = current
    BY <2>1 DEF current, TypeOK, SlotRow
  <2> QED BY <1>11, <2>1, <2>2 DEF Heartbeat, phase, length, verdict, TypeOK, Row
<1>12. ASSUME NEW c \in claims, NEW n \in 1..MaxBatch, AppendEvents(c, n)
       PROVE  Contract!Next
  <2>1. c.job \in Jobs /\ current = c.job /\ c.job # NoJob /\ job[c.job] \in Row
    BY <1>12, FencedHolds, CurrentIsRunning DEF AppendEvents
  <2>2. /\ job' = [job EXCEPT ![c.job] = [job[c.job] EXCEPT !.seq = job[c.job].seq + n]]
        /\ slot' = slot /\ lastToken' = lastToken /\ n > 0
    BY <1>12 DEF AppendEvents, TypeOK
  <2>3. /\ length' = [length EXCEPT ![c.job] = job[c.job].seq + n]
        /\ length[c.job] = job[c.job].seq
        /\ phase' = phase /\ verdict' = verdict
    BY <2>1, <2>2 DEF length, phase, verdict, TypeOK, Row
  <2>4. length'[c.job] > length[c.job] /\ length' = [length EXCEPT ![c.job] = length'[c.job]]
    <3>1. job[c.job].seq \in Nat /\ n \in Nat /\ n > 0
      BY <2>1 DEF Row
    <3>2. DOMAIN length = Jobs
      BY DEF length
    <3>3. length'[c.job] = job[c.job].seq + n
      BY <2>1, <2>3, <3>2
    <3>4. length'[c.job] > length[c.job]
      BY <2>3, <3>1, <3>3
    <3>5. length' = [length EXCEPT ![c.job] = length'[c.job]]
      BY <2>3, <3>3, Zenon
    <3> QED BY <3>4, <3>5
  <2>5. current' = current
    BY <2>2 DEF current
  <2>6. Contract!Record
    BY <2>1, <2>2, <2>3, <2>4, <2>5 DEF Contract!Record, current, phase, length, verdict
  <2> QED BY <2>6 DEF Contract!Next
<1> QED BY <1>1, <1>2, <1>4, <1>5, <1>6, <1>7, <1>9, <1>10, <1>11, <1>12 DEF Next

(* The tables, under any interleaving of delayed callers, implement the     *)
(* contract of JobContract: every step is one of its steps or a stutter.    *)
THEOREM StoreImplementsContract == Spec => ImplementsContract
<1>1. Init => Contract!Init
  BY DEF Init, Contract!Init, Contract!Nobody, FreeSlot, NoRow, Phase, None
<1>2. IInv /\ IInv' /\ [Next]_vars => [Contract!Next]_(Contract!contractVars)
  BY StepContract
<1> QED BY <1>1, <1>2, StoreInvariant, PTL DEF Spec, ImplementsContract, Contract!Spec
=============================================================================
