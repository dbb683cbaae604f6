-------------------------- MODULE ChangeLedgerProofs --------------------------
(***************************************************************************)
(* What the change ledgers of the Alerts Manager and of the Backup Manager  *)
(* guarantee, for any plan of changes and any number of administrators,     *)
(* subjects and pollers.                                                    *)
(*                                                                         *)
(* Nothing locks a row, so a request works on what it has read.  Both       *)
(* invariants are about what such a reading is worth later: a resource that *)
(* was created stays recorded (made), an approval that was given stays      *)
(* given (approvers), so what was read of them still holds at the commit.   *)
(***************************************************************************)
EXTENDS AlertChanges, BackupChanges, FiniteSetTheorems, WellFoundedInduction, TLAPS

(* A request of the Alerts Manager: what it takes for applied was created,  *)
(* and the prerequisites of what it may still create come before it, have   *)
(* failed or were created.                                                  *)
RequestOK(r, created) ==
    /\ \A c \in Plan : r.wrote[c] = "applied" \/ c \in r.applied => c \in created
    /\ \A c \in r.approved : Needs(c) \subseteq r.todo \union r.failed \union created

AlertInv ==
    /\ AlertTypeOK /\ exists \subseteq made /\ PrerequisitesFirst
    /\ \A c \in Plan : status[c] = "applied" => c \in made
    /\ \A a \in Admins : RequestOK(request[a], made)
-----------------------------------------------------------------------------
(* The plan. *)

LEMMA NeedsOf ==
  ASSUME NEW c \in Changes
  PROVE  /\ Needs(c) \subseteq Plan /\ Rank[c] \in Nat
         /\ \A p \in Needs(c) : p \in Changes /\ Rank[p] \in Nat /\ Rank[p] < Rank[c]
  BY AlertAssumption DEF Needs, Changes

LEMMA ClosureOf ==
  ASSUME NEW S \in Selections
  PROVE  S \subseteq Closure[S] /\ Closure[S] \subseteq Changes /\ Complete(Closure[S])
<1>1. S \subseteq Changes
  BY AlertAssumption
<1>2. S \subseteq Closure[S] /\ Closure[S] \subseteq Changes
  BY <1>1 DEF Closure
<1>3. ASSUME NEW c \in Closure[S], NEW p \in Needs(c)
      PROVE  p \in Closure[S]
  <2>1. c \in Changes /\ p \in Changes
    BY <1>2, NeedsOf
  <2>2. ASSUME NEW T \in SUBSET Changes, S \subseteq T, Complete(T)
        PROVE  p \in T
    BY <2>2 DEF Closure, Complete
  <2> QED BY <2>1, <2>2 DEF Closure
<1> QED BY <1>2, <1>3 DEF Complete

LEMMA FirstOf ==
  ASSUME NEW todo \in SUBSET Changes, todo # {}
  PROVE  First(todo) \in todo /\ \A d \in todo : Rank[First(todo)] <= Rank[d]
<1> DEFINE less == {p \in Nat \X Nat : p[1] < p[2]}
           ranks == {Rank[c] : c \in todo}
<1>1. IsWellFoundedOn(less, Nat)
  BY NatLessThanWellFounded DEF OpToRel
<1>2. \A x, y \in Nat : y < x => <<y, x>> \in less
  OBVIOUS
<1>3. \A c \in todo : Rank[c] \in Nat
  BY NeedsOf
<1>4. ranks \subseteq Nat /\ ranks # {}
  BY <1>3
<1> HIDE DEF less
<1>5. \E n \in ranks : \A k \in ranks : ~(<<k, n>> \in less)
  <2> HIDE DEF ranks
  <2> QED BY <1>1, <1>4, WFMin
<1>6. PICK c \in todo : \A d \in todo : ~(<<Rank[d], Rank[c]>> \in less)
  BY <1>5
<1>7. \A d \in todo : ~(Rank[d] < Rank[c])
  BY <1>2, <1>3, <1>6
<1>8. \A d \in todo : Rank[c] <= Rank[d]
  BY <1>3, <1>7
<1> QED BY <1>8 DEF First
-----------------------------------------------------------------------------
(* The requests of the Alerts Manager. *)

LEMMA IdleRequest ==
  /\ Idle \in RequestRec /\ Request \in RequestRec /\ Request.open
  /\ Request.again = FALSE /\ Idle.todo = {} /\ Idle.approved = {} /\ Idle.applied = {} /\ \A c \in Changes : Idle.wrote[c] = Same
  /\ Request.todo = {} /\ Request.approved = {} /\ Request.applied = {} /\ Request.wrote = Idle.wrote
  /\ Idle.wrote \in [Changes -> Status \union {Same}]
  BY DEF Idle, Request, RequestRec

LEMMA RequestMoves ==
  ASSUME AlertInv, NEW a \in Admins, NEW r \in RequestRec, request' = [request EXCEPT ![a] = r],
         status' = status, exists' \subseteq made', made \subseteq made', made' \subseteq Plan,
         r.approved \subseteq r.todo, r.applied \subseteq r.todo, ~r.open => r = Idle,
         RequestOK(r, made'), PrerequisitesFirst'
  PROVE  AlertInv'
<1>1. /\ request \in [Admins -> RequestRec] /\ status \in [Changes -> Status]
      /\ \A b \in Admins : RequestOK(request[b], made')
  BY DEF AlertInv, AlertTypeOK, RequestOK
<1>2. request'[a] = r /\ \A b \in Admins \ {a} : request'[b] = request[b]
  BY <1>1
<1>3. AlertTypeOK'
  BY <1>1, <1>2 DEF AlertInv, AlertTypeOK
<1>4. \A b \in Admins : RequestOK(request'[b], made')
  BY <1>1, <1>2
<1> QED BY <1>3, <1>4 DEF AlertInv

LEMMA DecideOK ==
  ASSUME AlertInv, NEW a \in Admins, NEW d \in {"approved", "rejected"},
         \/ \E c \in Changes : Decide(a, c, d)
         \/ \E S \in Selections, whole \in BOOLEAN : BulkDecide(a, S, d, whole)
  PROVE  AlertInv'
<1>1. PICK wrote \in [Changes -> {d, Same}] :
         /\ request' = [request EXCEPT ![a] = [Request EXCEPT !.wrote = wrote]]
         /\ UNCHANGED <<status, exists, made>>
  <2>1. CASE \E c \in Changes : Decide(a, c, d)
    <3>1. PICK c \in Changes : Decide(a, c, d)
      BY <2>1
    <3> DEFINE wrote == [Idle.wrote EXCEPT ![c] = d]
    <3>2. wrote \in [Changes -> {d, Same}]
      BY DEF Idle
    <3>3. [Request EXCEPT !.wrote[c] = d] = [Request EXCEPT !.wrote = wrote]
      BY DEF Request, Idle
    <3> QED BY <3>1, <3>2, <3>3 DEF Decide, Send
  <2>2. CASE \E S \in Selections, whole \in BOOLEAN : BulkDecide(a, S, d, whole)
    <3>1. PICK S \in Selections, whole \in BOOLEAN : BulkDecide(a, S, d, whole)
      BY <2>2
    <3> DEFINE mutable == IF ~whole THEN S
                          ELSE IF d = "approved" THEN Closure[S] ELSE S \union (Closure[S] \ Shared(S))
               wrote == [c \in Changes |-> IF c \in mutable /\ CanDecide(c, d) THEN d ELSE Same]
    <3>2. wrote \in [Changes -> {d, Same}]
      OBVIOUS
    <3>3. /\ request' = [request EXCEPT ![a] = [Request EXCEPT !.wrote = wrote]]
          /\ UNCHANGED <<status, exists, made>>
      BY <3>1 DEF BulkDecide, Send
    <3> QED BY <3>2, <3>3
  <2> QED BY <2>1, <2>2
<1> DEFINE r == [Request EXCEPT !.wrote = wrote]
<1>2. /\ r \in RequestRec /\ r.open /\ r.todo = {} /\ r.approved = {} /\ r.applied = {} /\ r.wrote = wrote
  BY IdleRequest DEF RequestRec, Status
<1>3. \A c \in Plan : wrote[c] # "applied"
  BY DEF Changes, Same
<1> HIDE DEF r
<1>4. RequestOK(r, made)
  BY <1>2, <1>3 DEF RequestOK
<1>5. PrerequisitesFirst' /\ exists' \subseteq made' /\ made' \subseteq Plan
  BY <1>1 DEF AlertInv, AlertTypeOK, PrerequisitesFirst
<1> QED BY <1>1, <1>2, <1>4, <1>5, RequestMoves DEF r

LEMMA ApplyOK ==
  ASSUME AlertInv, NEW a \in Admins,
         \/ \E c \in Changes : Apply(a, c)
         \/ \E S \in Selections : BulkApply(a, S)
  PROVE  AlertInv'
<1>1. PICK todo \in SUBSET Changes, approved \in SUBSET Changes, applied \in SUBSET Changes, again \in BOOLEAN :
         /\ approved \subseteq todo /\ applied \subseteq todo
         /\ request' = [request EXCEPT ![a] = [Request EXCEPT !.todo = todo, !.approved = approved,
                                                              !.applied = applied, !.again = again]]
         /\ UNCHANGED <<status, exists, made>>
         /\ \A c \in applied : status[c] = "applied"
         /\ \A c \in approved : \A p \in Needs(c) : p \in todo \/ status[p] = "applied"
  <2>1. CASE \E c \in Changes : Apply(a, c)
    <3>1. PICK c \in Changes : Apply(a, c)
      BY <2>1
    <3> DEFINE again == Retryable(c)
    <3>2. [Request EXCEPT !.todo = {c}, !.approved = {c}, !.again = again]
            = [Request EXCEPT !.todo = {c}, !.approved = {c}, !.applied = {}, !.again = again]
      BY IdleRequest DEF RequestRec
    <3>3. /\ \A p \in Needs(c) : status[p] = "applied"
          /\ request' = [request EXCEPT ![a] = [Request EXCEPT !.todo = {c}, !.approved = {c}, !.applied = {},
                                                               !.again = again]]
          /\ UNCHANGED <<status, exists, made>>
      BY <3>1, <3>2 DEF Apply, Send
    <3> DEFINE one == {c}
               none == {}
    <3>4. one \in SUBSET Changes /\ none \in SUBSET Changes /\ none \subseteq one /\ again \in BOOLEAN
      BY DEF Retryable
    <3>5. /\ request' = [request EXCEPT ![a] = [Request EXCEPT !.todo = one, !.approved = one, !.applied = none,
                                                               !.again = again]]
          /\ \A d \in one : \A p \in Needs(d) : status[p] = "applied"
          /\ \A d \in none : status[d] = "applied"
          /\ UNCHANGED <<status, exists, made>>
      BY <3>3
    <3> HIDE DEF one, none, again
    <3> USE <3>4
    <3> WITNESS one \in SUBSET Changes, one \in SUBSET Changes, none \in SUBSET Changes, again \in BOOLEAN
    <3> QED BY ONLY <3>4, <3>5
  <2>2. CASE \E S \in Selections : BulkApply(a, S)
    <3>1. PICK S \in Selections : BulkApply(a, S)
      BY <2>2
    <3> DEFINE rows == Closure[S]
               approved == {c \in rows : status[c] = "approved"}
               applied == {c \in rows : status[c] = "applied"}
    <3> DEFINE again == FALSE
    <3>1b. [Request EXCEPT !.todo = rows, !.approved = approved, !.applied = applied]
             = [Request EXCEPT !.todo = rows, !.approved = approved, !.applied = applied, !.again = again]
      BY IdleRequest DEF RequestRec
    <3>2. /\ request' = [request EXCEPT ![a] = [Request EXCEPT !.todo = rows, !.approved = approved,
                                                               !.applied = applied, !.again = again]]
          /\ UNCHANGED <<status, exists, made>> /\ again \in BOOLEAN
      BY <3>1, <3>1b DEF BulkApply, Send
    <3>3. rows \subseteq Changes /\ Complete(rows)
      BY ClosureOf
    <3>4. \A c \in approved : Needs(c) \subseteq rows
      BY <3>3 DEF Complete
    <3>5. approved \subseteq rows /\ applied \subseteq rows /\ \A c \in applied : status[c] = "applied"
      OBVIOUS
    <3> HIDE DEF rows, approved, applied, again
    <3>6. rows \in SUBSET Changes /\ approved \in SUBSET Changes /\ applied \in SUBSET Changes /\ again \in BOOLEAN
      BY <3>2, <3>3, <3>5
    <3> USE <3>6
    <3> WITNESS rows \in SUBSET Changes, approved \in SUBSET Changes, applied \in SUBSET Changes, again \in BOOLEAN
    <3> QED BY <3>2, <3>4, <3>5
  <2> QED BY <2>1, <2>2
<1> DEFINE r == [Request EXCEPT !.todo = todo, !.approved = approved, !.applied = applied, !.again = again]
<1>2. /\ r \in RequestRec /\ r.open /\ r.todo = todo /\ r.approved = approved /\ r.applied = applied
      /\ r.wrote = Idle.wrote
  BY IdleRequest DEF RequestRec
<1> HIDE DEF r
<1>3. \A c \in Plan : status[c] = "applied" => c \in made
  BY DEF AlertInv
<1>4. \A c \in approved : \A p \in Needs(c) : p \in todo \/ p \in made
  BY <1>1, <1>3, NeedsOf
<1>5. \A c \in Plan : r.wrote[c] # "applied"
  BY <1>2, IdleRequest DEF Changes, Same
<1>6. RequestOK(r, made)
  BY <1>1, <1>2, <1>3, <1>4, <1>5 DEF RequestOK
<1>7. PrerequisitesFirst' /\ exists' \subseteq made' /\ made' \subseteq Plan
  BY <1>1 DEF AlertInv, AlertTypeOK, PrerequisitesFirst
<1> QED BY <1>1, <1>2, <1>6, <1>7, RequestMoves DEF r

(* On its way to the next row: the row was created, or it counts as failed, *)
(* or it was created before.                                                *)
LEMMA PassedOn ==
  ASSUME NEW r \in RequestRec, r.todo # {}, NEW failed \in BOOLEAN, NEW created,
         r.approved \subseteq r.todo, r.applied \subseteq r.todo, RequestOK(r, created),
         First(r.todo) \in Plan => failed \/ First(r.todo) \in created
  PROVE  LET p == Passed(r, First(r.todo), failed)
         IN  /\ p \in RequestRec /\ p.open = r.open /\ p.wrote = r.wrote
             /\ p.approved \subseteq p.todo /\ p.applied \subseteq p.todo /\ RequestOK(p, created)
<1> DEFINE c == First(r.todo)
           fails == IF r.todo = {c} THEN {} ELSE IF failed THEN r.failed \union {c} ELSE r.failed
           p == [r EXCEPT !.todo = r.todo \ {c}, !.approved = r.approved \ {c},
                          !.applied = r.applied \ {c}, !.failed = fails]
<1>1. r.todo \in SUBSET Changes /\ r.failed \in SUBSET Changes
  BY DEF RequestRec
<1>2. c \in r.todo
  BY <1>1, FirstOf
<1>3. Passed(r, c, failed) = p
  BY DEF Passed
<1> HIDE DEF c
<1>4. fails \in SUBSET Changes /\ (r.todo # {c} => r.failed \subseteq fails /\ (failed => c \in fails))
  BY <1>1, <1>2
<1> HIDE DEF fails
<1>5. /\ p \in RequestRec /\ p.open = r.open /\ p.wrote = r.wrote
      /\ p.todo = r.todo \ {c} /\ p.approved = r.approved \ {c} /\ p.applied = r.applied \ {c}
      /\ p.failed = fails
  BY <1>1, <1>4 DEF RequestRec
<1> HIDE DEF p
<1>6. \A q \in Plan : p.wrote[q] = "applied" \/ q \in p.applied => q \in created
  BY <1>5 DEF RequestOK
<1>7. ASSUME NEW d \in p.approved, NEW q \in Needs(d)
      PROVE  q \in p.todo \union p.failed \union created
  <2>1. d \in r.approved /\ d # c /\ d \in r.todo
    BY <1>5
  <2>2. q \in r.todo \union r.failed \union created
    BY <2>1 DEF RequestOK
  <2>3. d \in Changes /\ q \in Plan
    BY <1>1, <2>1, NeedsOf
  <2>4. r.todo # {c}
    BY <2>1
  <2>5. q = c => failed \/ c \in created
    BY <2>3 DEF c
  <2> QED BY <1>4, <1>5, <2>2, <2>4, <2>5
<1>8. RequestOK(p, created)
  BY <1>6, <1>7 DEF RequestOK
<1> QED BY <1>3, <1>5, <1>8 DEF c

LEMMA SkipOK ==
  ASSUME AlertInv, NEW a \in Admins, Skip(a)
  PROVE  AlertInv'
<1> DEFINE r == request[a]
           c == First(r.todo)
           p == Passed(r, c, Fails(r, c))
<1>1. /\ r \in RequestRec /\ r.todo # {} /\ ~Executed(r, c) /\ RequestOK(r, made)
      /\ r.approved \subseteq r.todo /\ r.applied \subseteq r.todo /\ (~r.open => r = Idle)
      /\ request' = [request EXCEPT ![a] = p] /\ UNCHANGED <<status, exists, made>>
  BY DEF AlertInv, AlertTypeOK, Skip
<1>2. c \in Plan => Fails(r, c) \/ c \in made
  BY <1>1 DEF Fails, RequestOK
<1>3. Fails(r, c) \in BOOLEAN
  BY DEF Fails
<1>4. /\ p \in RequestRec /\ p.open = r.open
      /\ p.approved \subseteq p.todo /\ p.applied \subseteq p.todo /\ RequestOK(p, made)
  BY <1>1, <1>2, <1>3, PassedOn
<1>5. r.open /\ PrerequisitesFirst' /\ exists' \subseteq made' /\ made' \subseteq Plan
  BY <1>1, IdleRequest DEF AlertInv, AlertTypeOK, PrerequisitesFirst
<1> HIDE DEF p, r, c
<1> QED BY <1>1, <1>4, <1>5, RequestMoves

(* What is created had its prerequisites created: they come before it in    *)
(* the order, and none of them has failed.                                  *)
LEMMA ExecuteOK ==
  ASSUME AlertInv, NEW a \in Admins, Execute(a)
  PROVE  AlertInv'
<1> DEFINE r == request[a]
           c == First(r.todo)
<1>1. /\ r \in RequestRec /\ r.todo # {} /\ Executed(r, c) /\ RequestOK(r, made)
      /\ r.approved \subseteq r.todo /\ r.applied \subseteq r.todo /\ (~r.open => r = Idle)
      /\ r.todo \in SUBSET Changes /\ made \subseteq Plan /\ exists \subseteq made
  BY DEF AlertInv, AlertTypeOK, Execute, RequestRec
<1>2. PICK o \in {Refused} \union (IF c \in Plan THEN Create(c) ELSE Remove(c)) :
         /\ exists' = o.left /\ made' = made \union o.left
         /\ request' = [request EXCEPT ![a] =
                           [Passed(r, c, o.to # "applied") EXCEPT !.wrote[c] = ResultOf(r, o.to)]]
         /\ status' = status
  BY DEF Execute
<1>3. /\ c \in r.todo /\ c \in r.approved /\ c \in Changes /\ Needs(c) \intersect r.failed = {}
      /\ \A d \in r.todo : Rank[c] <= Rank[d]
  BY <1>1, FirstOf DEF Executed, Blocked
<1> HIDE DEF r, c
<1>4. Needs(c) \subseteq made
  <2>1. \A p \in Needs(c) : p \notin r.todo
    BY <1>3, NeedsOf
  <2> QED BY <1>1, <1>3, <2>1 DEF RequestOK
<1>5. /\ o.to \in {"applied", "stale", "failed", Same} /\ o.left \subseteq exists \union {c}
      /\ c \notin Plan => o.left \subseteq exists
      /\ c \in Plan /\ o.to = "applied" => c \in o.left
  BY <1>2 DEF Create, Remove, Refused, Same
<1>6. /\ exists' \subseteq made' /\ made \subseteq made' /\ made' \subseteq Plan
      /\ made' \subseteq made \union {c}
  BY <1>1, <1>2, <1>5
<1>7. PrerequisitesFirst'
  <2> SUFFICES ASSUME NEW d \in made' PROVE Needs(d) \subseteq made'
    BY DEF PrerequisitesFirst
  <2>1. CASE d = c
    BY <1>4, <1>6, <2>1
  <2>2. CASE d \in made
    BY <1>6, <2>2 DEF AlertInv, PrerequisitesFirst
  <2> QED BY <1>6, <2>1, <2>2
<1> DEFINE p == Passed(r, c, o.to # "applied")
           to == ResultOf(r, o.to)
           q == [p EXCEPT !.wrote[c] = to]
<1>8. RequestOK(r, made')
  BY <1>1, <1>6 DEF RequestOK
<1>9. c \in Plan => o.to # "applied" \/ c \in made'
  BY <1>2, <1>5
<1>10. /\ p \in RequestRec /\ p.open = r.open
       /\ p.approved \subseteq p.todo /\ p.applied \subseteq p.todo /\ RequestOK(p, made')
  BY <1>1, <1>8, <1>9, PassedOn DEF c
<1>11. r.open
  BY <1>1, IdleRequest
<1> HIDE DEF p
<1>12. /\ q \in RequestRec /\ q.open /\ q.todo = p.todo /\ q.approved = p.approved
       /\ q.applied = p.applied /\ q.failed = p.failed
       /\ \A d \in Changes : q.wrote[d] = IF d = c THEN to ELSE p.wrote[d]
  <2>1. to \in Status \union {Same}
    BY <1>5 DEF Status, ResultOf
  <2>2. p.wrote \in [Changes -> Status \union {Same}]
    BY <1>10 DEF RequestRec
  <2>3. [p.wrote EXCEPT ![c] = to] \in [Changes -> Status \union {Same}]
    BY <2>1, <2>2
  <2> QED BY <1>3, <1>10, <1>11, <2>2, <2>3 DEF RequestRec
<1>13. request' = [request EXCEPT ![a] = q]
  BY <1>2 DEF p
<1>14. to = "applied" => o.to = "applied"
  BY DEF ResultOf, Same
<1> HIDE DEF q, to
<1>15. RequestOK(q, made')
  BY <1>9, <1>10, <1>12, <1>14 DEF RequestOK, Changes
<1> QED BY <1>2, <1>6, <1>7, <1>10, <1>12, <1>13, <1>15, RequestMoves

LEMMA CommitOK ==
  ASSUME AlertInv, NEW a \in Admins, Commit(a)
  PROVE  AlertInv'
<1>1. /\ request \in [Admins -> RequestRec] /\ request' = [request EXCEPT ![a] = Idle]
      /\ UNCHANGED <<exists, made>> /\ status \in [Changes -> Status]
      /\ status' = [c \in Changes |-> IF request[a].wrote[c] = Same THEN status[c] ELSE request[a].wrote[c]]
      /\ request[a].wrote \in [Changes -> Status \union {Same}]
  BY DEF AlertInv, AlertTypeOK, Commit, RequestRec
<1>2. status' \in [Changes -> Status]
  BY <1>1
<1>3. request'[a] = Idle /\ (\A b \in Admins \ {a} : request'[b] = request[b]) /\ request' \in [Admins -> RequestRec]
  BY <1>1, IdleRequest
<1>4. AlertTypeOK'
  BY <1>1, <1>2, <1>3, IdleRequest DEF AlertInv, AlertTypeOK
<1>5. \A c \in Plan : status'[c] = "applied" => c \in made
  BY <1>1 DEF AlertInv, RequestOK, Changes
<1>6. RequestOK(Idle, made)
  BY IdleRequest DEF RequestOK, Changes, Same
<1>7. \A b \in Admins : RequestOK(request'[b], made)
  BY <1>3, <1>6 DEF AlertInv
<1> QED BY <1>1, <1>4, <1>5, <1>7 DEF AlertInv, PrerequisitesFirst

LEMMA LoseOK ==
  ASSUME AlertInv, NEW a \in Admins, Lose(a)
  PROVE  AlertInv'
<1>1. RequestOK(Idle, made)
  BY IdleRequest DEF RequestOK, Changes, Same
<1>2. request' = [request EXCEPT ![a] = Idle] /\ UNCHANGED <<status, exists, made>>
  BY DEF Lose
<1>3. PrerequisitesFirst' /\ exists' \subseteq made' /\ made' \subseteq Plan
  BY <1>2 DEF AlertInv, AlertTypeOK, PrerequisitesFirst
<1> QED BY <1>1, <1>2, <1>3, IdleRequest, RequestMoves

LEMMA RollbackOK ==
  ASSUME AlertInv, NEW u \in Undo, Rollback(u)
  PROVE  AlertInv'
<1>1. /\ status' = [status EXCEPT ![u] = "pending"] /\ UNCHANGED <<request, exists, made>>
      /\ status \in [Changes -> Status]
  BY DEF AlertInv, AlertTypeOK, Rollback
<1>2. status' \in [Changes -> Status] /\ \A c \in Changes : status'[c] = IF c = u THEN "pending" ELSE status[c]
  BY <1>1 DEF Changes, Status
<1>3. AlertTypeOK'
  BY <1>1, <1>2 DEF AlertInv, AlertTypeOK
<1> QED BY <1>1, <1>2, <1>3 DEF AlertInv, PrerequisitesFirst, Changes

LEMMA InitAlertInv == AlertInit => AlertInv
<1> SUFFICES ASSUME AlertInit PROVE AlertInv
  OBVIOUS
<1>1. /\ status = [c \in Changes |-> IF c \in Plan THEN "pending" ELSE "absent"]
      /\ request = [a \in Admins |-> Idle] /\ exists = {} /\ made = {}
  BY DEF AlertInit
<1>2. AlertTypeOK
  BY <1>1, IdleRequest DEF AlertTypeOK, Status
<1>3. \A a \in Admins : RequestOK(request[a], made)
  BY <1>1, IdleRequest DEF RequestOK, Changes, Same
<1> QED BY <1>1, <1>2, <1>3 DEF AlertInv, PrerequisitesFirst, Changes

LEMMA StepAlertInv == AlertInv /\ [AlertNext]_avars => AlertInv'
<1> SUFFICES ASSUME AlertInv, [AlertNext]_avars PROVE AlertInv'
  OBVIOUS
<1>1. CASE AlertNext
  <2>1. CASE \E a \in Admins, d \in {"approved", "rejected"} :
                \/ \E c \in Changes : Decide(a, c, d)
                \/ \E S \in Selections, whole \in BOOLEAN : BulkDecide(a, S, d, whole)
    BY <2>1, DecideOK
  <2>2. CASE \E a \in Admins : \/ \E c \in Changes : Apply(a, c)
                               \/ \E S \in Selections : BulkApply(a, S)
    BY <2>2, ApplyOK
  <2>3. CASE \E a \in Admins : Skip(a) \/ Execute(a) \/ Commit(a) \/ Lose(a)
    BY <2>3, SkipOK, ExecuteOK, CommitOK, LoseOK
  <2>4. CASE \E u \in Undo : Rollback(u)
    BY <2>4, RollbackOK
  <2> QED BY <1>1, <2>1, <2>2, <2>3, <2>4 DEF AlertNext
<1>2. CASE UNCHANGED avars
  BY <1>2 DEF avars, AlertInv, AlertTypeOK, PrerequisitesFirst
<1> QED BY <1>1, <1>2

(* The ledger and its requests have their types; a request that is not      *)
(* under way holds nothing.                                                 *)
THEOREM AlertTypes == AlertSpec => []AlertTypeOK
<1>1. AlertInv => AlertTypeOK
  BY DEF AlertInv
<1> QED BY <1>1, InitAlertInv, StepAlertInv, PTL DEF AlertSpec

(* However the requests of the administrators overlap, fail and die, no     *)
(* resource is created before those it requires: for any plan, since the    *)
(* order of a bulk apply puts prerequisites first, and the branches it has  *)
(* seen fail are closed.                                                    *)
THEOREM PrerequisitesComeFirst == AlertSpec => []PrerequisitesFirst
<1>1. AlertInv => PrerequisitesFirst
  BY DEF AlertInv
<1> QED BY <1>1, InitAlertInv, StepAlertInv, PTL DEF AlertSpec
-----------------------------------------------------------------------------
(* A request that works on what it has read, when nobody else commits: its  *)
(* rows to create are as it read them.                                      *)
OneAtATime == \A a, b \in Admins : a = b
Fresh == \A a \in Admins : \A c \in request[a].approved : status[c] \in {"approved", "failed"}

LEMMA FreshRequest ==
  ASSUME AlertInv, Fresh, NEW a \in Admins, NEW r, request' = [request EXCEPT ![a] = r], status' = status,
         \A c \in r.approved : status[c] \in {"approved", "failed"}
  PROVE  Fresh'
<1>1. \A b \in Admins : request'[b] = IF b = a THEN r ELSE request[b]
  BY DEF AlertInv, AlertTypeOK
<1> QED BY <1>1 DEF Fresh

LEMMA StepFresh ==
  ASSUME OneAtATime, AlertInv, Fresh, [AlertNext]_avars
  PROVE  Fresh'
<1>1. ASSUME NEW a \in Admins, NEW d, \/ \E c \in Changes : Decide(a, c, d)
                                     \/ \E S \in Selections, whole \in BOOLEAN : BulkDecide(a, S, d, whole)
      PROVE  Fresh'
  <2>1. PICK wrote : request' = [request EXCEPT ![a] = [Request EXCEPT !.wrote = wrote]]
    <3>1. CASE \E c \in Changes : Decide(a, c, d)
      <4>1. PICK c \in Changes : request' = [request EXCEPT ![a] = [Request EXCEPT !.wrote[c] = d]]
        BY <3>1 DEF Decide, Send
      <4>2. [Request EXCEPT !.wrote[c] = d] = [Request EXCEPT !.wrote = [Request.wrote EXCEPT ![c] = d]]
        BY IdleRequest DEF RequestRec
      <4> QED BY <4>1, <4>2
    <3>2. CASE \E S \in Selections, whole \in BOOLEAN : BulkDecide(a, S, d, whole)
      BY <3>2 DEF BulkDecide, Send
    <3> QED BY <1>1, <3>1, <3>2
  <2>2. [Request EXCEPT !.wrote = wrote].approved = {}
    BY IdleRequest DEF RequestRec
  <2>3. status' = status
    BY <1>1 DEF Decide, BulkDecide
  <2> QED BY <2>1, <2>2, <2>3, FreshRequest
<1>2. ASSUME NEW a \in Admins, \/ \E c \in Changes : Apply(a, c)
                               \/ \E S \in Selections : BulkApply(a, S)
      PROVE  Fresh'
  <2>1. CASE \E c \in Changes : Apply(a, c)
    <3>1. PICK c \in Changes : Apply(a, c)
      BY <2>1
    <3> DEFINE r == [Request EXCEPT !.todo = {c}, !.approved = {c}, !.again = Retryable(c)]
    <3>2. request' = [request EXCEPT ![a] = r] /\ status' = status /\ status[c] \in {"approved", "failed"}
      BY <3>1 DEF Apply, Send, Retryable
    <3>3. r.approved = {c}
      BY IdleRequest DEF RequestRec
    <3> HIDE DEF r
    <3> QED BY <3>2, <3>3, FreshRequest
  <2>2. CASE \E S \in Selections : BulkApply(a, S)
    <3>1. PICK S \in Selections : BulkApply(a, S)
      BY <2>2
    <3> DEFINE rows == Closure[S]
               r == [Request EXCEPT !.todo = rows, !.approved = {c \in rows : status[c] = "approved"},
                                    !.applied = {c \in rows : status[c] = "applied"}]
    <3>2. request' = [request EXCEPT ![a] = r] /\ status' = status
      BY <3>1 DEF BulkApply, Send
    <3> HIDE DEF rows
    <3>3. r.approved = {c \in rows : status[c] = "approved"}
      BY IdleRequest DEF RequestRec
    <3> HIDE DEF r
    <3> QED BY <3>2, <3>3, FreshRequest
  <2> QED BY <1>2, <2>1, <2>2
<1>3. ASSUME NEW a \in Admins, Skip(a) \/ Execute(a)
      PROVE  Fresh'
  <2>1. request[a] \in RequestRec /\ \A c \in request[a].approved : status[c] \in {"approved", "failed"}
    BY DEF AlertInv, AlertTypeOK, Fresh
  <2>2. PICK c, failed, wrote :
           \/ request' = [request EXCEPT ![a] = Passed(request[a], c, failed)]
           \/ request' = [request EXCEPT ![a] = [Passed(request[a], c, failed) EXCEPT !.wrote[c] = wrote]]
    <3>1. CASE Skip(a)
      BY <3>1 DEF Skip
    <3>2. CASE Execute(a)
      <4>1. PICK o : request' = [request EXCEPT ![a] =
                       [Passed(request[a], First(request[a].todo), o.to # "applied")
                           EXCEPT !.wrote[First(request[a].todo)] = ResultOf(request[a], o.to)]]
        BY <3>2 DEF Execute
      <4> QED BY <4>1
    <3> QED BY <1>3, <3>1, <3>2
  <2>3. /\ Passed(request[a], c, failed).approved = request[a].approved \ {c}
        /\ [Passed(request[a], c, failed) EXCEPT !.wrote[c] = wrote].approved = request[a].approved \ {c}
    BY <2>1 DEF Passed, RequestRec
  <2>4. status' = status
    BY <1>3 DEF Skip, Execute
  <2> QED BY <2>1, <2>2, <2>3, <2>4, FreshRequest
<1>4. ASSUME NEW a \in Admins, Commit(a) \/ Lose(a)
      PROVE  Fresh'
  <2>1. request' = [request EXCEPT ![a] = Idle] /\ request \in [Admins -> RequestRec]
    BY <1>4 DEF Commit, Lose, AlertInv, AlertTypeOK
  <2>2. \A b \in Admins : request'[b] = Idle
    BY <2>1 DEF OneAtATime
  <2> QED BY <2>2, IdleRequest DEF Fresh
<1>5. ASSUME NEW u \in Undo, Rollback(u)
      PROVE  Fresh'
  <2>1. /\ status \in [Changes -> Status] /\ status[u] = "absent"
        /\ status' = [status EXCEPT ![u] = "pending"] /\ request' = request
    BY <1>5 DEF Rollback, AlertInv, AlertTypeOK
  <2>2. \A c \in Changes : c # u => status'[c] = status[c]
    BY <2>1
  <2>3. \A a \in Admins : request[a].approved \subseteq Changes
    BY DEF AlertInv, AlertTypeOK, RequestRec
  <2> QED BY <2>1, <2>2, <2>3 DEF Fresh
<1>6. CASE UNCHANGED avars
  BY <1>6 DEF avars, Fresh
<1>7. CASE AlertNext
  <2>1. CASE \E a \in Admins, d \in {"approved", "rejected"} :
                \/ \E c \in Changes : Decide(a, c, d)
                \/ \E S \in Selections, whole \in BOOLEAN : BulkDecide(a, S, d, whole)
    BY <1>1, <2>1
  <2>2. CASE \E a \in Admins : \/ \E c \in Changes : Apply(a, c)
                               \/ \E S \in Selections : BulkApply(a, S)
    BY <1>2, <2>2
  <2>3. CASE \E a \in Admins : Skip(a) \/ Execute(a) \/ Commit(a) \/ Lose(a)
    BY <1>3, <1>4, <2>3
  <2>4. CASE \E u \in Undo : Rollback(u)
    BY <1>5, <2>4
  <2> QED BY <1>7, <2>1, <2>2, <2>3, <2>4 DEF AlertNext
<1> QED BY <1>6, <1>7

(* What a bulk apply or an apply creates was approved, or failed, when it   *)
(* was read; where requests do not overlap it still is, and a change that   *)
(* the ledger holds as rejected is never created.                           *)
THEOREM OverlapAlone ==
  ASSUME OneAtATime
  PROVE  AlertSpec => CancelledNotApplied
<1>1. ASSUME AlertInv, Fresh, [AlertNext]_avars
      PROVE  [\A c \in made' \ made : status[c] # "rejected"]_avars
  <2>1. CASE \E a \in Admins : Execute(a)
    <3>1. PICK a \in Admins : Execute(a)
      BY <2>1
    <3> DEFINE r == request[a]
               c == First(r.todo)
    <3>2. c \in r.approved
      BY <3>1 DEF Execute, Executed
    <3>3. PICK o \in {Refused} \union (IF c \in Plan THEN Create(c) ELSE Remove(c)) :
             made' = made \union o.left
      BY <3>1 DEF Execute
    <3>4. o.left \subseteq exists \union {c}
      BY <3>3 DEF Refused, Create, Remove
    <3>5. made' \ made \subseteq {c}
      BY <3>3, <3>4, <1>1 DEF AlertInv
    <3>6. status[c] \in {"approved", "failed"}
      BY <3>2, <1>1 DEF Fresh
    <3> QED BY <3>5, <3>6
  <2>2. CASE made' = made
    BY <2>2
  <2>3. CASE UNCHANGED avars
    BY <2>3
  <2> QED BY <1>1, <2>1, <2>2, <2>3
          DEF AlertNext, Apply, Decide, BulkApply, BulkDecide, Skip, Commit, Lose, Rollback
<1>2. AlertInit => Fresh
  BY IdleRequest DEF AlertInit, Fresh
<1>3. AlertInv /\ Fresh /\ [AlertNext]_avars => Fresh'
  BY StepFresh
<1> QED BY <1>1, <1>2, <1>3, InitAlertInv, StepAlertInv, PTL DEF AlertSpec, CancelledNotApplied
-----------------------------------------------------------------------------
(* The ledger of the Backup Manager.  Two different subjects among those    *)
(* who approved: what a request relies on, and stays true once it is.       *)
Both(subjects) == \E x, y \in subjects : x # y

(* A request of s, when the approvals given are those of given: it writes   *)
(* approved only as the second of two, its rows to submit had both, and it  *)
(* writes decided_by only as the subject who rejects or approves.           *)
SessionOK(s, r, given) ==
    /\ \A c \in Dual : r.to[c] # "pending"
    /\ \A c \in Dual : r.to[c] = "approved" => c \in r.approves /\ \E o \in given[c] : o # s
    /\ \A c \in Dual : c \in r.todo => Both(given[c]) /\ r.by[c] = AsRead
    /\ \A c \in Dual : r.by[c] # AsRead => r.by[c] = s /\ (r.to[c] = "rejected" \/ c \in r.approves)

BackupInv ==
    /\ LedgerTypeOK
    /\ \A c \in Dual : IsFiniteSet(approvers[c])
    /\ \A c \in Dual : row[c].status = "approved" \/ c \in submitted => Both(approvers[c])
    /\ \A c \in Dual : row[c].status = "pending" /\ by[c] # Nobody => by[c] \in approvers[c]
    /\ \A s \in Subjects : SessionOK(s, session[s], approvers)

LEMMA BothAreTwo ==
  ASSUME NEW subjects, IsFiniteSet(subjects), Both(subjects)
  PROVE  Cardinality(subjects) >= 2
<1>1. PICK x \in subjects, y \in subjects : x # y
  BY DEF Both
<1>2. IsFiniteSet({}) /\ Cardinality({}) = 0
  BY FS_EmptySet
<1>3. {x} = {} \union {x} /\ {x, y} = {x} \union {y} /\ y \notin {x} /\ x \notin {}
  BY <1>1
<1>4. IsFiniteSet({x}) /\ Cardinality({x}) = 1
  BY FS_Singleton
<1>5. Cardinality({x, y}) = 2
  BY <1>3, <1>4, FS_AddElement
<1>6. {x, y} \subseteq subjects
  BY <1>1
<1>7. Cardinality({x, y}) <= Cardinality(subjects)
  BY <1>6, FS_Subset
<1>8. Cardinality(subjects) \in Nat
  BY FS_CardinalityType
<1> QED BY <1>5, <1>7, <1>8

LEMMA NoRequestOK ==
  ASSUME NEW s \in Subjects, NEW given
  PROVE  /\ NoRequest \in SessionRec /\ SessionOK(s, NoRequest, given)
         /\ NoRequest.todo = {} /\ NoRequest.approves = {}
         /\ NoRequest.to = [c \in Rows |-> AsRead] /\ NoRequest.by = [c \in Dual |-> AsRead]
<1>1. Dual \subseteq Rows
  BY BackupAssumption DEF Rows
<1>2. NoRequest \in SessionRec
  BY DEF NoRequest, SessionRec
<1>3. /\ NoRequest.todo = {} /\ NoRequest.approves = {}
      /\ NoRequest.to = [c \in Rows |-> AsRead] /\ NoRequest.by = [c \in Dual |-> AsRead]
  BY DEF NoRequest
<1>4. \A c \in Dual : NoRequest.to[c] = AsRead /\ NoRequest.by[c] = AsRead
  BY <1>1, <1>3
<1> QED BY <1>2, <1>3, <1>4 DEF SessionOK, AsRead

(* A request that opens, goes on or dies. *)
LEMMA SessionMoves ==
  ASSUME BackupInv, NEW s \in Subjects, NEW r \in SessionRec, SessionOK(s, r, approvers),
         session' = [session EXCEPT ![s] = r], UNCHANGED <<row, by, approvers>>,
         submitted' \subseteq Dual, \A c \in submitted' : c \in submitted \/ Both(approvers[c])
  PROVE  BackupInv'
<1>1. /\ session \in [Subjects -> SessionRec] /\ submitted \subseteq Dual
      /\ \A o \in Subjects : SessionOK(o, session[o], approvers)
  BY DEF BackupInv, LedgerTypeOK
<1>2. session'[s] = r /\ \A o \in Subjects \ {s} : session'[o] = session[o]
  BY <1>1
<1>3. LedgerTypeOK'
  BY <1>1 DEF BackupInv, LedgerTypeOK
<1>4. \A o \in Subjects : SessionOK(o, session'[o], approvers')
  BY <1>1, <1>2
<1>5. /\ \A c \in Dual : IsFiniteSet(approvers[c])
      /\ \A c \in Dual : row[c].status = "approved" \/ c \in submitted => Both(approvers[c])
      /\ \A c \in Dual : row[c].status = "pending" /\ by[c] # Nobody => by[c] \in approvers[c]
  BY DEF BackupInv
<1>6. /\ \A c \in Dual : IsFiniteSet(approvers'[c])
      /\ \A c \in Dual : row'[c].status = "approved" \/ c \in submitted' => Both(approvers'[c])
      /\ \A c \in Dual : row'[c].status = "pending" /\ by'[c] # Nobody => by'[c] \in approvers'[c]
  BY <1>5
<1> QED BY <1>3, <1>4, <1>6 DEF BackupInv

LEMMA DualRows == Dual \subseteq Rows /\ Dual \intersect Inverses = {}
  BY BackupAssumption DEF Rows

LEMMA DeciderOf ==
  ASSUME BackupInv, NEW s \in Subjects, NEW S
  PROVE  /\ Decider(s, S) \in [Dual -> Subjects \union {AsRead}]
         /\ \A c \in Dual : Decider(s, S)[c] # AsRead => Decider(s, S)[c] = s /\ c \in S
  BY DEF Decider, FirstDecider

LEMMA RejectOK ==
  ASSUME BackupInv, NEW s \in Subjects, NEW c \in Rows, Reject(s, c)
  PROVE  BackupInv'
<1> DEFINE r == [NoRequest EXCEPT !.kind = "decision", !.to[c] = "rejected", !.by = Decider(s, {c})]
<1>1. /\ r \in SessionRec /\ r.todo = {} /\ r.approves = {} /\ r.by = Decider(s, {c})
      /\ r.to = [NoRequest.to EXCEPT ![c] = "rejected"]
  BY NoRequestOK, DeciderOf DEF SessionRec, RowStatus
<1>2. /\ r.to[c] = "rejected" /\ \A d \in Rows \ {c} : r.to[d] = AsRead
  BY <1>1, NoRequestOK
<1>3. /\ session' = [session EXCEPT ![s] = r] /\ UNCHANGED <<row, by, approvers, submitted>>
  BY DEF Reject, Open
<1> HIDE DEF r
<1>4. SessionOK(s, r, approvers)
  BY <1>1, <1>2, DeciderOf, DualRows DEF SessionOK, AsRead
<1>5. submitted \subseteq Dual
  BY DEF BackupInv, LedgerTypeOK
<1> QED BY <1>1, <1>3, <1>4, <1>5, SessionMoves

(* The first approval leaves the row as it is; the second finds another     *)
(* subject in decided_by.                                                   *)
LEMMA ApproveOK ==
  ASSUME BackupInv, NEW s \in Subjects, NEW c \in Rows, Approve(s, c)
  PROVE  BackupInv'
<1> DEFINE to == IF Awaits(c) THEN AsRead ELSE Written("approved", row[c].status)
           r == [NoRequest EXCEPT !.kind = "decision", !.by = Decider(s, {c}), !.approves = {c} \intersect Dual,
                   !.to[c] = IF Awaits(c) THEN AsRead ELSE Written("approved", row[c].status)]
<1>1. to \in {"approved", AsRead}
  BY DEF Written
<1>2. /\ r \in SessionRec /\ r.todo = {} /\ r.approves = {c} \intersect Dual /\ r.by = Decider(s, {c})
      /\ r.to = [NoRequest.to EXCEPT ![c] = to]
  BY <1>1, NoRequestOK, DeciderOf DEF SessionRec, RowStatus
<1>3. /\ r.to[c] = to /\ \A d \in Rows \ {c} : r.to[d] = AsRead
  BY <1>2, NoRequestOK
<1>4. /\ session' = [session EXCEPT ![s] = r] /\ UNCHANGED <<row, by, approvers, submitted>>
  BY DEF Approve, Open
<1>5. ASSUME c \in Dual, to = "approved"
      PROVE  \E o \in approvers[c] : o # s
  <2>1. row[c].status = "pending" /\ by[c] # Nobody /\ by[c] # s
    BY <1>5 DEF Approve, Decidable, SecondAllowed, Awaits, Written, AsRead
  <2> QED BY <1>5, <2>1 DEF BackupInv
<1> HIDE DEF r, to
<1>6. SessionOK(s, r, approvers)
  BY <1>1, <1>2, <1>3, <1>5, DeciderOf, DualRows DEF SessionOK, AsRead
<1>7. submitted \subseteq Dual
  BY DEF BackupInv, LedgerTypeOK
<1> QED BY <1>2, <1>4, <1>6, <1>7, SessionMoves

LEMMA DecideManyOK ==
  ASSUME BackupInv, NEW s \in Subjects, NEW S \in RowSets, NEW d \in {"approved", "rejected"},
         DecideMany(s, S, d)
  PROVE  BackupInv'
<1> DEFINE decided == {c \in S : row[c].status = "pending" /\ (d = "rejected" \/ c \notin Dual)}
           r == [NoRequest EXCEPT !.kind = "decision",
                    !.to = [c \in Rows |-> IF c \in decided THEN d ELSE AsRead],
                    !.by = [c \in Dual |-> IF c \in decided THEN Written(s, by[c]) ELSE AsRead]]
<1>1. /\ r.to = [c \in Rows |-> IF c \in decided THEN d ELSE AsRead]
      /\ r.by = [c \in Dual |-> IF c \in decided THEN Written(s, by[c]) ELSE AsRead]
      /\ r.todo = {} /\ r.approves = {} /\ r.kind = "decision"
  BY NoRequestOK DEF SessionRec
<1>2. r \in SessionRec
  BY NoRequestOK DEF SessionRec, RowStatus, Written
<1>3. /\ session' = [session EXCEPT ![s] = r] /\ UNCHANGED <<row, by, approvers, submitted>>
  BY DEF DecideMany, Open
<1>4. \A c \in Dual : c \in decided => d = "rejected"
  OBVIOUS
<1> HIDE DEF r, decided
<1>5. \A c \in Dual : /\ r.to[c] \in {"rejected", AsRead}
                      /\ r.by[c] # AsRead => r.by[c] = s /\ r.to[c] = "rejected"
  BY <1>1, <1>4, DualRows DEF Written
<1>6. SessionOK(s, r, approvers)
  BY <1>1, <1>5 DEF SessionOK, AsRead
<1>7. submitted \subseteq Dual
  BY DEF BackupInv, LedgerTypeOK
<1> QED BY <1>2, <1>3, <1>6, <1>7, SessionMoves

LEMMA ApplyManyOK ==
  ASSUME BackupInv, NEW s \in Subjects, NEW S \in RowSets, ApplyMany(s, S)
  PROVE  BackupInv'
<1> DEFINE approved == {c \in S : row[c].status = "approved"}
           r == [NoRequest EXCEPT !.kind = "bulk_apply", !.todo = approved]
<1>1. approved \subseteq Rows /\ \A c \in Dual : c \in approved => Both(approvers[c])
  BY BackupAssumption DEF BackupInv
<1>2. /\ r \in SessionRec /\ r.todo = approved /\ r.approves = {}
      /\ r.to = NoRequest.to /\ r.by = NoRequest.by
  BY <1>1, NoRequestOK DEF SessionRec
<1>3. /\ session' = [session EXCEPT ![s] = r] /\ UNCHANGED <<row, by, approvers, submitted>>
  BY DEF ApplyMany, Open
<1> HIDE DEF r, approved
<1>4. \A c \in Dual : r.to[c] = AsRead /\ r.by[c] = AsRead
  BY <1>2, NoRequestOK, DualRows
<1>5. SessionOK(s, r, approvers)
  BY <1>1, <1>2, <1>4 DEF SessionOK, AsRead
<1>6. submitted \subseteq Dual
  BY DEF BackupInv, LedgerTypeOK
<1> QED BY <1>2, <1>3, <1>5, <1>6, SessionMoves

LEMMA SubmitOK ==
  ASSUME BackupInv, NEW s \in Subjects, NEW c \in Rows, Submit(s, c)
  PROVE  BackupInv'
<1>1. PICK to \in {"applying", "applied", "failed"} :
         session' = [session EXCEPT ![s].todo = @ \ {c}, ![s].to[c] = to]
  BY DEF Submit
<1> DEFINE r == [session[s] EXCEPT !.todo = @ \ {c}, !.to[c] = to]
<1>2. session[s] \in SessionRec /\ SessionOK(s, session[s], approvers) /\ session \in [Subjects -> SessionRec]
  BY DEF BackupInv, LedgerTypeOK
<1>3. session' = [session EXCEPT ![s] = r]
  BY <1>1, <1>2
<1>4. /\ r \in SessionRec /\ r.todo = session[s].todo \ {c} /\ r.approves = session[s].approves
      /\ r.by = session[s].by /\ r.to = [session[s].to EXCEPT ![c] = to]
  BY <1>2 DEF SessionRec, RowStatus
<1>5. r.to[c] = to /\ \A d \in Rows \ {c} : r.to[d] = session[s].to[d]
  BY <1>2, <1>4 DEF SessionRec
<1> HIDE DEF r
<1>6. c \in Dual => Both(approvers[c]) /\ session[s].by[c] = AsRead
  BY <1>2 DEF SessionOK, Submit
<1>7. \A d \in Dual : d \in r.todo => Both(approvers[d]) /\ r.by[d] = AsRead
  BY <1>2, <1>4 DEF SessionOK
<1>8. \A d \in Dual : r.by[d] # AsRead => r.by[d] = s /\ (r.to[d] = "rejected" \/ d \in r.approves)
  BY <1>2, <1>4, <1>5, <1>6, DualRows DEF SessionOK
<1>9. \A d \in Dual : /\ r.to[d] # "pending"
                      /\ r.to[d] = "approved" => d \in r.approves /\ \E o \in approvers[d] : o # s
  BY <1>2, <1>4, <1>5, DualRows DEF SessionOK
<1>10. SessionOK(s, r, approvers)
  BY <1>7, <1>8, <1>9 DEF SessionOK
<1>11. /\ submitted \subseteq Dual /\ submitted' = submitted \union ({c} \intersect Dual)
       /\ UNCHANGED <<row, by, approvers>>
  BY DEF BackupInv, LedgerTypeOK, Submit
<1>12. submitted' \subseteq Dual /\ \A d \in submitted' : d \in submitted \/ Both(approvers[d])
  BY <1>6, <1>11
<1> QED BY <1>3, <1>4, <1>10, <1>11, <1>12, SessionMoves

LEMMA SessionDiesOK ==
  ASSUME BackupInv, NEW s \in Subjects, SessionDies(s)
  PROVE  BackupInv'
<1>1. submitted \subseteq Dual
  BY DEF BackupInv, LedgerTypeOK
<1> QED BY <1>1, NoRequestOK, SessionMoves DEF SessionDies

(* What the commit writes over what it read: an approval that is written    *)
(* has its two approvers whatever was committed in between, and decided_by  *)
(* of a row that is still pending is one of them.                           *)
LEMMA SessionCommitsOK ==
  ASSUME BackupInv, NEW s \in Subjects, SessionCommits(s)
  PROVE  BackupInv'
<1> DEFINE r == session[s]
           gains(c) == IF c \in r.approves THEN {s} ELSE {}
<1>1. /\ row \in [Rows -> RowRec] /\ by \in [Dual -> Subjects \union {Nobody}]
      /\ session \in [Subjects -> SessionRec] /\ approvers \in [Dual -> SUBSET Subjects]
      /\ submitted \subseteq Dual /\ r \in SessionRec
      /\ \A o \in Subjects : SessionOK(o, session[o], approvers)
  BY DEF BackupInv, LedgerTypeOK
<1>2. /\ row' = [c \in Rows |-> [row[c] EXCEPT !.status = IF r.to[c] = AsRead THEN @ ELSE r.to[c],
                                               !.overdue = @ /\ r.to[c] = AsRead]]
      /\ by' = [c \in Dual |-> IF r.by[c] = AsRead THEN by[c] ELSE r.by[c]]
      /\ approvers' = [c \in Dual |-> approvers[c] \union gains(c)]
      /\ session' = [session EXCEPT ![s] = NoRequest]
      /\ submitted' = submitted
  BY DEF SessionCommits
<1>3. \A c \in Rows : row'[c].status = IF r.to[c] = AsRead THEN row[c].status ELSE r.to[c]
  BY <1>1, <1>2 DEF RowRec
<1>4. row' \in [Rows -> RowRec]
  <2>1. ASSUME NEW c \in Rows
        PROVE  [row[c] EXCEPT !.status = IF r.to[c] = AsRead THEN @ ELSE r.to[c],
                              !.overdue = @ /\ r.to[c] = AsRead] \in RowRec
    <3>1. row[c] \in RowRec /\ r.to[c] \in RowStatus \union {AsRead}
      BY <1>1 DEF SessionRec
    <3>2. (IF r.to[c] = AsRead THEN row[c].status ELSE r.to[c]) \in RowStatus
      BY <3>1 DEF RowRec
    <3> HIDE DEF r
    <3>3. (row[c].overdue /\ r.to[c] = AsRead) \in BOOLEAN
      OBVIOUS
    <3> QED BY <3>1, <3>2, <3>3 DEF RowRec
  <2> QED BY <1>2, <2>1
<1>5. by' \in [Dual -> Subjects \union {Nobody}] /\ approvers' \in [Dual -> SUBSET Subjects]
  BY <1>1, <1>2 DEF SessionRec
<1>6. session' \in [Subjects -> SessionRec]
  BY <1>1, <1>2, NoRequestOK
<1>7. LedgerTypeOK'
  BY <1>1, <1>2, <1>4, <1>5, <1>6 DEF LedgerTypeOK
<1>8. \A c \in Dual : approvers[c] \subseteq approvers'[c] /\ approvers'[c] = approvers[c] \union gains(c)
  BY <1>2
<1>9. \A c \in Dual : IsFiniteSet(approvers'[c])
  <2>1. ASSUME NEW c \in Dual
        PROVE  IsFiniteSet(approvers[c] \union gains(c))
    <3>1. IsFiniteSet(approvers[c]) /\ IsFiniteSet({s}) /\ IsFiniteSet({})
      BY FS_Singleton, FS_EmptySet DEF BackupInv
    <3> QED BY <3>1, FS_Union
  <2> QED BY <1>8, <2>1
<1>10. \A c \in Dual : Both(approvers[c]) => Both(approvers'[c])
  BY <1>8 DEF Both
<1>11. \A o \in Subjects : SessionOK(o, session'[o], approvers')
  <2>1. \A o \in Subjects : session'[o] = IF o = s THEN NoRequest ELSE session[o]
    BY <1>1, <1>2
  <2>2. \A o \in Subjects : SessionOK(o, session[o], approvers')
    BY <1>1, <1>8, <1>10 DEF SessionOK
  <2> QED BY <2>1, <2>2, NoRequestOK
<1>12. ASSUME NEW c \in Dual, row'[c].status = "approved" \/ c \in submitted'
       PROVE  Both(approvers'[c])
  <2>1. CASE row[c].status = "approved" \/ c \in submitted
    BY <1>10, <2>1 DEF BackupInv
  <2>2. CASE r.to[c] = "approved"
    <3>1. PICK o \in approvers[c] : o # s
      BY <1>1, <2>2 DEF SessionOK
    <3>2. c \in r.approves
      BY <1>1, <2>2 DEF SessionOK
    <3>3. o \in approvers'[c] /\ s \in approvers'[c]
      BY <1>8, <3>1, <3>2
    <3> QED BY <3>1, <3>3 DEF Both
  <2> QED BY <1>2, <1>3, <1>12, <2>1, <2>2, DualRows
<1>13. ASSUME NEW c \in Dual, row'[c].status = "pending", by'[c] # Nobody
       PROVE  by'[c] \in approvers'[c]
  <2>1. r.to[c] = AsRead /\ row[c].status = "pending"
    BY <1>1, <1>3, <1>13, DualRows DEF SessionOK
  <2>2. CASE r.by[c] = AsRead
    <3>1. by'[c] = by[c]
      BY <1>2, <2>2
    <3> QED BY <1>8, <1>13, <2>1, <3>1 DEF BackupInv
  <2>3. CASE r.by[c] # AsRead
    <3>1. r.by[c] = s /\ c \in r.approves
      BY <1>1, <2>1, <2>3 DEF SessionOK, AsRead
    <3> QED BY <1>2, <1>8, <2>3, <3>1
  <2> QED BY <2>2, <2>3
<1> QED BY <1>7, <1>9, <1>11, <1>12, <1>13 DEF BackupInv

(* The poller and rollbacks: a dual change is neither approved nor made     *)
(* pending by them.                                                         *)
LEMMA RowsMove ==
  ASSUME BackupInv, row' \in [Rows -> RowRec], UNCHANGED <<by, session, approvers, submitted>>,
         \A c \in Dual : row'[c].status \in {"approved", "pending"} => row'[c].status = row[c].status
  PROVE  BackupInv'
<1>1. LedgerTypeOK'
  BY DEF BackupInv, LedgerTypeOK
<1>2. /\ \A c \in Dual : IsFiniteSet(approvers[c])
      /\ \A c \in Dual : row[c].status = "approved" \/ c \in submitted => Both(approvers[c])
      /\ \A c \in Dual : row[c].status = "pending" /\ by[c] # Nobody => by[c] \in approvers[c]
      /\ \A s \in Subjects : SessionOK(s, session[s], approvers)
  BY DEF BackupInv
<1>3. \A c \in Dual : row'[c].status = "approved" \/ c \in submitted' => Both(approvers'[c])
  BY <1>2
<1>4. \A c \in Dual : row'[c].status = "pending" /\ by'[c] # Nobody => by'[c] \in approvers'[c]
  BY <1>2
<1>5. /\ \A c \in Dual : IsFiniteSet(approvers'[c])
      /\ \A s \in Subjects : SessionOK(s, session'[s], approvers')
  BY <1>2
<1> QED BY <1>1, <1>3, <1>4, <1>5 DEF BackupInv

LEMMA AddInverseOK ==
  ASSUME BackupInv, NEW u \in Inverses, AddInverse(u)
  PROVE  BackupInv'
<1>1. row \in [Rows -> RowRec] /\ u \in Rows
  BY DEF BackupInv, LedgerTypeOK, Rows
<1>2. row' = [row EXCEPT ![u].status = "pending"] /\ UNCHANGED <<by, session, approvers, submitted>>
  BY DEF AddInverse
<1>3. row' \in [Rows -> RowRec] /\ \A c \in Dual : row'[c] = row[c]
  BY <1>1, <1>2, DualRows DEF RowRec, RowStatus
<1> QED BY <1>2, <1>3, RowsMove

LEMMA DeadlinePassesOK ==
  ASSUME BackupInv, NEW c \in Rows, DeadlinePasses(c)
  PROVE  BackupInv'
<1>1. row \in [Rows -> RowRec]
  BY DEF BackupInv, LedgerTypeOK
<1>2. row' = [row EXCEPT ![c].overdue = TRUE] /\ UNCHANGED <<by, session, approvers, submitted>>
  BY DEF DeadlinePasses
<1>3. row' \in [Rows -> RowRec] /\ \A d \in Rows : row'[d].status = row[d].status
  BY <1>1, <1>2 DEF RowRec
<1> QED BY <1>2, <1>3, RowsMove, DualRows

LEMMA TickCommitsOK ==
  ASSUME BackupInv, NEW p \in Pollers, TickCommits(p)
  PROVE  BackupInv'
<1>1. row \in [Rows -> RowRec]
  BY DEF BackupInv, LedgerTypeOK
<1>2. PICK heard : row' = [c \in Rows |->
                             IF c \in {d \in tick[p].rows : heard[d] = "applied"}
                                      \union {d \in tick[p].rows : heard[d] = "failed"}
                             THEN [status |-> heard[c], overdue |-> FALSE] ELSE row[c]]
  BY DEF TickCommits
<1>3. UNCHANGED <<by, session, approvers, submitted>>
  BY DEF TickCommits
<1>4. \A c \in Rows : \/ row'[c] = row[c]
                      \/ \E to \in {"applied", "failed"} : row'[c] = [status |-> to, overdue |-> FALSE]
  BY <1>2
<1>5. row' \in [Rows -> RowRec]
  BY <1>1, <1>2 DEF RowRec, RowStatus
<1>6. \A c \in Dual : row'[c].status \in {"approved", "pending"} => row'[c].status = row[c].status
  BY <1>4, DualRows
<1> QED BY <1>3, <1>5, <1>6, RowsMove

LEMMA InitBackupInv ==
  ASSUME BackupInit
  PROVE  BackupInv
<1>1. row \in [Rows -> RowRec] /\ \A c \in Rows : row[c].status \in {"pending", "absent"}
  BY DEF BackupInit, RowRec, RowStatus
<1>2. session \in [Subjects -> SessionRec] /\ \A s \in Subjects : session[s] = NoRequest
  BY NoRequestOK DEF BackupInit
<1>3. LedgerTypeOK
  BY <1>1, <1>2 DEF BackupInit, LedgerTypeOK
<1>4. \A c \in Dual : by[c] = Nobody /\ IsFiniteSet(approvers[c]) /\ c \notin submitted
  BY FS_EmptySet DEF BackupInit
<1>5. \A s \in Subjects : SessionOK(s, session[s], approvers)
  BY <1>2, NoRequestOK
<1> QED BY <1>1, <1>3, <1>4, <1>5, DualRows DEF BackupInv

LEMMA StepBackupInv ==
  ASSUME BackupInv, [BackupNext]_bvars
  PROVE  BackupInv'
<1>1. CASE BackupNext
  <2>1. CASE \E s \in Subjects, c \in Rows : Reject(s, c) \/ Approve(s, c) \/ Submit(s, c)
    BY <2>1, RejectOK, ApproveOK, SubmitOK
  <2>2. CASE \E s \in Subjects, S \in RowSets :
               ApplyMany(s, S) \/ \E d \in {"approved", "rejected"} : DecideMany(s, S, d)
    BY <2>2, ApplyManyOK, DecideManyOK
  <2>3. CASE \E s \in Subjects : SessionCommits(s) \/ SessionDies(s)
    BY <2>3, SessionCommitsOK, SessionDiesOK
  <2>4. CASE \E u \in Inverses : AddInverse(u)
    BY <2>4, AddInverseOK
  <2>5. CASE \E p \in Pollers : TickReads(p) \/ TickDies(p)
    <3>1. row \in [Rows -> RowRec] /\ UNCHANGED <<row, by, session, approvers, submitted>>
      BY <2>5 DEF TickReads, TickDies, BackupInv, LedgerTypeOK
    <3> QED BY <3>1, RowsMove
  <2>6. CASE \E p \in Pollers : TickCommits(p)
    BY <2>6, TickCommitsOK
  <2>7. CASE \E c \in Rows : DeadlinePasses(c)
    BY <2>7, DeadlinePassesOK
  <2> QED BY <1>1, <2>1, <2>2, <2>3, <2>4, <2>5, <2>6, <2>7 DEF BackupNext
<1>2. CASE UNCHANGED bvars
  <2>1. row \in [Rows -> RowRec] /\ UNCHANGED <<row, by, session, approvers, submitted>>
    BY <1>2 DEF bvars, BackupInv, LedgerTypeOK
  <2> QED BY <2>1, RowsMove
<1> QED BY <1>1, <1>2

(* The columns of the Backup Manager's ledger and its requests have their   *)
(* types.                                                                   *)
THEOREM LedgerTypes == BackupSpec => []LedgerTypeOK
<1>1. BackupInv => LedgerTypeOK
  BY DEF BackupInv
<1> QED BY <1>1, InitBackupInv, StepBackupInv, PTL DEF BackupSpec

(* Whatever decisions, applications and rollbacks overlap, a dual change    *)
(* reaches Azure only after two different subjects approved it: the second  *)
(* approval was checked against a decided_by that was an approver's, and an *)
(* approval, once given, stays given.                                       *)
THEOREM TwoApproversNeeded == BackupSpec => []TwoApprovers
<1>1. BackupInv => TwoApprovers
  BY BothAreTwo DEF BackupInv, TwoApprovers, LedgerTypeOK
<1> QED BY <1>1, InitBackupInv, StepBackupInv, PTL DEF BackupSpec
-----------------------------------------------------------------------------
(* The pollers' line.  A set of rows put in order stands in line once each. *)
LEMMA OrderOf ==
  ASSUME NEW S, IsFiniteSet(S), NEW q \in Orders(S)
  PROVE  /\ q \in Seq(S) /\ {q[i] : i \in DOMAIN q} = S
         /\ \A i, j \in DOMAIN q : q[i] = q[j] => i = j
<1> DEFINE n == Cardinality(S)
<1>1. n \in Nat
  BY FS_CardinalityType
<1>2. q \in [1..n -> S] /\ {q[i] : i \in DOMAIN q} = S
  BY DEF Orders
<1>3. IsFiniteSet(1..n) /\ Cardinality(1..n) = n
  BY <1>1, FS_Interval
<1> HIDE DEF n
<1>4. q \in Surjection(1..n, S)
  BY <1>2 DEF Surjection, Range
<1>5. Cardinality(1..n) = Cardinality(S)
  BY <1>3 DEF n
<1>6. q \in Injection(1..n, S)
  BY <1>3, <1>4, <1>5, FS_SurjSameCardinalityImpliesInj
<1>7. q \in Seq(S)
  BY <1>1, <1>2
<1> QED BY <1>2, <1>6, <1>7 DEF Injection, IsInjective

(* A commit that schedules moved again and leaves applying just those that  *)
(* stay and those it schedules.                                             *)
LEMMA Scheduled ==
  ASSUME LineOK, NEW moved \in SUBSET Rows, InLine(moved),
         {c \in Rows : row'[c].status = "applying"} = Stay(moved) \union moved,
         tick' \in [Pollers -> TickRec], \A p \in Pollers : tick'[p].late \subseteq tick'[p].rows
  PROVE  LineOK'
<1> DEFINE queued == Stay(moved) \union moved
<1>1. queued \subseteq Rows /\ IsFiniteSet(queued)
  <2>1. queued \subseteq Rows
    OBVIOUS
  <2> QED BY <2>1, BackupAssumption, FS_Subset
<1>2. PICK q \in Orders(queued) : line' = q
  BY DEF InLine
<1> HIDE DEF queued
<1>3. /\ line' \in Seq(queued) /\ {line'[i] : i \in DOMAIN line'} = queued
      /\ \A i, j \in DOMAIN line' : line'[i] = line'[j] => i = j
  BY <1>1, <1>2, OrderOf
<1>4. line' \in Seq(Rows)
  BY <1>1, <1>3
<1>5. {c \in Rows : row'[c].status = "applying"} = Waiting'
  BY <1>3 DEF queued, Waiting
<1> QED BY <1>3, <1>4, <1>5 DEF LineOK

(* A step that neither moves a row in line nor into or out of applying.     *)
LEMMA LineStays ==
  ASSUME LineOK, line' = line,
         \A c \in Rows : (row'[c].status = "applying") = (row[c].status = "applying"),
         tick' \in [Pollers -> TickRec], \A p \in Pollers : tick'[p].late \subseteq tick'[p].rows
  PROVE  LineOK'
<1>1. {c \in Rows : row'[c].status = "applying"} = {c \in Rows : row[c].status = "applying"}
  OBVIOUS
<1>2. Waiting' = Waiting
  BY DEF Waiting
<1> QED BY <1>1, <1>2 DEF LineOK

(* A step of poller p alone: its tick becomes t. *)
LEMMA TickMoves ==
  ASSUME LineOK, NEW p \in Pollers, NEW t \in TickRec, t.late \subseteq t.rows,
         tick' = [tick EXCEPT ![p] = t]
  PROVE  tick' \in [Pollers -> TickRec] /\ \A o \in Pollers : tick'[o].late \subseteq tick'[o].rows
<1>1. tick \in [Pollers -> TickRec] /\ \A o \in Pollers : tick[o].late \subseteq tick[o].rows
  BY DEF LineOK
<1>2. tick'[p] = t /\ \A o \in Pollers \ {p} : tick'[o] = tick[o]
  BY <1>1
<1> QED BY <1>1, <1>2

LEMMA NoTickOK == NoTick \in TickRec /\ NoTick.late \subseteq NoTick.rows
  BY DEF NoTick, TickRec

(* Rows a commit submitted go to the end of the line; rows it writes        *)
(* anything else over, applying or not, leave it.                           *)
LEMMA SessionCommitsInLine ==
  ASSUME BackupInv, LineOK, NEW s \in Subjects, SessionCommits(s)
  PROVE  LineOK'
<1> DEFINE r == session[s]
           started == {c \in Rows : r.to[c] = "applying"}
<1>1. row \in [Rows -> RowRec]
  BY DEF BackupInv, LedgerTypeOK
<1>2. /\ row' = [c \in Rows |-> [row[c] EXCEPT !.status = IF r.to[c] = AsRead THEN @ ELSE r.to[c],
                                               !.overdue = @ /\ r.to[c] = AsRead]]
      /\ InLine(started) /\ tick' = tick
  BY DEF SessionCommits
<1>3. \A c \in Rows : row'[c].status = IF r.to[c] = AsRead THEN row[c].status ELSE r.to[c]
  BY <1>1, <1>2 DEF RowRec
<1>4. \A c \in Rows : row'[c].status = "applying" =>
                        c \in started \/ row[c].status = "applying"
  BY <1>3 DEF AsRead
<1>5. \A c \in started : row'[c].status = "applying"
  BY <1>3 DEF AsRead
<1>6. started \subseteq Rows
  OBVIOUS
<1> HIDE DEF r, started
<1>7. Waiting = {c \in Rows : row[c].status = "applying"}
  BY DEF LineOK
<1>8. {c \in Rows : row'[c].status = "applying"} = Stay(started) \union started
  BY <1>4, <1>5, <1>6, <1>7 DEF Stay
<1>9. tick' \in [Pollers -> TickRec] /\ \A p \in Pollers : tick'[p].late \subseteq tick'[p].rows
  BY <1>2 DEF LineOK
<1> QED BY <1>2, <1>6, <1>8, <1>9, Scheduled

(* What the poller heard to be running goes to the end of the line if it    *)
(* still applies; what it heard to be over leaves it, and so it does when   *)
(* the row was committed anew after the tick read it.                       *)
LEMMA TickCommitsInLine ==
  ASSUME BackupInv, LineOK, NEW p \in Pollers, TickCommits(p)
  PROVE  LineOK'
<1> DEFINE t == tick[p]
<1>1. PICK heard \in [t.rows -> Heard] :
         /\ row' = [c \in Rows |->
                      IF c \in {d \in t.rows : heard[d] = "applied"} \union {d \in t.rows : heard[d] = "failed"}
                      THEN [status |-> heard[c], overdue |-> FALSE] ELSE row[c]]
         /\ InLine({c \in {d \in t.rows : heard[d] = "running"} : row[c].status = "applying"})
  BY DEF TickCommits
<1> DEFINE over == {d \in t.rows : heard[d] = "applied"} \union {d \in t.rows : heard[d] = "failed"}
           moved == {c \in {d \in t.rows : heard[d] = "running"} : row[c].status = "applying"}
<1>2. t.rows \subseteq Rows
  BY DEF LineOK, TickRec
<1>3. \A c \in over : row'[c].status \in {"applied", "failed"}
  BY <1>1, <1>2
<1>4. \A c \in Rows \ over : row'[c] = row[c]
  BY <1>1
<1>5. /\ moved \subseteq Rows /\ moved \intersect over = {} /\ \A c \in moved : row[c].status = "applying"
      /\ InLine(moved)
  BY <1>1, <1>2
<1> HIDE DEF t, over, moved
<1>6. Waiting = {c \in Rows : row[c].status = "applying"}
  BY DEF LineOK
<1>7. {c \in Rows : row'[c].status = "applying"} = Stay(moved) \union moved
  BY <1>3, <1>4, <1>5, <1>6 DEF Stay
<1>8. tick' = [tick EXCEPT ![p] = NoTick]
  BY DEF TickCommits
<1>9. tick' \in [Pollers -> TickRec] /\ \A o \in Pollers : tick'[o].late \subseteq tick'[o].rows
  BY <1>8, NoTickOK, TickMoves
<1> QED BY <1>5, <1>7, <1>9, Scheduled

LEMMA TickReadsInLine ==
  ASSUME LineOK, NEW p \in Pollers, TickReads(p)
  PROVE  LineOK'
<1>1. PICK n \in 1..BatchSize :
         /\ n <= Len(line)
         /\ tick' = [tick EXCEPT ![p] = [at |-> "polling", rows |-> {line[i] : i \in 1..n},
                                         late |-> {c \in {line[i] : i \in 1..n} : TimedOut(c)}]]
  BY DEF TickReads
<1> DEFINE due == {line[i] : i \in 1..n}
           t == [at |-> "polling", rows |-> due, late |-> {c \in due : TimedOut(c)}]
<1>2. due \subseteq Rows
  <2>1. line \in Seq(Rows) /\ n \in Nat
    BY <1>1, BackupAssumption DEF LineOK
  <2>2. \A i \in 1..n : i \in 1..Len(line)
    BY <1>1, <2>1
  <2> QED BY <2>1, <2>2
<1>3. t \in TickRec /\ t.late \subseteq t.rows
  BY <1>2 DEF TickRec
<1>4. tick' = [tick EXCEPT ![p] = t] /\ line' = line /\ row' = row
  BY <1>1 DEF TickReads
<1> HIDE DEF t, due
<1> QED BY <1>3, <1>4, TickMoves, LineStays

LEMMA TickDiesInLine ==
  ASSUME LineOK, NEW p \in Pollers, TickDies(p)
  PROVE  LineOK'
<1>1. tick' = [tick EXCEPT ![p] = NoTick] /\ line' = line /\ row' = row
  BY DEF TickDies
<1> QED BY <1>1, NoTickOK, TickMoves, LineStays

LEMMA InitLine == BackupInit => LineOK
<1> SUFFICES ASSUME BackupInit PROVE LineOK
  OBVIOUS
<1>1. line = <<>> /\ line \in Seq(Rows) /\ DOMAIN line = {}
  BY DEF BackupInit
<1>2. \A c \in Rows : row[c].status # "applying"
  BY DEF BackupInit
<1>3. tick \in [Pollers -> TickRec] /\ \A p \in Pollers : tick[p].late \subseteq tick[p].rows
  BY NoTickOK DEF BackupInit
<1>4. {c \in Rows : row[c].status = "applying"} = Waiting
  BY <1>1, <1>2 DEF Waiting
<1> QED BY <1>1, <1>3, <1>4 DEF LineOK

(* No other step commits rows that are applying. *)
LEMMA StepLine ==
  ASSUME BackupInv, LineOK, [BackupNext]_bvars
  PROVE  LineOK'
<1>1. row \in [Rows -> RowRec]
  BY DEF BackupInv, LedgerTypeOK
<1>2. tick \in [Pollers -> TickRec] /\ \A p \in Pollers : tick[p].late \subseteq tick[p].rows
  BY DEF LineOK
<1>3. CASE \E s \in Subjects : SessionCommits(s)
  BY <1>3, SessionCommitsInLine
<1>4. CASE \E p \in Pollers : TickReads(p) \/ TickCommits(p) \/ TickDies(p)
  BY <1>4, TickReadsInLine, TickCommitsInLine, TickDiesInLine
<1>5. CASE UNCHANGED <<row, line, tick>>
  BY <1>2, <1>5, LineStays
<1>6. CASE \E u \in Inverses : AddInverse(u)
  <2>1. PICK u \in Inverses : AddInverse(u)
    BY <1>6
  <2>2. u \in Rows /\ row[u].status = "absent" /\ row' = [row EXCEPT ![u].status = "pending"]
        /\ UNCHANGED <<line, tick>>
    BY <2>1 DEF AddInverse, Rows
  <2>3. \A c \in Rows : (row'[c].status = "applying") = (row[c].status = "applying")
    BY <1>1, <2>2 DEF RowRec
  <2> QED BY <1>2, <2>2, <2>3, LineStays
<1>7. CASE \E c \in Rows : DeadlinePasses(c)
  <2>1. PICK d \in Rows : DeadlinePasses(d)
    BY <1>7
  <2>2. row' = [row EXCEPT ![d].overdue = TRUE] /\ UNCHANGED <<line, tick>>
    BY <2>1 DEF DeadlinePasses
  <2>3. \A c \in Rows : (row'[c].status = "applying") = (row[c].status = "applying")
    BY <1>1, <2>2 DEF RowRec
  <2> QED BY <1>2, <2>2, <2>3, LineStays
<1>8. CASE \E s \in Subjects, c \in Rows : Reject(s, c) \/ Approve(s, c) \/ Submit(s, c)
  BY <1>5, <1>8 DEF Reject, Approve, Submit, Open
<1>9. CASE \E s \in Subjects, S \in RowSets :
             ApplyMany(s, S) \/ \E d \in {"approved", "rejected"} : DecideMany(s, S, d)
  BY <1>5, <1>9 DEF ApplyMany, DecideMany, Open
<1>10. CASE \E s \in Subjects : SessionDies(s)
  BY <1>5, <1>10 DEF SessionDies
<1>11. CASE UNCHANGED bvars
  BY <1>5, <1>11 DEF bvars
<1> QED BY <1>3, <1>4, <1>6, <1>7, <1>8, <1>9, <1>10, <1>11 DEF BackupNext

(* The whole ledger has its types, and the pollers' line holds each change  *)
(* that is applying, once, and nothing else: no commit, however it overlaps *)
(* with a tick of any replica, leaves an applying change that no tick will  *)
(* ever read.                                                               *)
THEOREM NothingLeftBehind == BackupSpec => []BackupTypeOK
<1>1. BackupInv /\ LineOK => BackupTypeOK
  BY DEF BackupInv, BackupTypeOK
<1> QED BY <1>1, InitBackupInv, StepBackupInv, InitLine, StepLine, PTL DEF BackupSpec
=============================================================================
